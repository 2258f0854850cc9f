------------------------- MODULE SessionLog_proofs -------------------------
(***************************************************************************)
(* Theorems of SessionLog for every bound.                                 *)
(*                                                                         *)
(* PlaceInv says where rows and references are: the log has no holes, so   *)
(* a seq names one row.  With it, a block carries its row's identity       *)
(* (LogInv).  ReadInv follows an import through the transcript and gives   *)
(* SyncedIsRecorded.  OnceInv says under which name a message is stored,   *)
(* and gives StoredOnce.                                                   *)
(***************************************************************************)
EXTENDS SessionLog, SequenceTheorems, TLAPS

(* A row's seq is its place in the log.                                    *)
SeqIsPlace == \A i \in 1..Len(log) : log[i].seq = i

(* Every reference to a message is to one that was said.                   *)
Said == 1..Len(texts)

RefersToSaid ==
  /\ live.at # "idle" => live.of \in Said
  /\ agent.at # "idle" => agent.of \in Said
  /\ \A k \in 1..Len(transcript) : transcript[k].of \in Said
  /\ \A k \in 1..Len(sync.items) : sync.items[k].of \in Said

(* Who is about to write a body has its row, or knows a row before it.     *)
WritersRow ==
  /\ live.at \in {"user body", "agent body"} =>
       live.seq \in 1..Len(log) /\ log[live.seq].id = live.id
  /\ sync.at \in {"append", "body"} => sync.items # <<>>
  /\ sync.at = "body" => sync.own \in 1..Len(log)

PlaceInv == TypeOK /\ SeqIsPlace /\ RefersToSaid /\ WritersRow

LogInv == PlaceInv /\ BlocksNameTheirRow

-----------------------------------------------------------------------------
(* Appending a row with the next seq.                                      *)
LEMMA RowAppended ==
  ASSUME TypeOK, SeqIsPlace, NEW row \in Rows, row.seq = NextSeq,
         log' = Append(log, row)
  PROVE  /\ NextSeq = Len(log) + 1 /\ NextSeq \in 1..Len(log')
         /\ log' \in Seq(Rows) /\ Len(log') = Len(log) + 1
         /\ \A i \in 1..Len(log) : i \in 1..Len(log') /\ log'[i] = log[i]
         /\ log'[NextSeq] = row
         /\ SeqIsPlace'
<1>1. log \in Seq(Rows) /\ Len(log) \in Nat
  BY DEF TypeOK
<1>2. NextSeq = Len(log) + 1
  <2>1. CASE log = <<>>
    BY <2>1 DEF NextSeq, MaxExchangeSeq
  <2>2. CASE log # <<>>
    <3>1. Len(log) \in 1..Len(log)
      BY <1>1, <2>2
    <3> QED BY <1>1, <2>2, <3>1 DEF NextSeq, MaxExchangeSeq, SeqIsPlace
  <2> QED BY <2>1, <2>2
<1>3. /\ log' \in Seq(Rows) /\ Len(log') = Len(log) + 1
      /\ \A i \in 1..Len(log) : log'[i] = log[i]
      /\ log'[Len(log) + 1] = row
  BY <1>1
<1>4. \A i \in 1..Len(log') : log'[i].seq = i
  BY <1>1, <1>2, <1>3 DEF SeqIsPlace
<1> QED BY <1>1, <1>2, <1>3, <1>4 DEF SeqIsPlace

(* A row is a row whatever its parts are.                                  *)
LEMMA IsRow ==
  ASSUME NEW seq \in Nat, NEW role \in Roles, NEW source \in {"live", "import"},
         NEW id \in Idents, NEW native \in Idents, NEW of \in Nat
  PROVE  /\ Row(seq, role, source, id, native, of) \in Rows
         /\ Row(seq, role, source, id, native, of).seq = seq
         /\ Row(seq, role, source, id, native, of).id = id
         /\ Row(seq, role, source, id, native, of).role = role
         /\ Row(seq, role, source, id, native, of).source = source
         /\ Row(seq, role, source, id, native, of).native = native
  BY DEF Row, Rows

LEMMA IdTypes ==
  /\ NoId \in Idents
  /\ \A n \in Nat : /\ Id("user", n) \in Idents /\ Id("agent", n) \in Idents
                  /\ NewUserTurnMindFSID(n) \in Idents
  /\ \A id \in Idents : NewMindFSID(id) \in Idents
  BY DEF NoId, Id, Idents, NewUserTurnMindFSID, NewMindFSID

LEMMA ImportedRow ==
  ASSUME NEW seq \in Nat, NEW e \in Entries
  PROVE  /\ Imported(seq, e) \in Rows
         /\ Imported(seq, e).seq = seq /\ Imported(seq, e).source = "import"
         /\ Imported(seq, e).role = e.role /\ Imported(seq, e).native = e.native
<1>1. e.role \in Roles /\ e.native \in Idents /\ e.of \in Nat
  BY DEF Entries
<1>2. NewMindFSID(e.native) \in Idents
  BY <1>1, IdTypes
<1> QED BY <1>1, <1>2, IsRow DEF Imported

LEMMA NobodyTypes == NoTurn \in LiveStates /\ NoAsk \in AskStates /\ NoSync \in SyncStates
  BY IdTypes DEF NoTurn, LiveStates, NoAsk, AskStates, NoSync, SyncStates

-----------------------------------------------------------------------------
LEMMA PlaceInit == Init => LogInv
<1> SUFFICES ASSUME Init PROVE LogInv
  OBVIOUS
<1>1. Question \in Entries /\ Answer \in Entries
  BY IdTypes DEF Question, Answer, Entries, Roles
<1>2. echoes \in BOOLEAN /\ live = NoTurn /\ agent = NoAsk /\ sync = NoSync
      /\ syncs = 0 /\ faults = 0
  BY DEF Init
<1>3. CASE InitNew
  <2>1. TypeOK
    <3>1. log \in Seq(Rows) /\ texts \in Seq(Nat) /\ transcript \in Seq(Entries)
          /\ ctx \in Nat
      BY <1>3 DEF InitNew
    <3>2. blocks \subseteq Blocks /\ bound \in BOOLEAN
      BY <1>3, Zenon DEF InitNew
    <3> QED BY <1>2, <3>1, <3>2, NobodyTypes DEF TypeOK
  <2> QED BY <1>2, <1>3, <2>1
          DEF InitNew, LogInv, PlaceInv, SeqIsPlace, RefersToSaid, Said, WritersRow,
              BlocksNameTheirRow, NoTurn, NoAsk, NoSync
<1>4. CASE InitImported
  <2> DEFINE q == Imported(1, Question)
             a == Imported(2, Answer)
  <2>1. q \in Rows /\ a \in Rows /\ q.seq = 1 /\ a.seq = 2
    BY <1>1, ImportedRow
  <2>2. ImportedBlock(1, Question) \in Blocks /\ ImportedBlock(2, Answer) \in Blocks
    BY <1>1, IdTypes DEF ImportedBlock, Blocks, Entries
  <2>3. /\ ImportedBlock(1, Question).seq = 1 /\ ImportedBlock(1, Question).id = q.id
        /\ ImportedBlock(2, Answer).seq = 2 /\ ImportedBlock(2, Answer).id = a.id
    BY DEF ImportedBlock, Imported, Row
  <2> HIDE DEF q, a
  <2>4. log = <<q, a>>
    BY <1>4 DEF InitImported, q, a
  <2>5. log \in Seq(Rows) /\ Len(log) = 2 /\ log[1] = q /\ log[2] = a
    BY <2>1, <2>4
  <2>6. transcript \in Seq(Entries) /\ texts \in Seq(Nat) /\ Len(transcript) = 2
        /\ transcript[1] = Question /\ transcript[2] = Answer /\ Len(texts) = 1
    BY <1>1, <1>4 DEF InitImported
  <2>7. TypeOK
    BY <1>2, <1>4, <2>2, <2>5, <2>6, NobodyTypes DEF InitImported, TypeOK
  <2>8. SeqIsPlace
    BY <2>1, <2>5 DEF SeqIsPlace
  <2>9. RefersToSaid
    BY <1>2, <2>6 DEF RefersToSaid, Said, NoTurn, NoAsk, NoSync, Question, Answer
  <2>10. WritersRow
    BY <1>2 DEF WritersRow, NoTurn, NoSync
  <2>11. BlocksNameTheirRow
    <3>1. blocks = {ImportedBlock(1, Question), ImportedBlock(2, Answer)}
      BY <1>4 DEF InitImported
    <3> QED BY <2>1, <2>3, <2>5, <3>1 DEF BlocksNameTheirRow
  <2> QED BY <2>7, <2>8, <2>9, <2>10, <2>11 DEF LogInv, PlaceInv
<1> QED BY <1>3, <1>4 DEF Init

-----------------------------------------------------------------------------
(* What the steps have in common: a new row takes no block from the rows   *)
(* there are, a new block must name its row, and what was said stays said. *)
LEMMA BlocksKept ==
  ASSUME LogInv, NEW row \in Rows, row.seq = NextSeq, log' = Append(log, row),
         blocks' = blocks
  PROVE  BlocksNameTheirRow'
<1>1. /\ \A i \in 1..Len(log) : i \in 1..Len(log') /\ log'[i] = log[i]
      /\ SeqIsPlace'
  BY RowAppended DEF LogInv, PlaceInv
<1> SUFFICES ASSUME NEW b \in blocks
             PROVE  \E i \in 1..Len(log') :
                      /\ log'[i].seq = b.seq /\ log'[i].id = b.id
                      /\ \A j \in 1..Len(log') : log'[j].seq = b.seq => j = i
  BY DEF BlocksNameTheirRow
<1>2. PICK i \in 1..Len(log) : log[i].seq = b.seq /\ log[i].id = b.id
  BY DEF LogInv, BlocksNameTheirRow
<1> QED BY <1>1, <1>2 DEF SeqIsPlace

LEMMA BlockAdded ==
  ASSUME LogInv, log' = log, NEW b, b.seq \in 1..Len(log), log[b.seq].id = b.id,
         blocks' = blocks \cup {b}
  PROVE  BlocksNameTheirRow'
<1> SUFFICES ASSUME NEW c \in blocks'
             PROVE  \E i \in 1..Len(log) :
                      /\ log[i].seq = c.seq /\ log[i].id = c.id
                      /\ \A j \in 1..Len(log) : log[j].seq = c.seq => j = i
  BY DEF BlocksNameTheirRow
<1>1. CASE c = b
  BY <1>1 DEF LogInv, PlaceInv, SeqIsPlace
<1>2. CASE c \in blocks
  BY <1>2 DEF LogInv, BlocksNameTheirRow
<1> QED BY <1>1, <1>2

LEMMA SaidGrows ==
  ASSUME TypeOK, NEW text \in Nat, texts' = Append(texts, text)
  PROVE  /\ texts' \in Seq(Nat) /\ Len(texts) + 1 \in Nat
         /\ Len(texts) + 1 \in Said' /\ \A s \in Said : s \in Said'
<1>1. texts \in Seq(Nat) /\ Len(texts) \in Nat
  BY DEF TypeOK
<1>2. texts' \in Seq(Nat) /\ Len(texts') = Len(texts) + 1
  BY <1>1
<1> QED BY <1>1, <1>2 DEF Said

(* A step that leaves the log, its blocks and what was said alone.         *)
LEMMA OnlyWritersMove ==
  ASSUME LogInv, UNCHANGED <<echoes, log, blocks, texts>>, TypeOK', RefersToSaid',
         WritersRow'
  PROVE  LogInv'
<1>1. SeqIsPlace'
  BY DEF LogInv, PlaceInv, SeqIsPlace
<1>2. BlocksNameTheirRow'
  BY DEF LogInv, BlocksNameTheirRow
<1> QED BY <1>1, <1>2 DEF LogInv, PlaceInv

-----------------------------------------------------------------------------
(* The live turn.                                                          *)
LEMMA LiveBegins ==
  ASSUME LogInv, NEW text \in {Len(texts) + 1} \cup Repetition,
         LiveBegin(text) \/ \E i \in 1..Len(log) : LiveBeginRecorded(text, i)
  PROVE  LogInv'
<1> USE DEF LogInv, PlaceInv
<1>1. text \in Nat
  <2>1. texts \in Seq(Nat)
    BY DEF TypeOK
  <2>2. texts # <<>> => texts[Len(texts)] \in Nat
    BY <2>1
  <2> QED BY <2>1, <2>2 DEF Repetition
<1>2. texts' = Append(texts, text)
  BY DEF LiveBegin, LiveBeginRecorded
<1>3. /\ texts' \in Seq(Nat) /\ Len(texts) + 1 \in Nat
      /\ Len(texts) + 1 \in Said' /\ \A s \in Said : s \in Said'
  BY <1>1, <1>2, SaidGrows
<1>4. UNCHANGED <<echoes, log, blocks, agentVars, sync, bindVars, syncs, faults>>
  BY DEF LiveBegin, LiveBeginRecorded, UnchangedByLive, agentVars
<1>5. /\ live' \in LiveStates /\ live'.of = Len(texts) + 1
      /\ live'.at \in {"new", "ready"}
  <2>1. CASE LiveBegin(text)
    BY <1>3, <2>1, NobodyTypes DEF LiveBegin, LiveStates
  <2>2. ASSUME NEW i \in 1..Len(log), LiveBeginRecorded(text, i)
        PROVE  /\ live' \in LiveStates /\ live'.of = Len(texts) + 1
               /\ live'.at \in {"new", "ready"}
    <3>1. log[i] \in Rows /\ log[i].seq = i /\ i \in Nat \ {0}
      BY DEF TypeOK, SeqIsPlace
    <3>2. log[i].id \in Idents /\ i - 1 \in Nat
      BY <3>1 DEF Rows
    <3>3. Len(texts) + 1 \in Nat /\ log[i].seq \in Nat /\ NoId \in Idents
      BY <1>3, <3>1, IdTypes
    <3>4. live' = [NoTurn EXCEPT !.at = "ready", !.of = Len(texts) + 1,
                                 !.seq = log[i].seq, !.lines = log[i].seq - 1,
                                 !.id = log[i].id]
      BY <2>2 DEF LiveBeginRecorded
    <3> QED BY ONLY <3>1, <3>2, <3>3, <3>4 DEF NoTurn, LiveStates
  <2> QED BY <2>1, <2>2
<1>6. TypeOK'
  BY <1>3, <1>4, <1>5 DEF TypeOK, agentVars, bindVars
<1>7. RefersToSaid'
  BY <1>3, <1>4, <1>5 DEF RefersToSaid, agentVars
<1>8. SeqIsPlace' /\ BlocksNameTheirRow'
  BY <1>4 DEF SeqIsPlace, BlocksNameTheirRow
<1>9. WritersRow'
  BY <1>4, <1>5 DEF WritersRow
<1> QED BY <1>6, <1>7, <1>8, <1>9

LEMMA LiveAppends ==
  ASSUME LogInv, LiveAppendUser \/ LiveAppendAgent
  PROVE  LogInv' /\ \E row \in Rows : /\ row.source = "live" /\ row.seq = NextSeq
                                     /\ log' = Append(log, row)
<1> USE DEF LogInv, PlaceInv
<1>1. PICK row \in Rows :
        /\ row.seq = NextSeq /\ row.source = "live"
        /\ log' = Append(log, row) /\ row.id = live'.id
        /\ live' \in LiveStates /\ live'.of = live.of /\ live.at # "idle"
        /\ live'.seq = NextSeq
  <2>1. NextSeq \in Nat /\ NextSeq - 1 \in Nat
    <3>1. log \in Seq(Rows)
      BY DEF TypeOK
    <3>2. log = <<>> \/ Len(log) \in 1..Len(log)
      BY <3>1
    <3>3. log = <<>> \/ log[Len(log)] \in Rows
      BY <3>1, <3>2, ElementOfSeq
    <3>4. log = <<>> \/ log[Len(log)].seq \in Nat
      BY <3>3 DEF Rows
    <3> QED BY <3>4 DEF NextSeq, MaxExchangeSeq
  <2>2. live.of \in Nat /\ live.id \in Idents /\ live.answer \in Idents
        /\ live \in LiveStates
    BY DEF TypeOK, LiveStates
  <2>3. CASE LiveAppendUser
    <3> DEFINE id == NewUserTurnMindFSID(NextSeq)
               row == Row(NextSeq, "user", "live", id, NoId, live.of)
    <3>1. id \in Idents /\ NoId \in Idents
      BY <2>1, IdTypes
    <3> HIDE DEF id
    <3>5. "user" \in Roles /\ "live" \in {"live", "import"}
      BY DEF Roles
    <3>2. row \in Rows /\ row.seq = NextSeq /\ row.id = id /\ row.source = "live"
      <4>1. NextSeq \in Nat /\ live.of \in Nat
        BY <2>1, <2>2
      <4> QED BY <3>1, <3>5, <4>1 DEF Row, Rows
    <3>3. live' \in LiveStates
      BY <2>1, <2>2, <2>3, <3>1 DEF LiveAppendUser, LiveStates, id
    <3>4. log' = Append(log, row) /\ live'.id = id /\ live'.of = live.of
          /\ live.at # "idle" /\ live'.seq = NextSeq
      BY <2>2, <2>3 DEF LiveAppendUser, LiveStates, id
    <3> QED BY <3>2, <3>3, <3>4
  <2>4. CASE LiveAppendAgent
    <3> DEFINE of == IF live.answer = NoId THEN 0 ELSE live.of
               row == Row(NextSeq, "agent", "live", live.id, live.answer, of)
    <3>1. of \in Nat
      BY <2>2
    <3> HIDE DEF of
    <3>2. row \in Rows /\ row.seq = NextSeq /\ row.id = live.id /\ row.source = "live"
      <4>1. NextSeq \in Nat /\ live.id \in Idents /\ live.answer \in Idents
        BY <2>1, <2>2
      <4> QED BY <3>1, <4>1 DEF Row, Rows, Roles
    <3>3. live' \in LiveStates
      BY <2>1, <2>2, <2>4 DEF LiveAppendAgent, LiveStates
    <3>4. log' = Append(log, row) /\ live'.id = live.id /\ live'.of = live.of
          /\ live.at # "idle" /\ live'.seq = NextSeq
      BY <2>2, <2>4 DEF LiveAppendAgent, LiveStates, of
    <3> QED BY <3>2, <3>3, <3>4
  <2> QED BY <2>3, <2>4
<1>2. /\ NextSeq \in 1..Len(log') /\ log' \in Seq(Rows) /\ SeqIsPlace'
      /\ \A i \in 1..Len(log) : i \in 1..Len(log') /\ log'[i] = log[i]
      /\ log'[NextSeq] = row
  BY <1>1, RowAppended
<1>3. UNCHANGED <<echoes, blocks, texts, agentVars, sync, bindVars, syncs, faults>>
  BY DEF LiveAppendUser, LiveAppendAgent, UnchangedByLive, agentVars
<1>4. TypeOK'
  BY <1>1, <1>2, <1>3 DEF TypeOK, agentVars, bindVars
<1>5. RefersToSaid'
  BY <1>1, <1>3 DEF RefersToSaid, Said, agentVars
<1>6. WritersRow'
  BY <1>1, <1>2, <1>3 DEF WritersRow
<1>7. BlocksNameTheirRow'
  BY <1>1, <1>3, BlocksKept
<1> QED BY <1>1, <1>2, <1>4, <1>5, <1>6, <1>7

LEMMA LiveBodies ==
  ASSUME LogInv, LiveUserBody \/ LiveAgentBody
  PROVE  LogInv'
<1> USE DEF LogInv, PlaceInv
<1>1. UNCHANGED <<echoes, log, texts, agentVars, sync, bindVars, syncs>>
  BY DEF LiveUserBody, LiveAgentBody, UnchangedByLive, agentVars
<1>2. /\ live' \in LiveStates /\ live'.at \in {"idle", "ready", "state"}
      /\ live'.at # "idle" => live'.of = live.of
  <2>1. CASE live' = NoTurn
    BY <2>1, NobodyTypes DEF NoTurn
  <2>2. ASSUME NEW at \in {"ready", "state"}, live' = [live EXCEPT !.at = at]
        PROVE  live' \in LiveStates /\ live'.at = at /\ live'.of = live.of
    BY <2>2 DEF TypeOK, LiveStates
  <2> QED BY <2>1, <2>2 DEF LiveUserBody, LiveAgentBody
<1>2a. faults' \in Nat
  <2>1. faults' = faults \/ faults' = faults + 1
    BY DEF LiveUserBody, LiveAgentBody
  <2> QED BY <2>1 DEF TypeOK
<1>3. live.at \in {"user body", "agent body"} /\ live.of \in Said
      /\ live.seq \in 1..Len(log) /\ log[live.seq].id = live.id
  BY DEF LiveUserBody, LiveAgentBody, WritersRow, RefersToSaid
<1>4. blocks' = blocks
      \/ \E b \in Blocks : /\ b.seq = live.seq /\ b.id = live.id
                           /\ blocks' = blocks \cup {b}
  <2>1. live.seq \in Nat /\ live.id \in Idents /\ live.of \in Nat
        /\ texts[live.of] \in Nat
    <3>1. live \in LiveStates /\ texts \in Seq(Nat)
      BY DEF TypeOK
    <3>2. texts[live.of] \in Nat
      BY <1>3, <3>1, ElementOfSeq DEF Said
    <3> QED BY <3>1, <3>2 DEF LiveStates
  <2>2. CASE LiveUserBody
    <3> DEFINE b == [seq |-> live.seq, id |-> live.id, role |-> "user",
                     text |-> texts[live.of]]
    <3>1. b \in Blocks /\ b.seq = live.seq /\ b.id = live.id
      BY <2>1 DEF Blocks, Roles
    <3>2. blocks' = blocks \/ blocks' = blocks \cup {b}
      BY <2>2 DEF LiveUserBody
    <3> QED BY <3>1, <3>2
  <2>3. CASE LiveAgentBody
    <3> DEFINE b == [seq |-> live.seq, id |-> live.id, role |-> "agent",
                     text |-> live.of]
    <3>1. b \in Blocks /\ b.seq = live.seq /\ b.id = live.id
      BY <2>1 DEF Blocks, Roles
    <3>2. blocks' = blocks \/ blocks' = blocks \cup {b}
      BY <2>3 DEF LiveAgentBody
    <3> QED BY <3>1, <3>2
  <2> QED BY <2>2, <2>3
<1>5. blocks' \subseteq Blocks
  BY <1>4 DEF TypeOK
<1>6. BlocksNameTheirRow'
  <2>1. CASE blocks' = blocks
    BY <1>1, <2>1 DEF BlocksNameTheirRow
  <2>2. CASE blocks' # blocks
    BY <1>1, <1>3, <1>4, <2>2, BlockAdded
  <2> QED BY <2>1, <2>2
<1>7. TypeOK'
  BY <1>1, <1>2, <1>5, <1>2a DEF TypeOK, agentVars, bindVars
<1>8. RefersToSaid'
  BY <1>1, <1>2, <1>3 DEF RefersToSaid, Said, agentVars
<1>9. SeqIsPlace' /\ WritersRow'
  BY <1>1, <1>2 DEF SeqIsPlace, WritersRow
<1> QED BY <1>6, <1>7, <1>8, <1>9

LEMMA LiveMoves ==
  ASSUME LogInv, LiveSend \/ LiveFails \/ LiveReturns \/ LiveState
  PROVE  LogInv'
<1> USE DEF LogInv, PlaceInv
<1>1. UNCHANGED <<echoes, log, blocks, texts, transcript, sync, syncs, faults>>
  BY DEF LiveSend, LiveFails, LiveReturns, LiveState, UnchangedByLive, agentVars
<1>2. /\ live' \in LiveStates /\ live'.at \in {"idle", "running", "returned"}
      /\ live'.at # "idle" => live.at # "idle" /\ live'.of = live.of
  <2>1. CASE live' = NoTurn
    BY <2>1, NobodyTypes DEF NoTurn
  <2>2. CASE LiveSend \/ LiveReturns
    BY <2>2 DEF LiveSend, LiveReturns, TypeOK, LiveStates
  <2> QED BY <2>1, <2>2 DEF LiveFails, LiveState
<1>3. /\ agent' \in AskStates
      /\ agent' = agent \/ (agent'.of = live.of /\ live.at # "idle")
  <2>1. CASE LiveSend
    BY <2>1 DEF LiveSend, TypeOK, LiveStates, AskStates
  <2> QED BY <2>1 DEF LiveFails, LiveReturns, LiveState, agentVars, UnchangedByLive,
                      TypeOK
<1>4. bound' \in BOOLEAN /\ ctx' \in Nat
  <2>1. CASE LiveState
    <3>1. live \in LiveStates
      BY DEF TypeOK
    <3>4. live.lines \in Nat
      BY <3>1 DEF LiveStates
    <3>3. live.lines + 2 \in Nat
      BY <3>4
    <3>2. bound' = TRUE
      BY <2>1 DEF LiveState
    <3> QED BY <2>1, <3>2, <3>3 DEF LiveState
  <2> QED BY <2>1 DEF LiveSend, LiveFails, LiveReturns, bindVars, TypeOK
<1>5. TypeOK'
  BY <1>1, <1>2, <1>3, <1>4 DEF TypeOK
<1>6. RefersToSaid'
  BY <1>1, <1>2, <1>3 DEF RefersToSaid, Said
<1>7. WritersRow'
  BY <1>1, <1>2 DEF WritersRow
<1> QED BY <1>1, <1>5, <1>6, <1>7, OnlyWritersMove

LEMMA LivePlaces == LogInv /\ LiveStep => LogInv'
  BY LiveBegins, LiveAppends, LiveBodies, LiveMoves DEF LiveStep

-----------------------------------------------------------------------------
(* The agent.                                                              *)
LEMMA TranscriptGrows ==
  ASSUME TypeOK, NEW s \in Seq(Entries), transcript' = transcript \o s
  PROVE  /\ transcript' \in Seq(Entries) /\ Len(transcript') = Len(transcript) + Len(s)
         /\ \A k \in 1..Len(transcript) :
              k \in 1..Len(transcript') /\ transcript'[k] = transcript[k]
         /\ \A k \in 1..Len(transcript') :
              k \in 1..Len(transcript)
              \/ \E j \in 1..Len(s) : transcript'[k] = s[j]
<1>1. transcript \in Seq(Entries)
  BY DEF TypeOK
<1>2. /\ transcript' \in Seq(Entries) /\ Len(transcript') = Len(transcript) + Len(s)
      /\ \A i \in 1..(Len(transcript) + Len(s)) :
           transcript'[i] = IF i <= Len(transcript) THEN transcript[i]
                                                    ELSE s[i - Len(transcript)]
  BY <1>1, ConcatProperties
<1>3. Len(transcript) \in Nat /\ Len(s) \in Nat
  BY <1>1, LenProperties
<1>4. ASSUME NEW k \in 1..Len(transcript'), k \notin 1..Len(transcript)
      PROVE  \E j \in 1..Len(s) : transcript'[k] = s[j]
  <2>1. k - Len(transcript) \in 1..Len(s)
    BY <1>2, <1>3, <1>4
  <2> QED BY <1>2, <1>3, <1>4, <2>1
<1> QED BY <1>2, <1>3, <1>4

(* An agent that hears, answers or stops writes at most one entry.         *)
LEMMA AgentMoves ==
  ASSUME LogInv, AgentHears \/ AgentAnswers \/ AgentStops
  PROVE  LogInv' /\ \E s \in Seq(Entries) : transcript' = transcript \o s
<1> USE DEF LogInv, PlaceInv
<1>1. UNCHANGED <<echoes, log, blocks, texts, sync, bindVars, syncs, faults>>
  BY DEF AgentHears, AgentAnswers, AgentStops, UnchangedByAgent
<1>2. /\ agent \in AskStates /\ live \in LiveStates /\ agent.of \in Nat
      /\ agent.id \in Idents /\ agent.of \in Said /\ transcript \in Seq(Entries)
  <2>1. agent \in AskStates /\ live \in LiveStates /\ transcript \in Seq(Entries)
    BY DEF TypeOK
  <2>2. agent.at # "idle"
    BY DEF AgentHears, AgentAnswers, AgentStops
  <2> QED BY <2>1, <2>2 DEF AskStates, RefersToSaid
<1>3. Id("user", agent.of) \in Idents /\ Id("agent", agent.of) \in Idents
  BY <1>2, IdTypes
<1>4. /\ agent' \in AskStates
      /\ agent'.of = agent.of \/ agent'.at = "idle"
  <2>1. CASE agent' = NoAsk
    BY <2>1, NobodyTypes DEF NoAsk
  <2>2. CASE agent' = [agent EXCEPT !.at = "heard"]
    BY <1>2, <2>2 DEF AskStates
  <2> QED BY <2>1, <2>2 DEF AgentHears, AgentAnswers, AgentStops
<1>5. live' \in LiveStates /\ live'.at = live.at /\ live'.of = live.of
      /\ live'.seq = live.seq /\ live'.id = live.id
  <2>1. CASE live' = live
    BY <1>2, <2>1
  <2>2. CASE live' = [live EXCEPT !.answer = Id("agent", agent.of)]
    BY <1>2, <1>3, <2>2 DEF LiveStates
  <2> QED BY <2>1, <2>2 DEF AgentHears, AgentAnswers, AgentStops
<1>6. PICK s \in Seq(Entries) : /\ transcript' = transcript \o s
                                /\ \A j \in 1..Len(s) : s[j].of = agent.of
  <2>1. ASSUME NEW e \in Entries, e.of = agent.of, transcript' = Append(transcript, e)
        PROVE  \E s \in Seq(Entries) : /\ transcript' = transcript \o s
                                       /\ \A j \in 1..Len(s) : s[j].of = agent.of
    <3> DEFINE t == <<e>>
    <3>1. t \in Seq(Entries) /\ Len(t) = 1 /\ t[1] = e
      OBVIOUS
    <3>2. transcript' = transcript \o t
      BY <1>2, <2>1, AppendIsConcat
    <3> HIDE DEF t
    <3> QED BY <2>1, <3>1, <3>2
  <2>2. CASE AgentHears
    <3> DEFINE id == IF echoes THEN agent.id ELSE Id("user", agent.of)
               e == [role |-> "user", of |-> agent.of, native |-> id]
    <3>1. id \in Idents
      BY <1>2, <1>3
    <3>2. transcript' = Append(transcript, e)
      BY <2>2 DEF AgentHears
    <3> HIDE DEF id
    <3>3. e \in Entries /\ e.of = agent.of
      BY <1>2, <3>1 DEF Entries, Roles
    <3> QED BY <2>1, <3>2, <3>3
  <2>3. CASE AgentAnswers
    <3> DEFINE e == [role |-> "agent", native |-> Id("agent", agent.of), of |-> agent.of]
    <3>1. e \in Entries /\ e.of = agent.of
      BY <1>2, <1>3 DEF Entries, Roles
    <3>2. transcript' = Append(transcript, e)
      BY <2>3 DEF AgentAnswers
    <3> QED BY <2>1, <3>1, <3>2
  <2>4. CASE AgentStops
    <3> DEFINE t == <<>>
    <3>1. t \in Seq(Entries) /\ Len(t) = 0 /\ transcript' = transcript
      BY <2>4 DEF AgentStops
    <3>2. transcript' = transcript \o t
      BY <1>2, <3>1, ConcatEmptySeq
    <3> HIDE DEF t
    <3>3. \A j \in 1..Len(t) : t[j].of = agent.of
      BY <3>1
    <3> QED BY <3>1, <3>2, <3>3
  <2> QED BY <2>2, <2>3, <2>4
<1>7. /\ transcript' \in Seq(Entries)
      /\ \A k \in 1..Len(transcript') : transcript'[k].of \in Said
  <2>1. \A k \in 1..Len(transcript) : transcript[k].of \in Said
    BY DEF RefersToSaid
  <2>2. transcript' = transcript \o s
    BY <1>6
  <2>3. /\ transcript' \in Seq(Entries)
        /\ \A k \in 1..Len(transcript) : transcript'[k] = transcript[k]
        /\ \A k \in 1..Len(transcript') :
             k \in 1..Len(transcript) \/ \E j \in 1..Len(s) : transcript'[k] = s[j]
    BY <2>2, TranscriptGrows
  <2> QED BY <1>2, <1>6, <2>1, <2>3
<1>8. TypeOK'
  BY <1>1, <1>4, <1>5, <1>7 DEF TypeOK, bindVars
<1>9. RefersToSaid'
  BY <1>1, <1>2, <1>4, <1>5, <1>7 DEF RefersToSaid, Said
<1>10. WritersRow'
  BY <1>1, <1>5 DEF WritersRow
<1>11. LogInv'
  BY <1>1, <1>8, <1>9, <1>10, OnlyWritersMove
<1> QED BY <1>6, <1>11

LEMMA ElsewhereMoves ==
  ASSUME LogInv, SpokenElsewhere
  PROVE  LogInv' /\ \E s \in Seq(Entries) : transcript' = transcript \o s
<1> USE DEF LogInv, PlaceInv
<1>1. UNCHANGED <<echoes, log, blocks, live, agent, sync, bindVars, syncs, faults>>
  BY DEF SpokenElsewhere, UnchangedByAgent
<1>2. transcript \in Seq(Entries) /\ Len(transcript) \in Nat
  BY DEF TypeOK
<1> DEFINE n == Len(texts) + 1
           q == [role |-> "user", native |-> Id("user", n), of |-> n]
           a == [role |-> "agent", native |-> Id("agent", n), of |-> n]
           s == <<q, a>>
<1>3. texts' = Append(texts, n)
  BY DEF SpokenElsewhere
<1>4. n \in Nat
  BY DEF TypeOK
<1>5. texts' \in Seq(Nat) /\ n \in Said' /\ \A t \in Said : t \in Said'
  BY <1>3, <1>4, SaidGrows
<1>6. transcript' = transcript \o s
  BY DEF SpokenElsewhere
<1>7. Id("user", n) \in Idents /\ Id("agent", n) \in Idents
  BY <1>4, IdTypes
<1> HIDE DEF n
<1>8. q \in Entries /\ a \in Entries /\ q.of = n /\ a.of = n
  BY <1>4, <1>7 DEF Entries, Roles
<1> HIDE DEF q, a
<1>9. s \in Seq(Entries) /\ Len(s) = 2 /\ \A j \in 1..2 : s[j].of = n
  BY <1>8
<1> HIDE DEF s
<1>10. /\ transcript' \in Seq(Entries)
       /\ \A k \in 1..Len(transcript') : transcript'[k].of \in Said'
  <2>1. \A k \in 1..Len(transcript) : transcript[k].of \in Said
    BY DEF RefersToSaid
  <2>2. /\ transcript' \in Seq(Entries)
        /\ \A k \in 1..Len(transcript) : transcript'[k] = transcript[k]
        /\ \A k \in 1..Len(transcript') :
             k \in 1..Len(transcript) \/ \E j \in 1..Len(s) : transcript'[k] = s[j]
    BY <1>6, <1>9, TranscriptGrows
  <2> QED BY <1>5, <1>9, <2>1, <2>2
<1>11. TypeOK'
  BY <1>1, <1>5, <1>10 DEF TypeOK, bindVars
<1>12. RefersToSaid'
  BY <1>1, <1>5, <1>10 DEF RefersToSaid
<1>13. WritersRow'
  BY <1>1 DEF WritersRow
<1>14. SeqIsPlace' /\ BlocksNameTheirRow'
  BY <1>1 DEF SeqIsPlace, BlocksNameTheirRow
<1> QED BY <1>6, <1>9, <1>11, <1>12, <1>13, <1>14

LEMMA AgentPlaces == LogInv /\ AgentStep => LogInv'
  BY AgentMoves, ElsewhereMoves DEF AgentStep

-----------------------------------------------------------------------------
(* The import.                                                             *)
LEMMA DeltaIsEnd ==
  ASSUME TypeOK
  PROVE  \E m \in 1..(Len(transcript) + 1) \cup {sync.ctx + 1} :
           /\ Delta = SubSeq(transcript, m, Len(transcript))
           /\ m # 1 => m = sync.ctx + 1 /\ ~SessionIsLiveOwned
<1>1. transcript \in Seq(Entries) /\ Len(transcript) \in Nat
  BY DEF TypeOK
<1>2. transcript = SubSeq(transcript, 1, Len(transcript))
  BY <1>1, SubSeqFull
<1>3. 1 \in 1..(Len(transcript) + 1)
  BY <1>1
<1> QED BY <1>2, <1>3 DEF Delta

LEMMA DeltaTypes ==
  ASSUME TypeOK, NEW m \in Nat \ {0}
  PROVE  LET d == SubSeq(transcript, m, Len(transcript))
         IN  /\ d \in Seq(Entries)
             /\ Len(d) = IF m <= Len(transcript) THEN Len(transcript) - m + 1 ELSE 0
             /\ \A j \in 1..Len(d) : d[j] = transcript[m + j - 1]
                                     /\ m + j - 1 \in 1..Len(transcript)
<1>1. transcript \in Seq(Entries) /\ Len(transcript) \in Nat
  BY DEF TypeOK
<1>2. \A i \in m..Len(transcript) : transcript[i] \in Entries
  BY <1>1, ElementOfSeq
<1> DEFINE n == Len(transcript)
           d == SubSeq(transcript, m, n)
<1>3. /\ d \in Seq(Entries)
      /\ Len(d) = IF m <= n THEN n - m + 1 ELSE 0
      /\ \A j \in 1..(n - m + 1) : d[j] = transcript[m + j - 1]
  BY <1>1, <1>2, SubSeqProperties
<1> HIDE DEF d
<1>4. \A j \in 1..Len(d) : j \in 1..(n - m + 1) /\ m + j - 1 \in 1..n
  BY <1>1, <1>3
<1> QED BY <1>3, <1>4 DEF d

(* The first of the messages that are left.                                *)
LEMMA HeadTypes ==
  ASSUME TypeOK, RefersToSaid, sync.items # <<>>
  PROVE  /\ Head(sync.items) \in Entries /\ Head(sync.items) = sync.items[1]
         /\ Head(sync.items).of \in Said
         /\ Tail(sync.items) \in Seq(Entries)
         /\ Len(Tail(sync.items)) = Len(sync.items) - 1 /\ Len(sync.items) \in Nat \ {0}
         /\ \A k \in 1..Len(Tail(sync.items)) :
              /\ Tail(sync.items)[k] = sync.items[k + 1]
              /\ k + 1 \in 1..Len(sync.items)
<1>1. sync.items \in Seq(Entries)
  BY DEF TypeOK, SyncStates
<1>2. /\ Head(sync.items) \in Entries /\ Tail(sync.items) \in Seq(Entries)
      /\ Len(Tail(sync.items)) = Len(sync.items) - 1
      /\ \A k \in 1..Len(Tail(sync.items)) : Tail(sync.items)[k] = sync.items[k + 1]
  BY <1>1, HeadTailProperties
<1>3. Len(sync.items) \in Nat \ {0} /\ 1 \in 1..Len(sync.items)
      /\ Head(sync.items) = sync.items[1]
  BY <1>1
<1>4. Head(sync.items).of \in Said
  BY <1>3 DEF RefersToSaid
<1>5. \A k \in 1..Len(Tail(sync.items)) : k + 1 \in 1..Len(sync.items)
  BY <1>2, <1>3
<1> QED BY <1>2, <1>3, <1>4, <1>5

(* Steps that only move the import.                                        *)
LEMMA SyncMoves ==
  ASSUME LogInv,
         \/ \E full \in BOOLEAN : SyncStart(full)
         \/ SyncImport \/ SyncFails \/ SyncSkip \/ SyncMisses \/ SyncChecked
         \/ SyncFinish
  PROVE  LogInv' /\ UNCHANGED <<echoes, log, blocks, texts, live, agent, transcript>>
<1> USE DEF LogInv, PlaceInv
<1>1. UNCHANGED <<echoes, log, blocks, texts, live, agent, transcript, faults>>
  BY DEF SyncStart, SyncImport, SyncFails, SyncSkip, SyncMisses, SyncChecked,
         SyncFinish, UnchangedBySync, agentVars
<1>2. /\ sync' \in SyncStates /\ sync'.at # "body"
      /\ sync'.at = "append" => sync'.items # <<>>
      /\ \A k \in 1..Len(sync'.items) : sync'.items[k].of \in Said
  <2>1. sync \in SyncStates /\ ctx \in Nat /\ Len(transcript) \in Nat
        /\ \A k \in 1..Len(sync.items) : sync.items[k].of \in Said
    BY DEF TypeOK, RefersToSaid
  <2>2. NoSync.items = <<>> /\ NoSync.at = "idle"
    BY DEF NoSync
  <2>3. CASE sync' = NoSync
    BY <2>2, <2>3, NobodyTypes
  <2>4. ASSUME NEW full \in BOOLEAN, SyncStart(full)
        PROVE  /\ sync' \in SyncStates /\ sync'.at = "import" /\ sync'.items = <<>>
    BY <2>1, <2>2, <2>4, NobodyTypes DEF SyncStart, SyncStates
  <2>5. CASE SyncImport
    <3>1. PICK m \in Nat \ {0} : Delta = SubSeq(transcript, m, Len(transcript))
      <4>1. sync.ctx + 1 \in Nat \ {0}
        BY <2>1 DEF SyncStates
      <4>2. \A m \in 1..(Len(transcript) + 1) : m \in Nat \ {0}
        BY <2>1
      <4> QED BY <4>1, <4>2, DeltaIsEnd
    <3>2. Delta \in Seq(Entries)
          /\ \A k \in 1..Len(Delta) : \E j \in 1..Len(transcript) : Delta[k] = transcript[j]
      BY <3>1, DeltaTypes
    <3>3. \A k \in 1..Len(Delta) : Delta[k].of \in Said
      BY <3>2 DEF RefersToSaid
    <3> HIDE DEF Delta
    <3>4. sync' \in SyncStates /\ sync'.at = "check" /\ sync'.items = Delta
      BY <2>1, <2>5, <3>2 DEF SyncImport, SyncStates
    <3> QED BY <3>3, <3>4
  <2>6. CASE SyncSkip
    <3>1. sync.items # <<>>
      BY <2>6 DEF SyncSkip
    <3>2. sync' \in SyncStates /\ sync'.at = "check" /\ sync'.items = Tail(sync.items)
      BY <2>1, <2>6, <3>1, HeadTypes DEF SyncSkip, SyncStates
    <3> QED BY <2>1, <3>1, <3>2, HeadTypes
  <2>7. CASE SyncMisses
    BY <2>1, <2>7 DEF SyncMisses, SyncStates
  <2>8. CASE SyncChecked
    BY <2>1, <2>8 DEF SyncChecked, SyncStates
  <2>9. sync'.items = <<>> => \A k \in 1..Len(sync'.items) : sync'.items[k].of \in Said
    OBVIOUS
  <2> QED BY <2>3, <2>4, <2>5, <2>6, <2>7, <2>8, <2>9 DEF SyncFails, SyncFinish
<1>3. bound' \in BOOLEAN /\ ctx' \in Nat /\ syncs' \in Nat
  <2>1. CASE SyncFinish
    <3>1. Len(log) \in Nat
      BY DEF TypeOK
    <3>2. bound' = TRUE /\ syncs' = syncs /\ ctx' = Len(log)
      BY <2>1 DEF SyncFinish
    <3> QED BY <3>1, <3>2 DEF TypeOK
  <2>2. CASE \E full \in BOOLEAN : SyncStart(full)
    <3>1. syncs' = syncs + 1 /\ UNCHANGED bindVars
      BY <2>2 DEF SyncStart
    <3> QED BY <3>1 DEF bindVars, TypeOK
  <2> QED BY <2>1, <2>2
          DEF SyncImport, SyncFails, SyncSkip, SyncMisses, SyncChecked, bindVars, TypeOK
<1>4. TypeOK'
  BY <1>1, <1>2, <1>3 DEF TypeOK
<1>5. RefersToSaid'
  BY <1>1, <1>2 DEF RefersToSaid, Said
<1>6. WritersRow'
  BY <1>1, <1>2 DEF WritersRow
<1> QED BY <1>1, <1>4, <1>5, <1>6, OnlyWritersMove

LEMMA SyncAppends ==
  ASSUME LogInv, SyncAppend
  PROVE  /\ LogInv'
         /\ \E row \in Rows : /\ row.seq = NextSeq /\ log' = Append(log, row)
                             /\ row = Imported(NextSeq, Head(sync.items))
<1> USE DEF LogInv, PlaceInv
<1> DEFINE e == Head(sync.items)
           row == Imported(NextSeq, e)
<1>1. UNCHANGED <<echoes, blocks, texts, live, agent, transcript, bindVars, syncs, faults>>
  BY DEF SyncAppend, UnchangedBySync, agentVars
<1>2. e \in Entries
  BY HeadTypes DEF SyncAppend, WritersRow
<1>3. NextSeq = Len(log) + 1 /\ Len(log) \in Nat
  <2>1. log \in Seq(Rows) /\ Len(log) \in Nat
    BY DEF TypeOK
  <2>2. log = <<>> \/ Len(log) \in 1..Len(log)
    BY <2>1
  <2>3. log = <<>> \/ log[Len(log)].seq = Len(log)
    BY <2>2 DEF SeqIsPlace
  <2> QED BY <2>1, <2>3 DEF NextSeq, MaxExchangeSeq
<1>4. row \in Rows /\ row.seq = NextSeq
  BY <1>2, <1>3, ImportedRow
<1>5. log' = Append(log, row)
  BY DEF SyncAppend
<1>5a. \E r \in Rows : r.seq = NextSeq /\ log' = Append(log, r) /\ r = Imported(NextSeq, e)
  BY <1>4, <1>5
<1> HIDE DEF row
<1>6. /\ NextSeq \in 1..Len(log') /\ log' \in Seq(Rows) /\ SeqIsPlace'
      /\ \A i \in 1..Len(log) : i \in 1..Len(log') /\ log'[i] = log[i]
  BY <1>4, <1>5, RowAppended
<1>7. sync' \in SyncStates /\ sync'.own = NextSeq /\ sync'.at = "body"
      /\ sync'.items = sync.items
  <2>1. sync \in SyncStates /\ NextSeq \in Nat
    BY <1>3 DEF TypeOK
  <2> QED BY <2>1 DEF SyncAppend, SyncStates
<1>8. TypeOK'
  BY <1>1, <1>6, <1>7 DEF TypeOK, bindVars
<1>9. RefersToSaid'
  BY <1>1, <1>7 DEF RefersToSaid, Said
<1>10. WritersRow'
  BY <1>1, <1>6, <1>7 DEF WritersRow, SyncAppend
<1>11. BlocksNameTheirRow'
  BY <1>1, <1>4, <1>5, BlocksKept
<1> QED BY <1>5a, <1>6, <1>8, <1>9, <1>10, <1>11

LEMMA SyncBodies ==
  ASSUME LogInv, SyncBody
  PROVE  LogInv'
<1> USE DEF LogInv, PlaceInv
<1> DEFINE e == Head(sync.items)
<1>1. UNCHANGED <<echoes, log, texts, live, agent, transcript, bindVars, syncs>>
  BY DEF SyncBody, UnchangedBySync, agentVars
<1>2. sync.items # <<>> /\ sync.own \in 1..Len(log)
  BY DEF SyncBody, WritersRow
<1>3. e \in Entries /\ e.of \in Said
  BY <1>2, HeadTypes
<1>4. MaxExchangeSeq(log) = Len(log) /\ Len(log) \in Nat /\ log \in Seq(Rows)
  <2>1. log \in Seq(Rows) /\ Len(log) \in 1..Len(log)
    BY <1>2 DEF TypeOK
  <2> QED BY <2>1 DEF MaxExchangeSeq, SeqIsPlace
<1>5. blocks' = blocks
      \/ \E b \in Blocks : /\ b.seq \in 1..Len(log) /\ log[b.seq].id = b.id
                           /\ blocks' = blocks \cup {b}
  <2>1. ASSUME NEW seq \in sync.own..MaxExchangeSeq(log)
        PROVE  /\ BlockFor(seq, e) \in Blocks
               /\ BlockFor(seq, e).seq = seq /\ BlockFor(seq, e).id = log[seq].id
               /\ seq \in 1..Len(log)
    <3>1. seq \in 1..Len(log) /\ seq \in Nat
      BY <1>2, <1>4
    <3>2. RowAt(seq) = seq
      BY <3>1 DEF RowAt, SeqIsPlace
    <3>3. log[seq].id \in Idents
      <4>1. log[seq] \in Rows
        BY <1>4, <3>1, ElementOfSeq
      <4> QED BY <4>1 DEF Rows
    <3> DEFINE text == IF e.role = "user" THEN texts[e.of] ELSE e.of
    <3>4. text \in Nat
      <4>1. texts \in Seq(Nat) /\ e.of \in 1..Len(texts) /\ e.of \in Nat
        BY <1>3 DEF TypeOK, Said, Entries
      <4>2. texts[e.of] \in Nat
        BY <4>1, ElementOfSeq
      <4> QED BY <4>1, <4>2
    <3>5. e.role \in Roles
      BY <1>3 DEF Entries
    <3>6. BlockFor(seq, e) = [seq |-> seq, id |-> log[seq].id, role |-> e.role,
                              text |-> text]
      BY <3>2 DEF BlockFor
    <3> HIDE DEF text, e
    <3> QED BY <3>1, <3>3, <3>4, <3>5, <3>6 DEF Blocks
  <2>2. blocks' = blocks
        \/ \E seq \in sync.own..MaxExchangeSeq(log) : blocks' = blocks \cup {BlockFor(seq, e)}
    BY DEF SyncBody
  <2> HIDE DEF e
  <2> QED BY <2>1, <2>2
<1>6. blocks' \subseteq Blocks
  BY <1>5 DEF TypeOK
<1>7. BlocksNameTheirRow'
  <2>1. CASE blocks' = blocks
    BY <1>1, <2>1 DEF BlocksNameTheirRow
  <2>2. CASE blocks' # blocks
    BY <1>1, <1>5, <2>2, BlockAdded
  <2> QED BY <2>1, <2>2
<1>8. faults' \in Nat
  <2>1. faults' = faults \/ faults' = faults + 1
    BY DEF SyncBody
  <2> QED BY <2>1 DEF TypeOK
<1>9. sync' \in SyncStates /\ sync'.at = "check" /\ sync'.items = Tail(sync.items)
  <2>1. sync \in SyncStates /\ Tail(sync.items) \in Seq(Entries)
    BY <1>2, HeadTypes DEF TypeOK
  <2> QED BY <2>1 DEF SyncBody, SyncStates
<1>10. TypeOK'
  BY <1>1, <1>6, <1>8, <1>9 DEF TypeOK, bindVars
<1>11. RefersToSaid'
  <2>1. \A k \in 1..Len(sync'.items) : sync'.items[k].of \in Said
    BY <1>2, <1>9, HeadTypes DEF RefersToSaid
  <2> QED BY <1>1, <2>1 DEF RefersToSaid, Said
<1>12. WritersRow' /\ SeqIsPlace'
  BY <1>1, <1>9 DEF WritersRow, SeqIsPlace
<1> QED BY <1>7, <1>10, <1>11, <1>12

LEMMA SyncPlaces == LogInv /\ SyncStep => LogInv'
  BY SyncMoves, SyncAppends, SyncBodies DEF SyncStep

LEMMA CrashPlaces ==
  ASSUME LogInv, Crash
  PROVE  LogInv'
<1> USE DEF LogInv, PlaceInv
<1>1. UNCHANGED <<echoes, log, blocks, texts, bindVars, syncs>>
      /\ live' = NoTurn /\ sync' = NoSync /\ faults' = faults + 1
  BY DEF Crash
<1>2. \/ UNCHANGED <<agent, transcript>>
      \/ agent' = NoAsk /\ transcript' = <<>>
  BY DEF Crash, agentVars
<1>3. TypeOK'
  <2>1. faults' \in Nat
    BY <1>1 DEF TypeOK
  <2>2. agent' \in AskStates /\ transcript' \in Seq(Entries)
    <3>1. agent \in AskStates /\ transcript \in Seq(Entries)
      BY DEF TypeOK
    <3>2. <<>> \in Seq(Entries)
      OBVIOUS
    <3> QED BY <1>2, <3>1, <3>2, NobodyTypes
  <2> QED BY <1>1, <2>1, <2>2, NobodyTypes DEF TypeOK, bindVars
<1>4. NoTurn.at = "idle" /\ NoSync.at = "idle" /\ NoSync.items = <<>>
  BY DEF NoTurn, NoSync
<1>5. RefersToSaid'
  <2>1. NoAsk.at = "idle"
    BY DEF NoAsk
  <2> QED BY <1>1, <1>2, <1>4, <2>1 DEF RefersToSaid, Said
<1>6. WritersRow'
  BY <1>1, <1>4 DEF WritersRow
<1> QED BY <1>1, <1>3, <1>5, <1>6, OnlyWritersMove

LEMMA StutterPlaces == LogInv /\ UNCHANGED vars => LogInv'
<1> SUFFICES ASSUME LogInv, UNCHANGED vars PROVE LogInv'
  OBVIOUS
<1>1. TypeOK' /\ RefersToSaid' /\ WritersRow'
  BY DEF LogInv, PlaceInv, vars, TypeOK, RefersToSaid, Said, WritersRow
<1> QED BY <1>1, OnlyWritersMove DEF vars

(* Whatever turns, the agent, imports and crashes do in any order, the log *)
(* has no holes, references are good and blocks name their row.            *)
THEOREM PlacesCorrect == Spec => []LogInv
<1>1. LogInv /\ [Next]_vars => LogInv'
  BY LivePlaces, AgentPlaces, SyncPlaces, CrashPlaces, StutterPlaces DEF Next
<1> QED BY <1>1, PlaceInit, PTL DEF Spec

(* The variables of the store keep their types, for every bound.           *)
THEOREM LogTypeCorrect == Spec => []TypeOK
<1>1. LogInv => TypeOK
  BY DEF LogInv, PlaceInv
<1> QED BY <1>1, PlacesCorrect, PTL

(* A block has the seq and the identity of exactly one row, although the   *)
(* import reads the seq after others may have appended.                    *)
THEOREM BlocksCorrect == Spec => []BlocksNameTheirRow
<1>1. LogInv => BlocksNameTheirRow
  BY DEF LogInv
<1> QED BY <1>1, PlacesCorrect, PTL

-----------------------------------------------------------------------------
(* The messages an import has read and not yet dealt with are the last it  *)
(* has read.                                                               *)
Reads == sync.at \in {"check", "append", "body", "finish"}
Done == sync.read - Len(sync.items)

Window ==
  Reads =>
    /\ sync.read <= Len(transcript) /\ Len(sync.items) <= sync.read
    /\ \A j \in 1..Len(sync.items) : sync.items[j] = transcript[Done + j]
    /\ sync.at = "finish" => sync.items = <<>>

RecordedIn(rows, e) == \E i \in 1..Len(rows) : Carries(rows[i], e)
Recorded(e) == RecordedIn(log, e)

(* What it has dealt with is recorded.                                     *)
DoneIsRecorded ==
  Reads => /\ \A k \in 1..Done : Recorded(transcript[k])
           /\ sync.at = "body" => Recorded(Head(sync.items))

(* While no turn has written a row, the rows are not more than the         *)
(* messages up to the last recorded one: a full sync may begin after ctx.  *)
RowsLineUp ==
  ~SessionIsLiveOwned =>
    /\ Len(log) <= Len(transcript)
    /\ \A k \in 1..Len(log) : Recorded(transcript[k])
    /\ ctx <= Len(log)
    /\ sync.at # "idle" => sync.ctx <= Len(log)
    /\ sync.at = "append" => ~Recorded(Head(sync.items))

(* Only a turn that has written a row sets ctx.                            *)
WriterOwns == live.at \in {"agent body", "state"} => SessionIsLiveOwned

ReadInv == LogInv /\ Window /\ DoneIsRecorded /\ RowsLineUp /\ WriterOwns

(* Before the session is bound to an agent only turns have written rows,   *)
(* and nobody imports: a crash then takes nothing from under an import.    *)
Unbound == ~bound => /\ sync.at = "idle"
                     /\ log # <<>> => SessionIsLiveOwned

-----------------------------------------------------------------------------
(* A row takes nothing away: what was recorded stays recorded, and a       *)
(* session that a turn has written to stays one.                           *)
LEMMA StaysRecorded ==
  ASSUME LogInv, NEW row \in Rows, row.seq = NextSeq, log' = Append(log, row)
  PROVE  /\ \A e : RecordedIn(log, e) => RecordedIn(log', e)
         /\ SessionIsLiveOwned \/ row.source = "live" => SessionIsLiveOwned'
         /\ ~SessionIsLiveOwned' => ~SessionIsLiveOwned
<1>1. /\ \A i \in 1..Len(log) : i \in 1..Len(log') /\ log'[i] = log[i]
      /\ NextSeq \in 1..Len(log') /\ log'[NextSeq] = row
  BY RowAppended DEF LogInv, PlaceInv
<1>2. \A e : RecordedIn(log, e) => RecordedIn(log', e)
  BY <1>1 DEF RecordedIn
<1>3. SessionIsLiveOwned \/ row.source = "live" => SessionIsLiveOwned'
  BY <1>1 DEF SessionIsLiveOwned
<1> QED BY <1>2, <1>3

LEMMA LogTypes ==
  ASSUME LogInv
  PROVE  /\ log \in Seq(Rows) /\ Len(log) \in Nat
         /\ transcript \in Seq(Entries) /\ Len(transcript) \in Nat
         /\ sync \in SyncStates /\ sync.items \in Seq(Entries) /\ Len(sync.items) \in Nat
         /\ sync.read \in Nat /\ sync.ctx \in Nat /\ ctx \in Nat
  BY LenProperties DEF LogInv, PlaceInv, TypeOK, SyncStates

LEMMA ReadInit == Init => ReadInv
<1> SUFFICES ASSUME Init PROVE ReadInv
  OBVIOUS
<1>1. LogInv
  BY PlaceInit
<1>2. sync.at = "idle" /\ live.at = "idle"
  BY DEF Init, NoSync, NoTurn
<1>3. RowsLineUp
  <2>1. CASE InitNew
    <3>1. Len(log) = 0 /\ ctx = 0 /\ Len(transcript) = 0
      BY <2>1 DEF InitNew
    <3> QED BY <1>2, <3>1 DEF RowsLineUp
  <2>2. CASE InitImported
    <3>1. Len(log) = 2 /\ Len(transcript) = 2 /\ ctx = 2
          /\ log[1] = Imported(1, Question) /\ log[2] = Imported(2, Answer)
          /\ transcript[1] = Question /\ transcript[2] = Answer
      BY <2>2 DEF InitImported
    <3>2. Carries(log[1], transcript[1]) /\ Carries(log[2], transcript[2])
      BY <3>1 DEF Carries, Imported, Row
    <3>3. \A k \in 1..2 : Recorded(transcript[k])
      BY <3>1, <3>2 DEF Recorded, RecordedIn
    <3> QED BY <1>2, <3>1, <3>3 DEF RowsLineUp
  <2> QED BY <2>1, <2>2 DEF Init
<1> QED BY <1>1, <1>2, <1>3 DEF ReadInv, Window, DoneIsRecorded, WriterOwns, Reads

(* A live turn only adds rows: what an import has read stays recorded, and *)
(* the session is the turn's from its first row on.                        *)
LEMMA LiveReads ==
  ASSUME ReadInv, LiveStep
  PROVE  ReadInv'
<1> USE DEF ReadInv
<1>1. LogInv'
  BY LivePlaces
<1>2. UNCHANGED <<transcript, sync>>
  <2>1. ASSUME NEW text, NEW i, LiveBegin(text) \/ LiveBeginRecorded(text, i)
        PROVE  UNCHANGED <<transcript, sync>>
    BY <2>1 DEF LiveBegin, LiveBeginRecorded, UnchangedByLive
  <2> QED BY <2>1 DEF LiveStep, LiveBegin, LiveAppendUser, LiveUserBody, LiveSend,
                      LiveFails, LiveReturns, LiveAppendAgent, LiveAgentBody, LiveState,
                      UnchangedByLive
<1>3. Window'
  BY <1>2 DEF Window, Reads, Done
<1>4. CASE LiveAppendUser \/ LiveAppendAgent
  <2>1. PICK row \in Rows : /\ row.source = "live" /\ row.seq = NextSeq
                            /\ log' = Append(log, row)
    BY <1>4, LiveAppends
  <2>2. /\ \A e : RecordedIn(log, e) => RecordedIn(log', e)
        /\ SessionIsLiveOwned'
    BY <2>1, StaysRecorded
  <2>3. DoneIsRecorded'
    BY <1>2, <2>2 DEF DoneIsRecorded, Recorded, Reads, Done
  <2> QED BY <1>1, <1>3, <2>2, <2>3 DEF RowsLineUp, WriterOwns
<1>5. CASE ~(LiveAppendUser \/ LiveAppendAgent)
  <2>1. /\ log' = log
        /\ ctx' = ctx \/ live.at = "state"
        /\ live'.at \in {"agent body", "state"} => live.at \in {"agent body", "state"}
    <3>1. live \in LiveStates
      BY DEF LogInv, PlaceInv, TypeOK
    <3>2. NoTurn.at = "idle"
      BY DEF NoTurn
    <3>3. ASSUME NEW text, NEW i, LiveBegin(text) \/ LiveBeginRecorded(text, i)
          PROVE  log' = log /\ ctx' = ctx /\ live'.at \in {"new", "ready"}
      BY <3>3 DEF LiveBegin, LiveBeginRecorded, bindVars, NoTurn
    <3>4. CASE LiveUserBody \/ LiveSend \/ LiveFails \/ LiveReturns
      BY <3>1, <3>2, <3>4 DEF LiveUserBody, LiveSend, LiveFails, LiveReturns, bindVars,
                              LiveStates
    <3>5. CASE LiveAgentBody \/ LiveState
      BY <3>1, <3>2, <3>5 DEF LiveAgentBody, LiveState, bindVars, LiveStates
    <3> QED BY <1>5, <3>3, <3>4, <3>5 DEF LiveStep
  <2>2. SessionIsLiveOwned' = SessionIsLiveOwned
    BY <2>1 DEF SessionIsLiveOwned
  <2>3. DoneIsRecorded'
    BY <1>2, <2>1 DEF DoneIsRecorded, Recorded, Reads, Done
  <2>4. RowsLineUp'
    BY <1>2, <2>1, <2>2 DEF RowsLineUp, Recorded, WriterOwns
  <2>5. WriterOwns'
    BY <2>1, <2>2 DEF WriterOwns
  <2> QED BY <1>1, <1>3, <2>3, <2>4, <2>5
<1> QED BY <1>4, <1>5

(* The transcript only grows.                                              *)
LEMMA AgentReads ==
  ASSUME ReadInv, AgentStep
  PROVE  ReadInv'
<1> USE DEF ReadInv
<1>1. LogInv' /\ \E s \in Seq(Entries) : transcript' = transcript \o s
  BY AgentMoves, ElsewhereMoves DEF AgentStep
<1>2. /\ Len(transcript') >= Len(transcript) /\ Len(transcript') \in Nat
      /\ \A k \in 1..Len(transcript) : transcript'[k] = transcript[k]
  <2>1. PICK s \in Seq(Entries) : transcript' = transcript \o s
    BY <1>1
  <2>2. Len(s) \in Nat /\ Len(transcript) \in Nat
    BY LogTypes
  <2>3. /\ Len(transcript') = Len(transcript) + Len(s)
        /\ \A k \in 1..Len(transcript) : transcript'[k] = transcript[k]
    BY <2>1, TranscriptGrows DEF LogInv, PlaceInv
  <2> QED BY <2>2, <2>3
<1>3. UNCHANGED <<log, sync, ctx>> /\ live'.at = live.at
  <2>1. live \in LiveStates
    BY DEF LogInv, PlaceInv, TypeOK
  <2> QED BY <2>1 DEF AgentStep, AgentHears, AgentAnswers, AgentStops, SpokenElsewhere,
                      UnchangedByAgent, bindVars, LiveStates
<1>4. Window'
  <2> SUFFICES ASSUME Reads PROVE Window'
    BY <1>3 DEF Window, Reads
  <2>1. /\ sync.read <= Len(transcript) /\ Len(sync.items) <= sync.read
        /\ \A j \in 1..Len(sync.items) : sync.items[j] = transcript[Done + j]
        /\ sync.at = "finish" => sync.items = <<>>
    BY DEF Window
  <2>2. \A j \in 1..Len(sync.items) : Done + j \in 1..Len(transcript)
    <3>1. sync.read \in Nat /\ Len(sync.items) \in Nat /\ Len(transcript) \in Nat
      BY LogTypes
    <3> QED BY ONLY <2>1, <3>1 DEF Done
  <2>3. \A j \in 1..Len(sync.items) : sync.items[j] = transcript'[Done + j]
    BY <1>2, <2>1, <2>2
  <2>4. sync.read <= Len(transcript')
    BY <1>2, <2>1, LogTypes
  <2> QED BY <1>3, <2>1, <2>3, <2>4 DEF Window, Done
<1>5. DoneIsRecorded'
  <2>1. ASSUME Reads, NEW k \in 1..Done
        PROVE  k \in 1..Len(transcript)
    BY <2>1, LogTypes DEF Window, Done
  <2> QED BY <1>2, <1>3, <2>1 DEF DoneIsRecorded, Recorded, Reads, Done
<1>6. SessionIsLiveOwned' = SessionIsLiveOwned
  BY <1>3 DEF SessionIsLiveOwned
<1>7. RowsLineUp'
  BY <1>2, <1>3, <1>6, LogTypes DEF RowsLineUp, Recorded
<1>8. WriterOwns'
  BY <1>3, <1>6 DEF WriterOwns
<1> QED BY <1>1, <1>4, <1>5, <1>7, <1>8

-----------------------------------------------------------------------------
(* The import.                                                             *)
LEMMA DoneTypes ==
  ASSUME ReadInv, Reads
  PROVE  /\ Done \in Nat /\ Done + Len(sync.items) = sync.read
         /\ \A j \in 1..Len(sync.items) : sync.items[j] = transcript[Done + j]
         /\ \A k \in 1..Done : Recorded(transcript[k])
         /\ sync.read <= Len(transcript)
  BY LogTypes DEF ReadInv, Window, DoneIsRecorded, Done

(* The step in which the import reads the transcript: what it leaves out   *)
(* is recorded.                                                            *)
LEMMA ImportReads ==
  ASSUME ReadInv, SyncImport
  PROVE  ReadInv'
<1> USE DEF ReadInv
<1>1. LogInv' /\ UNCHANGED <<log, live, transcript, ctx>>
  BY SyncMoves DEF SyncImport, bindVars
<1>2. sync' = [sync EXCEPT !.at = "check", !.read = Len(transcript), !.items = Delta]
  BY DEF SyncImport
<1>3. PICK m \in 1..(Len(transcript) + 1) :
        /\ Delta = SubSeq(transcript, m, Len(transcript))
        /\ m # 1 => m = sync.ctx + 1 /\ ~SessionIsLiveOwned
  <2>1. PICK m \in 1..(Len(transcript) + 1) \cup {sync.ctx + 1} :
          /\ Delta = SubSeq(transcript, m, Len(transcript))
          /\ m # 1 => m = sync.ctx + 1 /\ ~SessionIsLiveOwned
    BY DeltaIsEnd DEF LogInv, PlaceInv
  <2>2. m # 1 => sync.ctx <= Len(log) /\ Len(log) <= Len(transcript)
    BY <2>1 DEF RowsLineUp, SyncImport
  <2>3. m \in 1..(Len(transcript) + 1)
    BY <2>1, <2>2, LogTypes
  <2> QED BY <2>1, <2>3
<1>4. m \in Nat \ {0} /\ m <= Len(transcript) + 1
  BY LogTypes
<1>5. /\ Delta \in Seq(Entries) /\ Len(Delta) = Len(transcript) - m + 1
      /\ \A j \in 1..Len(Delta) : Delta[j] = transcript[m + j - 1]
  <2>1. /\ Delta \in Seq(Entries)
        /\ Len(Delta) = IF m <= Len(transcript) THEN Len(transcript) - m + 1 ELSE 0
        /\ \A j \in 1..Len(Delta) : Delta[j] = transcript[m + j - 1]
    BY <1>3, <1>4, DeltaTypes DEF LogInv, PlaceInv
  <2> QED BY <1>4, <2>1, LogTypes
<1> HIDE DEF Delta
<1>6. sync'.at = "check" /\ sync'.read = Len(transcript) /\ sync'.items = Delta
      /\ sync'.ctx = sync.ctx
  BY <1>2, LogTypes DEF SyncStates
<1>7. Done' = m - 1
  BY <1>4, <1>5, <1>6, LogTypes DEF Done
<1>8. Window'
  <2>1. \A j \in 1..Len(Delta) : Delta[j] = transcript[(m - 1) + j]
    BY <1>4, <1>5, LogTypes
  <2>2. Len(Delta) <= Len(transcript)
    BY <1>4, <1>5, LogTypes
  <2> QED BY <1>1, <1>6, <1>7, <2>1, <2>2, LogTypes DEF Window
<1>9. DoneIsRecorded'
  <2>1. \A k \in 1..(m - 1) : Recorded(transcript[k])
    <3>1. CASE m = 1
      BY <3>1
    <3>2. CASE m # 1
      <4>1. /\ m - 1 = sync.ctx /\ sync.ctx <= Len(log)
            /\ \A k \in 1..Len(log) : Recorded(transcript[k])
        BY <1>3, <1>4, <3>2, LogTypes DEF RowsLineUp, SyncImport
      <4> QED BY <4>1, LogTypes
    <3> QED BY <3>1, <3>2
  <2> QED BY <1>1, <1>6, <1>7, <2>1 DEF DoneIsRecorded, Recorded
<1>10. SessionIsLiveOwned' = SessionIsLiveOwned
  BY <1>1 DEF SessionIsLiveOwned
<1>11. RowsLineUp' /\ WriterOwns'
  <2>1. sync.at # "idle"
    BY DEF SyncImport
  <2> QED BY <1>1, <1>6, <1>10, <2>1 DEF RowsLineUp, WriterOwns, Recorded
<1> QED BY <1>1, <1>8, <1>9, <1>11

(* The step that takes the first of the messages left as dealt with.       *)
LEMMA TailReads ==
  ASSUME ReadInv, Reads, sync.items # <<>>, Recorded(Head(sync.items)),
         sync'.at = "check", sync'.read = sync.read, sync'.items = Tail(sync.items),
         UNCHANGED <<log, transcript>>
  PROVE  Window' /\ DoneIsRecorded'
<1> USE DEF ReadInv
<1>1. /\ Done \in Nat /\ Done + Len(sync.items) = sync.read
      /\ \A j \in 1..Len(sync.items) : sync.items[j] = transcript[Done + j]
      /\ \A k \in 1..Done : Recorded(transcript[k])
      /\ sync.read <= Len(transcript)
  BY DoneTypes
<1> DEFINE t == Tail(sync.items)
<1>2. /\ Head(sync.items) = sync.items[1]
      /\ Len(t) = Len(sync.items) - 1 /\ Len(sync.items) \in Nat \ {0}
      /\ \A k \in 1..Len(t) : t[k] = sync.items[k + 1] /\ k + 1 \in 1..Len(sync.items)
  BY HeadTypes DEF LogInv, PlaceInv
<1> HIDE DEF t
<1>3. Done' = Done + 1
  BY <1>1, <1>2, LogTypes DEF Done, t
<1>4. \A j \in 1..Len(t) : t[j] = transcript[(Done + 1) + j]
  <2> SUFFICES ASSUME NEW j \in 1..Len(t) PROVE t[j] = transcript[(Done + 1) + j]
    OBVIOUS
  <2>1. t[j] = transcript[Done + (j + 1)]
    BY <1>1, <1>2
  <2>2. Done + (j + 1) = (Done + 1) + j
    BY <1>1
  <2> QED BY <2>1, <2>2
<1>5. Len(t) <= sync.read
  BY <1>1, <1>2, LogTypes
<1>6. Window'
  BY <1>1, <1>3, <1>4, <1>5 DEF Window, t
<1>7. Recorded(transcript[Done + 1])
  BY <1>1, <1>2
<1>8. \A k \in 1..(Done + 1) : Recorded(transcript[k])
  BY <1>1, <1>7
<1>9. DoneIsRecorded'
  BY <1>3, <1>8 DEF DoneIsRecorded, Recorded
<1> QED BY <1>6, <1>9

LEMMA SkipReads ==
  ASSUME ReadInv, SyncSkip
  PROVE  ReadInv'
<1> USE DEF ReadInv
<1>1. LogInv' /\ UNCHANGED <<log, live, transcript, ctx>>
  BY SyncMoves DEF SyncSkip, bindVars
<1>2. sync'.at = "check" /\ sync'.read = sync.read /\ sync'.items = Tail(sync.items)
      /\ sync'.ctx = sync.ctx
  BY LogTypes DEF SyncSkip, SyncStates
<1>3. Recorded(Head(sync.items))
  BY DEF SyncSkip, IdentityRecorded, Recorded, RecordedIn, Carries
<1>4. Window' /\ DoneIsRecorded'
  BY <1>1, <1>2, <1>3, TailReads DEF SyncSkip, Reads
<1>5. RowsLineUp' /\ WriterOwns'
  BY <1>1, <1>2 DEF RowsLineUp, WriterOwns, Recorded, SessionIsLiveOwned, SyncSkip
<1> QED BY <1>1, <1>4, <1>5

LEMMA MissesReads ==
  ASSUME ReadInv, SyncMisses
  PROVE  ReadInv'
<1> USE DEF ReadInv
<1>1. LogInv' /\ UNCHANGED <<log, live, transcript, ctx>>
  BY SyncMoves DEF SyncMisses, bindVars
<1>2. sync'.at = "append" /\ sync'.read = sync.read /\ sync'.items = sync.items
      /\ sync'.ctx = sync.ctx
  BY LogTypes DEF SyncMisses, SyncStates
<1>3. ~Recorded(Head(sync.items))
  BY DEF SyncMisses, IdentityRecorded, Recorded, RecordedIn, Carries
<1>4. Window' /\ DoneIsRecorded'
  BY <1>1, <1>2 DEF Window, DoneIsRecorded, Recorded, Reads, Done, SyncMisses
<1>5. RowsLineUp' /\ WriterOwns'
  BY <1>1, <1>2, <1>3 DEF RowsLineUp, WriterOwns, Recorded, SessionIsLiveOwned, SyncMisses
<1> QED BY <1>1, <1>4, <1>5

(* The row an import writes lines up with the transcript as long as it is  *)
(* the only writer: the message was not recorded, so the rows before it    *)
(* are fewer than the messages before it.                                  *)
LEMMA AppendReads ==
  ASSUME ReadInv, SyncAppend
  PROVE  ReadInv'
<1> USE DEF ReadInv
<1> DEFINE e == Head(sync.items)
<1>1. LogInv' /\ UNCHANGED <<live, transcript, ctx>>
  BY SyncAppends DEF SyncAppend, UnchangedBySync, agentVars, bindVars
<1>2. sync'.at = "body" /\ sync'.read = sync.read /\ sync'.items = sync.items
      /\ sync'.ctx = sync.ctx
  BY LogTypes DEF SyncAppend, SyncStates
<1>3. PICK row \in Rows : /\ row.seq = NextSeq /\ log' = Append(log, row)
                          /\ row = Imported(NextSeq, e)
  BY SyncAppends
<1>4. /\ \A x : RecordedIn(log, x) => RecordedIn(log', x)
      /\ ~SessionIsLiveOwned' => ~SessionIsLiveOwned
      /\ SessionIsLiveOwned => SessionIsLiveOwned'
  BY <1>3, StaysRecorded
<1>5. /\ NextSeq = Len(log) + 1 /\ Len(log') = Len(log) + 1
      /\ NextSeq \in 1..Len(log') /\ log'[NextSeq] = row
  BY <1>3, RowAppended DEF LogInv, PlaceInv
<1>6. sync.items # <<>> /\ Reads
  BY DEF LogInv, PlaceInv, WritersRow, SyncAppend, Reads
<1>7. e \in Entries /\ e = sync.items[1] /\ 1 \in 1..Len(sync.items)
  BY <1>6, HeadTypes DEF LogInv, PlaceInv
<1>8. RecordedIn(log', e)
  <2>1. NextSeq \in Nat
    BY <1>5, LogTypes
  <2>2. row.role = e.role /\ row.native = e.native
    BY <1>3, <1>7, <2>1, ImportedRow
  <2> QED BY <1>5, <2>2 DEF RecordedIn, Carries
<1> HIDE DEF e
<1>9. Window'
  BY <1>1, <1>2, <1>6 DEF Window, Reads, Done, SyncAppend
<1>10. DoneIsRecorded'
  <2>1. \A k \in 1..Done : RecordedIn(log', transcript[k])
    BY <1>4, <1>6 DEF DoneIsRecorded, Recorded
  <2>2. RecordedIn(log', Head(sync'.items))
    BY <1>2, <1>8 DEF e
  <2> QED BY <1>1, <1>2, <2>1, <2>2 DEF DoneIsRecorded, Recorded, Done
<1>11. RowsLineUp'
  <2> SUFFICES ASSUME ~SessionIsLiveOwned'
               PROVE  /\ Len(log') <= Len(transcript)
                      /\ \A k \in 1..Len(log') : RecordedIn(log', transcript[k])
                      /\ ctx <= Len(log') /\ sync.ctx <= Len(log')
    BY <1>1, <1>2 DEF RowsLineUp, Recorded
  <2>1. /\ Len(log) <= Len(transcript) /\ ctx <= Len(log) /\ sync.ctx <= Len(log)
        /\ \A k \in 1..Len(log) : Recorded(transcript[k])
        /\ ~Recorded(e)
    BY <1>4 DEF RowsLineUp, SyncAppend, e
  <2>2. /\ Done \in Nat /\ Done + Len(sync.items) = sync.read
        /\ e = transcript[Done + 1]
        /\ \A k \in 1..Done : Recorded(transcript[k])
        /\ sync.read <= Len(transcript)
    BY <1>6, <1>7, DoneTypes
  <2>3. Len(log) < Done + 1
    <3>1. Done + 1 \notin 1..Len(log)
      BY <2>1, <2>2
    <3> QED BY <2>2, <3>1, LogTypes
  <2>4. Len(log') <= Len(transcript)
    BY <1>5, <1>7, <2>2, <2>3, LogTypes
  <2>5. \A k \in 1..Len(log') : RecordedIn(log', transcript[k])
    <3> SUFFICES ASSUME NEW k \in 1..Len(log')
                 PROVE  RecordedIn(log', transcript[k])
      OBVIOUS
    <3>1. k \in 1..Done \/ k = Done + 1
      BY <1>5, <2>2, <2>3, LogTypes
    <3>2. CASE k \in 1..Done
      BY <1>4, <2>2, <3>2 DEF Recorded
    <3>3. CASE k = Done + 1
      BY <1>8, <2>2, <3>3
    <3> QED BY <3>1, <3>2, <3>3
  <2> QED BY <1>5, <2>1, <2>4, <2>5, LogTypes
<1>12. WriterOwns'
  BY <1>1, <1>4 DEF WriterOwns
<1> QED BY <1>1, <1>9, <1>10, <1>11, <1>12

LEMMA BodyReads ==
  ASSUME ReadInv, SyncBody
  PROVE  ReadInv'
<1> USE DEF ReadInv
<1>1. LogInv' /\ UNCHANGED <<log, live, transcript, ctx>>
  BY SyncBodies DEF SyncBody, UnchangedBySync, agentVars, bindVars
<1>2. sync'.at = "check" /\ sync'.read = sync.read /\ sync'.items = Tail(sync.items)
      /\ sync'.ctx = sync.ctx
  BY LogTypes DEF SyncBody, SyncStates
<1>3. sync.items # <<>> /\ Recorded(Head(sync.items)) /\ Reads
  BY DEF SyncBody, LogInv, PlaceInv, WritersRow, DoneIsRecorded, Reads
<1>4. Window' /\ DoneIsRecorded'
  BY <1>1, <1>2, <1>3, TailReads
<1>5. RowsLineUp' /\ WriterOwns'
  BY <1>1, <1>2 DEF RowsLineUp, WriterOwns, Recorded, SessionIsLiveOwned, SyncBody
<1> QED BY <1>1, <1>4, <1>5

(* The steps that begin or end an import.                                  *)
LEMMA EndsRead ==
  ASSUME ReadInv,
         \/ \E full \in BOOLEAN : SyncStart(full)
         \/ SyncFails \/ SyncChecked \/ SyncFinish
  PROVE  ReadInv'
<1> USE DEF ReadInv
<1>1. LogInv' /\ UNCHANGED <<log, transcript>>
  BY SyncMoves
<1>2. /\ live' = live
      /\ ctx' = ctx \/ ctx' = Len(log)
  <2>1. live' = live
    BY DEF SyncStart, SyncFails, SyncChecked, SyncFinish, UnchangedBySync
  <2>2. ctx' = ctx \/ ctx' = Len(log)
    BY DEF SyncStart, SyncFails, SyncChecked, SyncFinish, bindVars
  <2> QED BY <2>1, <2>2
<1>3. \/ sync'.at = "idle"
      \/ sync'.at = "import" /\ sync'.ctx = ctx
      \/ /\ sync'.at = "finish" /\ sync'.ctx = sync.ctx /\ sync.at = "check"
         /\ sync'.read = sync.read /\ sync'.items = sync.items /\ sync.items = <<>>
  <2>1. NoSync.at = "idle"
    BY DEF NoSync
  <2>2. ASSUME NEW full, SyncStart(full)
        PROVE  sync'.at = "import" /\ sync'.ctx = ctx
    BY <2>2 DEF SyncStart, NoSync
  <2>3. CASE SyncChecked
    BY <2>3, LogTypes DEF SyncChecked, SyncStates
  <2> QED BY <2>1, <2>2, <2>3 DEF SyncFails, SyncFinish
<1>4. Window' /\ DoneIsRecorded'
  BY <1>1, <1>3 DEF Window, DoneIsRecorded, Recorded, Reads, Done
<1>5. SessionIsLiveOwned' = SessionIsLiveOwned
  BY <1>1 DEF SessionIsLiveOwned
<1>6. RowsLineUp'
  BY <1>1, <1>2, <1>3, <1>5, LogTypes DEF RowsLineUp, Recorded
<1>7. WriterOwns'
  BY <1>2, <1>5 DEF WriterOwns
<1> QED BY <1>1, <1>4, <1>6, <1>7

LEMMA CrashReads ==
  ASSUME ReadInv, Unbound, Crash
  PROVE  ReadInv'
<1> USE DEF ReadInv
<1>1. LogInv' /\ UNCHANGED <<log, ctx>> /\ sync'.at = "idle" /\ live'.at = "idle"
  BY CrashPlaces DEF Crash, bindVars, NoSync, NoTurn
<1>2. Window' /\ DoneIsRecorded' /\ WriterOwns'
  BY <1>1 DEF Window, DoneIsRecorded, WriterOwns, Reads
<1>3. SessionIsLiveOwned' = SessionIsLiveOwned
  BY <1>1 DEF SessionIsLiveOwned
<1>4. RowsLineUp'
  <2>1. CASE bound
    <3>1. transcript' = transcript
      BY <2>1 DEF Crash, agentVars
    <3> QED BY <1>1, <1>3, <3>1 DEF RowsLineUp, Recorded
  <2>2. CASE ~bound
    <3>1. ~SessionIsLiveOwned => Len(log) = 0
      BY <2>2 DEF Unbound
    <3>2. Len(transcript') = 0
      BY <2>2 DEF Crash
    <3> QED BY <1>1, <1>3, <3>1, <3>2 DEF RowsLineUp
  <2> QED BY <2>1, <2>2
<1> QED BY <1>1, <1>2, <1>4

LEMMA UnboundKept ==
  ASSUME LogInv, Unbound, [Next]_vars
  PROVE  Unbound'
<1> SUFFICES ASSUME ~bound' PROVE Unbound'
  BY DEF Unbound
<1>1. ~bound
  <2>1. ASSUME NEW text, NEW i, LiveBegin(text) \/ LiveBeginRecorded(text, i)
        PROVE  bound' = bound
    BY <2>1 DEF LiveBegin, LiveBeginRecorded, bindVars
  <2>2. CASE LiveStep
    BY <2>1, <2>2 DEF LiveStep, LiveAppendUser, LiveUserBody, LiveSend, LiveFails,
                      LiveReturns, LiveAppendAgent, LiveAgentBody, LiveState, bindVars
  <2>3. CASE AgentStep
    BY <2>3 DEF AgentStep, AgentHears, AgentAnswers, AgentStops, SpokenElsewhere,
                UnchangedByAgent, bindVars
  <2>4. CASE SyncStep
    BY <2>4 DEF SyncStep, SyncStart, SyncImport, SyncFails, SyncSkip, SyncMisses,
                SyncAppend, SyncBody, SyncChecked, SyncFinish, bindVars
  <2>5. CASE Crash \/ UNCHANGED vars
    BY <2>5 DEF Crash, vars, bindVars
  <2> QED BY <2>2, <2>3, <2>4, <2>5 DEF Next
<1>2. sync.at = "idle" /\ (log # <<>> => SessionIsLiveOwned)
  BY <1>1 DEF Unbound
<1>3. ~SyncStep
  BY <1>1, <1>2 DEF SyncStep, SyncStart, SyncImport, SyncFails, SyncSkip, SyncMisses,
                    SyncAppend, SyncBody, SyncChecked, SyncFinish
<1>4. sync'.at = "idle"
  <2>1. ASSUME NEW text, NEW i, LiveBegin(text) \/ LiveBeginRecorded(text, i)
        PROVE  sync' = sync
    BY <2>1 DEF LiveBegin, LiveBeginRecorded, UnchangedByLive
  <2>2. CASE LiveStep
    BY <1>2, <2>1, <2>2 DEF LiveStep, LiveAppendUser, LiveUserBody, LiveSend, LiveFails,
                      LiveReturns, LiveAppendAgent, LiveAgentBody, LiveState, UnchangedByLive
  <2>3. CASE AgentStep
    BY <1>2, <2>3 DEF AgentStep, AgentHears, AgentAnswers, AgentStops, SpokenElsewhere,
                      UnchangedByAgent
  <2>4. CASE Crash \/ UNCHANGED vars
    BY <1>2, <2>4 DEF Crash, vars, NoSync
  <2> QED BY <1>3, <2>2, <2>3, <2>4 DEF Next
<1>5. log' # <<>> => SessionIsLiveOwned'
  <2>1. CASE LiveAppendUser \/ LiveAppendAgent
    <3>1. PICK row \in Rows : /\ row.source = "live" /\ row.seq = NextSeq
                              /\ log' = Append(log, row)
      BY <2>1, LiveAppends
    <3> QED BY <3>1, StaysRecorded
  <2>2. CASE ~(LiveAppendUser \/ LiveAppendAgent)
    <3>1. log' = log
      <4>1. ASSUME NEW text, NEW i, LiveBegin(text) \/ LiveBeginRecorded(text, i)
            PROVE  log' = log
        BY <4>1 DEF LiveBegin, LiveBeginRecorded
      <4>2. CASE LiveStep
        BY <2>2, <4>1, <4>2 DEF LiveStep, LiveUserBody, LiveSend, LiveFails, LiveReturns,
                                LiveAgentBody, LiveState
      <4>3. CASE AgentStep
        BY <4>3 DEF AgentStep, AgentHears, AgentAnswers, AgentStops, SpokenElsewhere,
                    UnchangedByAgent
      <4>4. CASE Crash \/ UNCHANGED vars
        BY <4>4 DEF Crash, vars
      <4> QED BY <1>3, <4>2, <4>3, <4>4 DEF Next
    <3> QED BY <1>2, <3>1 DEF SessionIsLiveOwned
  <2> QED BY <2>1, <2>2
<1> QED BY <1>4, <1>5 DEF Unbound

(* The reads of an import are followed whatever comes between its steps.   *)
THEOREM ReadsCorrect == Spec => []ReadInv
<1>1. ReadInv /\ UNCHANGED vars => ReadInv'
  <2> SUFFICES ASSUME ReadInv, UNCHANGED vars PROVE ReadInv'
    OBVIOUS
  <2>1. LogInv'
    BY StutterPlaces DEF ReadInv
  <2> QED BY <2>1 DEF ReadInv, vars, Window, DoneIsRecorded, RowsLineUp, WriterOwns,
                      Recorded, Reads, Done, SessionIsLiveOwned
<1>2. ReadInv /\ Unbound /\ Next => ReadInv'
  BY LiveReads, AgentReads, ImportReads, SkipReads, MissesReads, AppendReads, BodyReads,
     EndsRead, CrashReads DEF Next, SyncStep
<1>3. ReadInv /\ Unbound /\ [Next]_vars => Unbound'
  BY UnboundKept DEF ReadInv
<1>4. Init => Unbound
  BY DEF Init, InitNew, InitImported, NoSync, Unbound
<1> QED BY <1>1, <1>2, <1>3, <1>4, ReadInit, PTL DEF Spec

(* An import that has run to its end has left nothing out of what it read, *)
(* for any number of turns, imports and crashes.                           *)
THEOREM SyncedCorrect == Spec => []SyncedIsRecorded
<1>1. ReadInv => SyncedIsRecorded
  <2> SUFFICES ASSUME ReadInv, sync.at = "finish", NEW k \in 1..sync.read
               PROVE  \E i \in 1..Len(log) : Carries(log[i], transcript[k])
    BY DEF SyncedIsRecorded
  <2>1. sync.items = <<>> /\ Reads
    BY DEF ReadInv, Window, Reads
  <2>2. Done = sync.read
    BY <2>1, LogTypes DEF Done, ReadInv
  <2> QED BY <2>1, <2>2, DoneTypes DEF Recorded, RecordedIn
<1> QED BY <1>1, ReadsCorrect, PTL

-----------------------------------------------------------------------------
(* StoredOnce.  A message has one name in the transcript, the name its     *)
(* user's row was given if the agent echoes; it is not there before it was *)
(* sent.  So what an import finds unrecorded is stored neither by another  *)
(* import nor, for the user's words, by a turn (OnceInv).                  *)
RowOf(i, source, role, of) ==
  log[i].source = source /\ log[i].role = role /\ log[i].of = of

HasRow(source, role, of) == \E i \in 1..Len(log) : RowOf(i, source, role, of)

RowsSaid == \A i \in 1..Len(log) : log[i].of \in 0..Len(texts)

Asks(k, of) == transcript[k].role = "user" /\ transcript[k].of = of

(* An answer's name is the agent's; a question has one name, on its row    *)
(* and wherever it is read.                                                *)
AnswersNamed ==
  /\ \A k \in 1..Len(transcript) : transcript[k].role = "agent" =>
       transcript[k].native = Id("agent", transcript[k].of)
  /\ \A i \in 1..Len(log) : log[i].source = "import" /\ log[i].role = "agent" =>
       log[i].native = Id("agent", log[i].of)

QuestionsNamed ==
  \A k \in 1..Len(transcript) : transcript[k].role = "user" =>
    /\ \A m \in 1..Len(transcript) : Asks(m, transcript[k].of) =>
         transcript[m].native = transcript[k].native
    /\ \A i \in 1..Len(log) : RowOf(i, "import", "user", transcript[k].of) =>
         log[i].native = transcript[k].native
    /\ echoes => \A i \in 1..Len(log) : RowOf(i, "live", "user", transcript[k].of) =>
         log[i].id = transcript[k].native

(* A question that was not sent yet has not been heard.                    *)
Unheard(of) ==
  /\ \A k \in 1..Len(transcript) : ~Asks(k, of)
  /\ ~HasRow("import", "user", of)

Unsent == live.at \in {"new", "user body", "ready"}

UnsentUnheard ==
  /\ Unsent => Unheard(live.of) /\ (agent.at # "idle" => agent.of # live.of)
  /\ agent.at = "asked" => Unheard(agent.of)

(* A turn writes its own rows, each of them once, and sends the question   *)
(* with the name on its row.                                               *)
TurnWrites ==
  /\ live.at = "new" => ~HasRow("live", "user", live.of)
  /\ live.at \notin {"idle", "agent body", "state"} => ~HasRow("live", "agent", live.of)
  /\ Unsent => \A i \in 1..Len(log) : RowOf(i, "live", "user", live.of) => log[i].id = live.id
  /\ agent.at = "asked" =>
       \A i \in 1..Len(log) : RowOf(i, "live", "user", agent.of) => log[i].id = agent.id

(* What an import is about to append is missing still.                     *)
ImportMisses ==
  sync.at = "append" =>
    LET e == Head(sync.items) IN
      /\ ~HasRow("import", e.role, e.of)
      /\ echoes /\ e.role = "user" => ~HasRow("live", "user", e.of)

OnceInv ==
  /\ RowsSaid /\ AnswersNamed /\ QuestionsNamed /\ UnsentUnheard /\ TurnWrites
  /\ ImportMisses /\ StoredOnce

(* The parts that move neither with the turn nor with the import.          *)
RowsInv == RowsSaid /\ AnswersNamed /\ QuestionsNamed /\ StoredOnce

LEMMA RowsStay ==
  ASSUME RowsInv, UNCHANGED <<echoes, log, transcript>>,
         Len(texts) \in Nat, Len(texts') \in Nat, Len(texts) <= Len(texts')
  PROVE  /\ RowsInv'
         /\ \A source, role, of : HasRow(source, role, of)' <=> HasRow(source, role, of)
         /\ \A i, source, role, of : RowOf(i, source, role, of)' <=> RowOf(i, source, role, of)
         /\ \A of : Unheard(of)' <=> Unheard(of)
<1>1. \A i, source, role, of : RowOf(i, source, role, of)' <=> RowOf(i, source, role, of)
  BY DEF RowOf
<1>2. \A source, role, of : HasRow(source, role, of)' <=> HasRow(source, role, of)
  BY <1>1 DEF HasRow
<1>3. \A k, of : Asks(k, of)' <=> Asks(k, of)
  BY DEF Asks
<1>4. \A of : Unheard(of)' <=> Unheard(of)
  BY <1>2, <1>3 DEF Unheard
<1>5. RowsSaid'
  <2>1. ASSUME NEW i \in 1..Len(log) PROVE log[i].of \in 0..Len(texts')
    <3>1. log[i].of \in 0..Len(texts)
      BY DEF RowsInv, RowsSaid
    <3> QED BY <3>1
  <2> QED BY <2>1 DEF RowsSaid
<1>6. AnswersNamed' /\ StoredOnce'
  BY DEF RowsInv, AnswersNamed, StoredOnce
<1>7. QuestionsNamed'
  BY DEF RowsInv, QuestionsNamed, Asks, RowOf
<1> QED BY <1>1, <1>2, <1>4, <1>5, <1>6, <1>7 DEF RowsInv

(* A row that arrives.                                                     *)
LEMMA RowArrives ==
  ASSUME LogInv, NEW row \in Rows, row.seq = NextSeq, log' = Append(log, row)
  PROVE  /\ \A i \in 1..Len(log') :
              \/ i \in 1..Len(log) /\ log'[i] = log[i]
              \/ i = Len(log) + 1 /\ log'[i] = row
<1>1. /\ NextSeq = Len(log) + 1 /\ NextSeq \in 1..Len(log') /\ Len(log') = Len(log) + 1
      /\ \A i \in 1..Len(log) : i \in 1..Len(log') /\ log'[i] = log[i]
      /\ log'[NextSeq] = row
  BY RowAppended DEF LogInv, PlaceInv
<1>2. \A i \in 1..Len(log') : i \in 1..Len(log) \/ i = Len(log) + 1
  BY <1>1, LogTypes
<1> QED BY <1>1, <1>2

(* Which row may arrive: its message is not stored by the same writer, nor *)
(* by any if the user said it and the agent echoes.                        *)
LEMMA OnceKept ==
  ASSUME LogInv, RowsInv, NEW row \in Rows, row.seq = NextSeq, log' = Append(log, row),
         UNCHANGED <<echoes, transcript, texts>>, row.of \in 0..Len(texts),
         row.of # 0 => ~HasRow(row.source, row.role, row.of),
         row.of # 0 /\ row.role = "user" /\ echoes =>
           ~HasRow("live", "user", row.of) /\ ~HasRow("import", "user", row.of),
         row.source = "import" /\ row.role = "agent" => row.native = Id("agent", row.of),
         \A k \in 1..Len(transcript) : row.role = "user" /\ Asks(k, row.of) =>
           row.source = "import" /\ row.native = transcript[k].native
  PROVE  RowsInv'
<1>1. /\ \A i \in 1..Len(log') :
           \/ i \in 1..Len(log) /\ log'[i] = log[i]
           \/ i = Len(log) + 1 /\ log'[i] = row
  BY RowArrives
<1>2. RowsSaid'
  BY <1>1 DEF RowsInv, RowsSaid
<1>3. AnswersNamed'
  BY <1>1 DEF RowsInv, AnswersNamed
<1>4. QuestionsNamed'
  BY <1>1 DEF RowsInv, QuestionsNamed, Asks, RowOf
<1>5. StoredOnce'
  <2>1. \A i \in 1..Len(log) : log[i].source \in {"live", "import"}
    <3>1. \A i \in 1..Len(log) : log[i] \in Rows
      BY LogTypes, ElementOfSeq
    <3> QED BY <3>1 DEF Rows
  <2>2. row.source \in {"live", "import"}
    BY DEF Rows
  <2>3. ASSUME NEW i \in 1..Len(log), log[i].role = row.role, log[i].of = row.of, row.of # 0
        PROVE  log[i].source # row.source /\ (row.role = "user" => ~echoes)
    BY <2>1, <2>3 DEF HasRow, RowOf
  <2> SUFFICES ASSUME NEW i \in 1..Len(log'), NEW j \in 1..Len(log'), i # j,
                      log'[i].role = log'[j].role, log'[i].of = log'[j].of, log'[i].of # 0
               PROVE  /\ log'[i].source # log'[j].source
                      /\ log'[i].role = "user" => ~echoes
    BY DEF StoredOnce
  <2>4. CASE i \in 1..Len(log) /\ log'[i] = log[i] /\ j \in 1..Len(log) /\ log'[j] = log[j]
    BY <2>4 DEF RowsInv, StoredOnce
  <2>5. CASE i \in 1..Len(log) /\ log'[i] = log[i] /\ log'[j] = row
    BY <2>3, <2>5
  <2>6. CASE j \in 1..Len(log) /\ log'[j] = log[j] /\ log'[i] = row
    BY <2>3, <2>6
  <2> QED BY <1>1, <2>4, <2>5, <2>6
<1> QED BY <1>2, <1>3, <1>4, <1>5 DEF RowsInv

(* An import appends what it has read.                                     *)
LEMMA HeadHeard ==
  ASSUME ReadInv, sync.at \in {"check", "append"}, sync.items # <<>>
  PROVE  /\ Head(sync.items) \in Entries /\ Head(sync.items).of \in Said
         /\ \E k \in 1..Len(transcript) : Head(sync.items) = transcript[k]
<1>1. Reads
  BY DEF Reads
<1>2. /\ Head(sync.items) \in Entries /\ Head(sync.items) = sync.items[1]
      /\ Head(sync.items).of \in Said /\ Len(sync.items) \in Nat \ {0}
  BY HeadTypes DEF ReadInv, LogInv, PlaceInv
<1>3. /\ Done \in Nat /\ Done + Len(sync.items) = sync.read
      /\ \A j \in 1..Len(sync.items) : sync.items[j] = transcript[Done + j]
      /\ sync.read <= Len(transcript)
  BY <1>1, DoneTypes
<1>4. Len(transcript) \in Nat /\ sync.read \in Nat
  BY LogTypes DEF ReadInv
<1>5. 1 \in 1..Len(sync.items) /\ Done + 1 \in 1..Len(transcript)
  BY <1>2, <1>3, <1>4
<1> QED BY <1>2, <1>3, <1>5

LEMMA OnceInit == Init => OnceInv
<1> SUFFICES ASSUME Init PROVE OnceInv
  OBVIOUS
<1>1. live.at = "idle" /\ agent.at = "idle" /\ sync.at = "idle"
  BY DEF Init, NoTurn, NoAsk, NoSync
<1>2. CASE InitNew
  BY <1>1, <1>2 DEF InitNew, OnceInv, RowsSaid, AnswersNamed, QuestionsNamed,
                    UnsentUnheard, Unsent, TurnWrites, ImportMisses, StoredOnce
<1>3. CASE InitImported
  <2>1. /\ Len(log) = 2 /\ log[1] = Imported(1, Question) /\ log[2] = Imported(2, Answer)
        /\ Len(transcript) = 2 /\ transcript[1] = Question /\ transcript[2] = Answer
        /\ Len(texts) = 1
    BY <1>3 DEF InitImported
  <2>2. /\ log[1].role = "user" /\ log[2].role = "agent"
        /\ log[1].source = "import" /\ log[2].source = "import"
        /\ log[1].of = 1 /\ log[2].of = 1
        /\ log[1].native = Id("user", 1) /\ log[2].native = Id("agent", 1)
    BY <2>1 DEF Imported, Row, Question, Answer
  <2>3. /\ transcript[1].role = "user" /\ transcript[2].role = "agent"
        /\ transcript[1].of = 1 /\ transcript[2].of = 1
        /\ transcript[1].native = Id("user", 1) /\ transcript[2].native = Id("agent", 1)
    BY <2>1 DEF Question, Answer
  <2>4. RowsSaid
    BY <2>1, <2>2 DEF RowsSaid
  <2>5. AnswersNamed
    BY <2>1, <2>2, <2>3 DEF AnswersNamed
  <2>6. QuestionsNamed
    BY <2>1, <2>2, <2>3 DEF QuestionsNamed, Asks, RowOf
  <2>7. StoredOnce
    BY <2>1, <2>2 DEF StoredOnce
  <2> QED BY <1>1, <2>4, <2>5, <2>6, <2>7
          DEF OnceInv, UnsentUnheard, Unsent, TurnWrites, ImportMisses
<1> QED BY <1>2, <1>3 DEF Init

-----------------------------------------------------------------------------
(* The turn begins, moves on without a row, and writes its rows.           *)
LEMMA BeginOnce ==
  ASSUME ReadInv, OnceInv, NEW text \in {Len(texts) + 1} \cup Repetition,
         LiveBegin(text) \/ \E i \in 1..Len(log) : LiveBeginRecorded(text, i)
  PROVE  OnceInv'
<1> DEFINE n == Len(texts) + 1
<1>1. LogInv /\ TypeOK /\ texts \in Seq(Nat) /\ Len(texts) \in Nat
  BY DEF ReadInv, LogInv, PlaceInv, TypeOK
<1>2. /\ UNCHANGED <<echoes, log, transcript, agent, sync>>
      /\ texts' = Append(texts, text)
      /\ live'.at \in {"new", "ready"} /\ live'.of = n
  BY DEF LiveBegin, LiveBeginRecorded, UnchangedByLive, NoTurn
<1>3. Len(texts') = n
  BY <1>1, <1>2
<1>4. /\ RowsInv'
      /\ \A source, role, of : HasRow(source, role, of)' <=> HasRow(source, role, of)
      /\ \A i, source, role, of : RowOf(i, source, role, of)' <=> RowOf(i, source, role, of)
      /\ \A of : Unheard(of)' <=> Unheard(of)
  BY <1>1, <1>2, <1>3, RowsStay DEF OnceInv, RowsInv
<1>5. /\ \A source, role : ~HasRow(source, role, n)
      /\ \A i \in 1..Len(log) : \A source, role : ~RowOf(i, source, role, n)
  BY <1>1 DEF OnceInv, RowsSaid, HasRow, RowOf
<1>6. n \notin Said
  BY <1>1 DEF Said
<1>7. Unheard(n) /\ (agent.at # "idle" => agent.of # n)
  BY <1>1, <1>5, <1>6 DEF Unheard, Asks, LogInv, PlaceInv, RefersToSaid
<1> HIDE DEF n
<1>8. UnsentUnheard'
  <2>1. \A of : of = n => Unheard(of)'
    BY <1>4, <1>7
  <2>2. Unheard(live.of)'
    BY <1>2, <2>1 DEF Unheard
  <2>3. agent.at = "asked" => Unheard(agent.of)'
    BY <1>2, <1>4 DEF OnceInv, UnsentUnheard
  <2> QED BY <1>2, <1>7, <2>2, <2>3 DEF UnsentUnheard
<1>9. TurnWrites'
  BY <1>2, <1>4, <1>5 DEF OnceInv, TurnWrites, HasRow, RowOf
<1>10. ImportMisses'
  BY <1>2, <1>4 DEF OnceInv, ImportMisses, HasRow, RowOf
<1> QED BY <1>4, <1>8, <1>9, <1>10 DEF OnceInv, RowsInv

(* Nothing is written and nothing is heard: a turn goes on or ends, and    *)
(* the agent is left alone, silenced, or asked the turn's question.        *)
TurnGoesOn ==
  \/ live'.at = "idle"
  \/ /\ live'.of = live.of /\ live'.id = live.id
     /\ \/ live'.at = live.at
        \/ live'.at \in {"running", "returned"} /\ live.at \in {"ready", "running"}
        \/ live'.at = "state"
        \/ live'.at = "ready" /\ live.at = "user body"

AgentIsAsked ==
  \/ agent'.at = "idle"
  \/ agent'.at = agent.at /\ agent'.of = agent.of /\ agent'.id = agent.id
  \/ /\ Unsent /\ live'.at = "running"
     /\ agent'.at = "asked" /\ agent'.of = live.of /\ agent'.id = live.id

LEMMA QuietOnce ==
  ASSUME ReadInv, OnceInv, UNCHANGED <<echoes, log, transcript, texts>>,
         TurnGoesOn, AgentIsAsked, ImportMisses'
  PROVE  OnceInv'
<1>1. LogInv /\ TypeOK /\ Len(texts) \in Nat
  BY DEF ReadInv, LogInv, PlaceInv, TypeOK
<1>2. /\ RowsInv'
      /\ \A source, role, of : HasRow(source, role, of)' <=> HasRow(source, role, of)
      /\ \A i, source, role, of : RowOf(i, source, role, of)' <=> RowOf(i, source, role, of)
      /\ \A of : Unheard(of)' <=> Unheard(of)
  BY <1>1, RowsStay DEF OnceInv, RowsInv
<1>3. Unsent' => Unsent /\ live'.of = live.of /\ live'.id = live.id
  BY DEF Unsent, TurnGoesOn
<1>4. UnsentUnheard'
  <2>1. Unsent' => Unheard(live.of)' /\ (agent'.at # "idle" => agent'.of # live'.of)
    <3> SUFFICES ASSUME Unsent'
                 PROVE  Unheard(live.of)' /\ (agent'.at # "idle" => agent'.of # live'.of)
      OBVIOUS
    <3>1. Unheard(live.of) /\ (agent.at # "idle" => agent.of # live.of)
      BY <1>3 DEF OnceInv, UnsentUnheard
    <3>2. Unheard(live.of)'
      BY <1>2, <1>3, <3>1 DEF Unheard, HasRow, RowOf, Asks
    <3>3. agent'.at # "idle" => agent'.of # live'.of
      BY <1>3, <3>1 DEF Unsent, AgentIsAsked
    <3> QED BY <3>2, <3>3
  <2>2. agent'.at = "asked" => Unheard(agent.of)'
    <3> SUFFICES ASSUME agent'.at = "asked" PROVE Unheard(agent.of)'
      OBVIOUS
    <3>1. \/ Unheard(live.of) /\ agent'.of = live.of
          \/ Unheard(agent.of) /\ agent'.of = agent.of
      BY DEF OnceInv, UnsentUnheard, AgentIsAsked
    <3> QED BY <1>2, <3>1 DEF Unheard, HasRow, RowOf, Asks
  <2> QED BY <2>1, <2>2 DEF UnsentUnheard
<1>5. TurnWrites'
  <2>1. live'.at = "new" => ~HasRow("live", "user", live.of)'
    <3>1. live'.at = "new" => live.at = "new" /\ live'.of = live.of
      BY DEF TurnGoesOn
    <3> QED BY <3>1 DEF OnceInv, TurnWrites, HasRow, RowOf
  <2>2. live'.at \notin {"idle", "agent body", "state"} => ~HasRow("live", "agent", live.of)'
    <3>1. live'.at \notin {"idle", "agent body", "state"} =>
            live.at \notin {"idle", "agent body", "state"} /\ live'.of = live.of
      BY DEF TurnGoesOn
    <3> QED BY <3>1 DEF OnceInv, TurnWrites, HasRow, RowOf
  <2>3. Unsent' => \A i \in 1..Len(log) : RowOf(i, "live", "user", live.of)' => log[i].id = live'.id
    BY <1>3 DEF OnceInv, TurnWrites, RowOf
  <2>4. agent'.at = "asked" =>
          \A i \in 1..Len(log) : RowOf(i, "live", "user", agent.of)' => log[i].id = agent'.id
    BY DEF OnceInv, TurnWrites, RowOf, AgentIsAsked
  <2> QED BY <2>1, <2>2, <2>3, <2>4 DEF TurnWrites
<1> QED BY <1>2, <1>4, <1>5 DEF OnceInv, RowsInv

LEMMA MissesStay ==
  ASSUME OnceInv, UNCHANGED <<echoes, log, sync>>
  PROVE  ImportMisses'
  BY DEF OnceInv, ImportMisses, HasRow, RowOf

LEMMA TurnOnce ==
  ASSUME ReadInv, OnceInv,
         \/ LiveUserBody \/ LiveSend \/ LiveFails \/ LiveReturns \/ LiveAgentBody
         \/ LiveState
  PROVE  OnceInv'
<1>1. live \in LiveStates /\ NoTurn.at = "idle"
  BY DEF ReadInv, LogInv, PlaceInv, TypeOK, NoTurn
<1>2. UNCHANGED <<echoes, log, transcript, texts, sync>>
  BY DEF LiveUserBody, LiveSend, LiveFails, LiveReturns, LiveAgentBody, LiveState,
         UnchangedByLive, agentVars
<1>3. ImportMisses'
  BY <1>2, MissesStay
<1>4. CASE LiveUserBody
  <2>1. /\ live'.of = live.of /\ live'.id = live.id /\ live'.at = "ready"
        /\ live.at = "user body" /\ agent' = agent
    BY <1>1, <1>4 DEF LiveUserBody, LiveStates
  <2> QED BY <1>2, <1>3, <2>1, QuietOnce DEF TurnGoesOn, AgentIsAsked
<1>5. CASE LiveSend
  <2>1. /\ live'.of = live.of /\ live'.id = live.id /\ live'.at = "running"
        /\ live.at = "ready" /\ agent'.at = "asked" /\ agent'.of = live.of
        /\ agent'.id = live.id
    BY <1>1, <1>5 DEF LiveSend, LiveStates
  <2> QED BY <1>2, <1>3, <2>1, QuietOnce DEF Unsent, TurnGoesOn, AgentIsAsked
<1>6. CASE LiveReturns
  <2>1. /\ live'.of = live.of /\ live'.id = live.id /\ live'.at = "returned"
        /\ live.at = "running" /\ agent' = agent
    BY <1>1, <1>6 DEF LiveReturns, LiveStates
  <2> QED BY <1>2, <1>3, <2>1, QuietOnce DEF TurnGoesOn, AgentIsAsked
<1>7. CASE LiveAgentBody
  <2>1. /\ live.at = "agent body" /\ agent' = agent
        /\ \/ live'.at = "idle"
           \/ live'.of = live.of /\ live'.id = live.id /\ live'.at = "state"
    BY <1>1, <1>7 DEF LiveAgentBody, LiveStates
  <2> QED BY <1>2, <1>3, <2>1, QuietOnce DEF TurnGoesOn, AgentIsAsked
<1>8. CASE LiveFails \/ LiveState
  <2>1. live'.at = "idle" /\ agent' = agent
    BY <1>1, <1>8 DEF LiveFails, LiveState
  <2> QED BY <1>2, <1>3, <2>1, QuietOnce DEF TurnGoesOn, AgentIsAsked
<1> QED BY <1>4, <1>5, <1>6, <1>7, <1>8

LEMMA NextSeqIs ==
  ASSUME LogInv
  PROVE  NextSeq = Len(log) + 1 /\ NextSeq \in Nat
<1>1. log \in Seq(Rows) /\ Len(log) \in Nat
  BY LogTypes
<1>2. log = <<>> \/ Len(log) \in 1..Len(log)
  BY <1>1
<1>3. log = <<>> \/ log[Len(log)].seq = Len(log)
  BY <1>2 DEF LogInv, PlaceInv, SeqIsPlace
<1> QED BY <1>1, <1>3 DEF NextSeq, MaxExchangeSeq

LEMMA UserRowOnce ==
  ASSUME ReadInv, OnceInv, LiveAppendUser
  PROVE  OnceInv'
<1> DEFINE id == NewUserTurnMindFSID(NextSeq)
           row == Row(NextSeq, "user", "live", id, NoId, live.of)
<1>1. LogInv /\ live \in LiveStates /\ live.at = "new" /\ live.of \in Said
  BY DEF ReadInv, LogInv, PlaceInv, TypeOK, RefersToSaid, LiveAppendUser
<1>2. id \in Idents /\ NoId \in Idents /\ NextSeq \in Nat /\ live.of \in Nat
  BY <1>1, NextSeqIs, IdTypes DEF LiveStates
<1>3. /\ UNCHANGED <<echoes, transcript, texts, agent, sync>>
      /\ log' = Append(log, row) /\ live'.at = "user body" /\ live'.of = live.of
      /\ live'.id = id
  BY <1>1 DEF LiveAppendUser, UnchangedByLive, LiveStates
<1> HIDE DEF id
<1>4. /\ row \in Rows /\ row.seq = NextSeq /\ row.source = "live" /\ row.role = "user"
      /\ row.id = id /\ row.of = live.of
  <2>1. "user" \in Roles /\ "live" \in {"live", "import"}
    BY DEF Roles
  <2> QED BY <1>2, <2>1 DEF Row, Rows
<1> HIDE DEF row
<1>5. /\ Unheard(live.of) /\ (agent.at # "idle" => agent.of # live.of)
      /\ ~HasRow("live", "user", live.of) /\ ~HasRow("live", "agent", live.of)
  BY <1>1 DEF OnceInv, UnsentUnheard, TurnWrites, Unsent
<1>6. \A i \in 1..Len(log') :
        \/ i \in 1..Len(log) /\ log'[i] = log[i]
        \/ i = Len(log) + 1 /\ log'[i] = row
  BY <1>1, <1>3, <1>4, RowArrives
<1>7. RowsInv'
  <2>1. row.of \in 0..Len(texts)
    BY <1>1, <1>4 DEF Said
  <2> QED BY <1>1, <1>3, <1>4, <1>5, <2>1, OnceKept DEF OnceInv, RowsInv, Unheard
<1>9. UnsentUnheard'
  <2>1. ASSUME NEW of, Unheard(of) PROVE Unheard(of)'
    <3>1. ASSUME NEW i \in 1..Len(log'), log'[i].source = "import", log'[i].role = "user"
          PROVE  log'[i].of # of
      <4>1. i \in 1..Len(log) /\ log'[i] = log[i]
        BY <1>4, <1>6, <3>1
      <4> QED BY <2>1, <3>1, <4>1 DEF Unheard, HasRow, RowOf
    <3> QED BY <1>3, <2>1, <3>1 DEF Unheard, Asks, HasRow, RowOf
  <2>2. Unheard(live.of)'
    <3>1. \A of : of = live.of => Unheard(of)'
      BY <1>5, <2>1
    <3> QED BY <1>3, <3>1 DEF Unheard
  <2>3. agent.at = "asked" => Unheard(agent.of)'
    <3>1. agent.at = "asked" => \A of : of = agent.of => Unheard(of)'
      BY <2>1 DEF OnceInv, UnsentUnheard
    <3> QED BY <1>3, <3>1 DEF Unheard
  <2> QED BY <1>3, <1>5, <2>2, <2>3 DEF UnsentUnheard
<1>10. TurnWrites'
  <2>1. ~HasRow("live", "agent", live.of)'
    BY <1>3, <1>4, <1>5, <1>6 DEF HasRow, RowOf
  <2>2. \A i \in 1..Len(log') : RowOf(i, "live", "user", live.of)' => log'[i].id = live'.id
    BY <1>3, <1>4, <1>5, <1>6 DEF HasRow, RowOf
  <2>3. agent'.at = "asked" =>
          \A i \in 1..Len(log') : RowOf(i, "live", "user", agent.of)' => log'[i].id = agent'.id
    BY <1>3, <1>4, <1>5, <1>6 DEF OnceInv, TurnWrites, RowOf
  <2> QED BY <1>3, <2>1, <2>2, <2>3 DEF TurnWrites
<1>11. ImportMisses'
  <2> SUFFICES ASSUME sync.at = "append"
               PROVE  ImportMisses'
    BY <1>3 DEF ImportMisses
  <2>1. \E k \in 1..Len(transcript) : Head(sync.items) = transcript[k]
    BY <1>1, HeadHeard DEF LogInv, PlaceInv, WritersRow
  <2>2. Head(sync.items).role = "user" => Head(sync.items).of # live.of
    BY <1>5, <2>1 DEF Unheard, Asks
  <2> QED BY <1>3, <1>4, <1>6, <2>2 DEF OnceInv, ImportMisses, HasRow, RowOf
<1> QED BY <1>7, <1>9, <1>10, <1>11 DEF OnceInv, RowsInv

LEMMA AgentRowOnce ==
  ASSUME ReadInv, OnceInv, LiveAppendAgent
  PROVE  OnceInv'
<1> DEFINE of == IF live.answer = NoId THEN 0 ELSE live.of
           row == Row(NextSeq, "agent", "live", live.id, live.answer, of)
<1>1. LogInv /\ live \in LiveStates /\ live.at = "returned" /\ live.of \in Said
  BY DEF ReadInv, LogInv, PlaceInv, TypeOK, RefersToSaid, LiveAppendAgent
<1>2. /\ live.id \in Idents /\ live.answer \in Idents /\ NextSeq \in Nat
      /\ of \in 0..Len(texts) /\ of \in {0, live.of} /\ of \in Nat
  <2>1. texts \in Seq(Nat) /\ Len(texts) \in Nat
    BY DEF ReadInv, LogInv, PlaceInv, TypeOK
  <2>2. live.of \in 1..Len(texts) /\ of \in {0, live.of}
    BY <1>1 DEF Said
  <2>3. of \in 0..Len(texts) /\ of \in Nat
    BY <2>1, <2>2
  <2>4. live.id \in Idents /\ live.answer \in Idents
    BY <1>1 DEF LiveStates
  <2>5. NextSeq \in Nat
    BY <1>1, NextSeqIs
  <2> QED BY <2>2, <2>3, <2>4, <2>5
<1>3. /\ UNCHANGED <<echoes, transcript, texts, agent, sync>>
      /\ log' = Append(log, row) /\ live'.at = "agent body"
  BY <1>1 DEF LiveAppendAgent, UnchangedByLive, LiveStates
<1> HIDE DEF of
<1>4. /\ row \in Rows /\ row.seq = NextSeq /\ row.source = "live" /\ row.role = "agent"
      /\ row.of = of
  <2>1. "agent" \in Roles /\ "live" \in {"live", "import"}
    BY DEF Roles
  <2> QED BY <1>2, <2>1 DEF Row, Rows
<1> HIDE DEF row
<1>5. ~HasRow("live", "agent", live.of)
  BY <1>1 DEF OnceInv, TurnWrites
<1>6. \A i \in 1..Len(log') :
        \/ i \in 1..Len(log) /\ log'[i] = log[i]
        \/ i = Len(log) + 1 /\ log'[i] = row
  BY <1>1, <1>3, <1>4, RowArrives
<1>7. RowsInv'
  <2>1. row.of # 0 => ~HasRow(row.source, row.role, row.of)
    BY <1>2, <1>4, <1>5
  <2> QED BY <1>1, <1>2, <1>3, <1>4, <2>1, OnceKept DEF OnceInv, RowsInv
<1>8. \A i \in 1..Len(log') : log'[i].role = "user" => i \in 1..Len(log) /\ log'[i] = log[i]
  BY <1>4, <1>6
<1>9. UnsentUnheard'
  <2>1. ASSUME NEW m, Unheard(m) PROVE Unheard(m)'
    BY <1>3, <1>8, <2>1 DEF Unheard, Asks, HasRow, RowOf
  <2>2. agent.at = "asked" => \A m : m = agent.of => Unheard(m)'
    BY <2>1 DEF OnceInv, UnsentUnheard
  <2>3. agent'.at = "asked" => Unheard(agent.of)'
    BY <1>3, <2>2 DEF Unheard
  <2> QED BY <1>3, <2>3 DEF UnsentUnheard, Unsent
<1>10. TurnWrites'
  <2>1. ASSUME agent.at = "asked", NEW i \in 1..Len(log'), log'[i].source = "live",
               log'[i].role = "user", log'[i].of = agent.of
        PROVE  log'[i].id = agent.id
    <3>1. i \in 1..Len(log) /\ log'[i] = log[i]
      BY <1>8, <2>1
    <3>2. RowOf(i, "live", "user", agent.of)
      BY <2>1, <3>1 DEF RowOf
    <3> QED BY <2>1, <3>1, <3>2 DEF OnceInv, TurnWrites
  <2> QED BY <1>3, <2>1 DEF TurnWrites, Unsent, RowOf
<1>11. ImportMisses'
  <2>1. \A i \in 1..Len(log') : log'[i].source = "import" => i \in 1..Len(log) /\ log'[i] = log[i]
    BY <1>4, <1>6
  <2>2. ASSUME NEW role, NEW m, ~HasRow("import", role, m), NEW i \in 1..Len(log'),
               log'[i].source = "import", log'[i].role = role, log'[i].of = m
        PROVE  FALSE
    <3>1. i \in 1..Len(log) /\ RowOf(i, "import", role, m)
      BY <2>1, <2>2 DEF RowOf
    <3> QED BY <2>2, <3>1 DEF HasRow
  <2>3. ASSUME NEW m, ~HasRow("live", "user", m), NEW i \in 1..Len(log'),
               log'[i].source = "live", log'[i].role = "user", log'[i].of = m
        PROVE  FALSE
    <3>1. i \in 1..Len(log) /\ RowOf(i, "live", "user", m)
      BY <1>8, <2>3 DEF RowOf
    <3> QED BY <2>3, <3>1 DEF HasRow
  <2> SUFFICES ASSUME sync.at = "append"
               PROVE  ImportMisses'
    BY <1>3 DEF ImportMisses
  <2>4. /\ ~HasRow("import", Head(sync.items).role, Head(sync.items).of)
        /\ echoes /\ Head(sync.items).role = "user" =>
             ~HasRow("live", "user", Head(sync.items).of)
    BY DEF OnceInv, ImportMisses
  <2>5. \A i \in 1..Len(log') :
          ~(/\ log'[i].source = "import" /\ log'[i].role = Head(sync.items).role
            /\ log'[i].of = Head(sync.items).of)
    BY <2>2, <2>4
  <2>6. echoes /\ Head(sync.items).role = "user" => \A i \in 1..Len(log') :
          ~(/\ log'[i].source = "live" /\ log'[i].role = "user"
            /\ log'[i].of = Head(sync.items).of)
    BY <2>3, <2>4
  <2> QED BY <1>3, <2>5, <2>6 DEF ImportMisses, HasRow, RowOf
<1> QED BY <1>7, <1>9, <1>10, <1>11 DEF OnceInv, RowsInv

-----------------------------------------------------------------------------
(* The import finds a message unrecorded, and appends it.                  *)
LEMMA MissesOnce ==
  ASSUME ReadInv, OnceInv, SyncMisses
  PROVE  ImportMisses'
<1> DEFINE e == Head(sync.items)
<1>1. /\ e \in Entries /\ \E k \in 1..Len(transcript) : e = transcript[k]
      /\ ~IdentityRecorded(e.role, e.native)
  BY HeadHeard DEF SyncMisses
<1>2. UNCHANGED <<echoes, log>> /\ sync'.items = sync.items
  BY LogTypes DEF SyncMisses, UnchangedBySync, SyncStates, ReadInv
<1> HIDE DEF e
<1>3. e.role \in {"user", "agent"}
  BY <1>1 DEF Entries, Roles
<1>4. ~HasRow("import", e.role, e.of)
  <2> SUFFICES ASSUME NEW i \in 1..Len(log), log[i].source = "import",
                      log[i].role = e.role, log[i].of = e.of
               PROVE  FALSE
    BY DEF HasRow, RowOf
  <2>1. log[i].native = e.native
    <3>1. CASE e.role = "agent"
      BY <1>1, <3>1 DEF OnceInv, AnswersNamed
    <3>2. CASE e.role = "user"
      BY <1>1, <3>2 DEF OnceInv, QuestionsNamed, RowOf
    <3> QED BY <1>3, <3>1, <3>2
  <2> QED BY <1>1, <2>1 DEF IdentityRecorded
<1>5. echoes /\ e.role = "user" => ~HasRow("live", "user", e.of)
  <2> SUFFICES ASSUME echoes, e.role = "user", NEW i \in 1..Len(log),
                      log[i].source = "live", log[i].role = "user", log[i].of = e.of
               PROVE  FALSE
    BY DEF HasRow, RowOf
  <2>1. log[i].id = e.native
    BY <1>1 DEF OnceInv, QuestionsNamed, RowOf
  <2> QED BY <1>1, <2>1 DEF IdentityRecorded
<1> QED BY <1>2, <1>4, <1>5 DEF ImportMisses, HasRow, RowOf, e

LEMMA ImportOnce ==
  ASSUME ReadInv, OnceInv, SyncAppend
  PROVE  OnceInv'
<1> DEFINE e == Head(sync.items)
<1>1. LogInv /\ sync \in SyncStates /\ sync.at = "append"
  BY LogTypes DEF ReadInv, SyncAppend
<1>2. /\ e \in Entries /\ e.of \in Said /\ \E k \in 1..Len(transcript) : e = transcript[k]
  BY <1>1, HeadHeard DEF LogInv, PlaceInv, WritersRow
<1>3. UNCHANGED <<echoes, transcript, texts, live, agent>> /\ sync'.at = "body"
  BY <1>1 DEF SyncAppend, UnchangedBySync, agentVars, SyncStates
<1>4. PICK row \in Rows : /\ row.seq = NextSeq /\ log' = Append(log, row)
                          /\ row = Imported(NextSeq, e)
  BY <1>1, SyncAppends
<1>5. /\ ~HasRow("import", e.role, e.of)
      /\ echoes /\ e.role = "user" => ~HasRow("live", "user", e.of)
  BY <1>1 DEF OnceInv, ImportMisses
<1> HIDE DEF e
<1>6. /\ row.source = "import" /\ row.role = e.role /\ row.of = e.of
      /\ row.native = e.native
  BY <1>4 DEF Imported, Row
<1>7. \A i \in 1..Len(log') :
        \/ i \in 1..Len(log) /\ log'[i] = log[i]
        \/ i = Len(log) + 1 /\ log'[i] = row
  BY <1>1, <1>4, RowArrives
<1>8. RowsInv'
  <2>1. row.of \in 0..Len(texts)
    BY <1>2, <1>6 DEF Said
  <2>2. row.role = "agent" => row.native = Id("agent", row.of)
    BY <1>2, <1>6 DEF OnceInv, AnswersNamed
  <2>3. \A k \in 1..Len(transcript) : row.role = "user" /\ Asks(k, row.of) =>
          row.native = transcript[k].native
    BY <1>2, <1>6 DEF OnceInv, QuestionsNamed, Asks
  <2> QED BY <1>1, <1>3, <1>4, <1>5, <1>6, <2>1, <2>2, <2>3, OnceKept DEF OnceInv, RowsInv
<1>9. \A i \in 1..Len(log') : log'[i].source = "live" => i \in 1..Len(log) /\ log'[i] = log[i]
  BY <1>6, <1>7
<1>10. UnsentUnheard'
  <2>1. ASSUME NEW m, Unheard(m) PROVE Unheard(m)'
    <3>1. ~(row.role = "user" /\ row.of = m)
      BY <1>2, <1>6, <2>1 DEF Unheard, Asks
    <3>2. ASSUME NEW i \in 1..Len(log'), log'[i].source = "import", log'[i].role = "user"
          PROVE  log'[i].of # m
      BY <1>7, <2>1, <3>1, <3>2 DEF Unheard, HasRow, RowOf
    <3> QED BY <1>3, <2>1, <3>2 DEF Unheard, Asks, HasRow, RowOf
  <2>2. /\ agent.at = "asked" => \A m : m = agent.of => Unheard(m)'
        /\ Unsent => \A m : m = live.of => Unheard(m)'
    BY <2>1 DEF OnceInv, UnsentUnheard
  <2>3. /\ agent'.at = "asked" => Unheard(agent.of)'
        /\ Unsent' => Unheard(live.of)'
    BY <1>3, <2>2 DEF Unheard, Unsent
  <2>4. Unsent' => (agent'.at # "idle" => agent'.of # live'.of)
    BY <1>3 DEF OnceInv, UnsentUnheard, Unsent
  <2> QED BY <2>3, <2>4 DEF UnsentUnheard
<1>11. TurnWrites'
  BY <1>3, <1>9 DEF OnceInv, TurnWrites, Unsent, HasRow, RowOf
<1>12. ImportMisses'
  BY <1>3 DEF ImportMisses
<1> QED BY <1>8, <1>10, <1>11, <1>12 DEF OnceInv, RowsInv

LEMMA SyncOnce ==
  ASSUME ReadInv, OnceInv, SyncStep
  PROVE  OnceInv'
<1>1. CASE SyncAppend
  BY <1>1, ImportOnce
<1>2. CASE ~SyncAppend
  <2>1. UNCHANGED <<echoes, log, transcript, texts, live, agent>>
    BY <1>2 DEF SyncStep, SyncStart, SyncImport, SyncFails, SyncSkip, SyncMisses, SyncBody,
                SyncChecked, SyncFinish, UnchangedBySync, agentVars
  <2>2. ImportMisses'
    <3>1. CASE SyncMisses
      BY <3>1, MissesOnce
    <3>2. CASE ~SyncMisses
      <4>1. sync \in SyncStates /\ NoSync.at = "idle"
        BY LogTypes DEF ReadInv, NoSync
      <4>2. ASSUME NEW full, SyncStart(full) PROVE sync'.at = "import"
        BY <4>2 DEF SyncStart, NoSync
      <4>3. sync'.at # "append"
        BY <1>2, <3>2, <4>1, <4>2 DEF SyncStep, SyncImport, SyncFails, SyncSkip, SyncBody,
                                      SyncChecked, SyncFinish, SyncStates
      <4> QED BY <4>3 DEF ImportMisses
    <3> QED BY <3>1, <3>2
  <2> QED BY <2>1, <2>2, QuietOnce DEF TurnGoesOn, AgentIsAsked
<1> QED BY <1>1, <1>2

-----------------------------------------------------------------------------
(* The transcript grows: by answers with the agent's names, and by one     *)
(* question that nobody has heard, under the name on its row if the agent  *)
(* echoes.                                                                 *)
Grows(s, asked, name) ==
  /\ transcript' = transcript \o s
  /\ \A j \in 1..Len(s) :
       \/ s[j].role = "agent" /\ s[j].native = Id("agent", s[j].of)
       \/ s[j].role = "user" /\ s[j].of = asked /\ s[j].native = name

NewQuestion(asked, name) ==
  /\ Unheard(asked)
  /\ echoes => \A i \in 1..Len(log) : RowOf(i, "live", "user", asked) => log[i].id = name

LEMMA GrowOnce ==
  ASSUME LogInv, RowsInv, UNCHANGED <<echoes, log>>,
         Len(texts) \in Nat, Len(texts') \in Nat, Len(texts) <= Len(texts'),
         NEW s \in Seq(Entries), NEW asked, NEW name, Grows(s, asked, name),
         NewQuestion(asked, name)
  PROVE  /\ RowsInv'
         /\ \A m : m # asked /\ Unheard(m) => Unheard(m)'
<1>1. /\ \A k \in 1..Len(transcript) :
           k \in 1..Len(transcript') /\ transcript'[k] = transcript[k]
      /\ \A k \in 1..Len(transcript') :
           k \in 1..Len(transcript) \/ \E j \in 1..Len(s) : transcript'[k] = s[j]
  BY TranscriptGrows DEF LogInv, PlaceInv, Grows
<1>2. \A k \in 1..Len(transcript') :
        \/ k \in 1..Len(transcript) /\ transcript'[k] = transcript[k]
        \/ /\ transcript'[k].role = "agent"
           /\ transcript'[k].native = Id("agent", transcript'[k].of)
        \/ /\ transcript'[k].role = "user" /\ transcript'[k].of = asked
           /\ transcript'[k].native = name
  <2>1. ASSUME NEW k \in 1..Len(transcript'), NEW j \in 1..Len(s), transcript'[k] = s[j]
        PROVE  \/ /\ transcript'[k].role = "agent"
                  /\ transcript'[k].native = Id("agent", transcript'[k].of)
               \/ /\ transcript'[k].role = "user" /\ transcript'[k].of = asked
                  /\ transcript'[k].native = name
    <3>1. \/ s[j].role = "agent" /\ s[j].native = Id("agent", s[j].of)
          \/ s[j].role = "user" /\ s[j].of = asked /\ s[j].native = name
      BY DEF Grows
    <3> QED BY <2>1, <3>1
  <2> QED BY <1>1, <2>1
<1>3. RowsSaid'
  <2>1. ASSUME NEW i \in 1..Len(log) PROVE log[i].of \in 0..Len(texts')
    <3>1. log[i].of \in 0..Len(texts)
      BY DEF RowsInv, RowsSaid
    <3> QED BY <3>1
  <2> QED BY <2>1 DEF RowsSaid
<1>4. StoredOnce'
  BY DEF RowsInv, StoredOnce
<1>5. AnswersNamed'
  <2>1. \A k \in 1..Len(transcript') : transcript'[k].role = "agent" =>
          transcript'[k].native = Id("agent", transcript'[k].of)
    BY <1>2 DEF RowsInv, AnswersNamed
  <2> QED BY <2>1 DEF RowsInv, AnswersNamed
<1>6. /\ \A k \in 1..Len(transcript) : transcript[k].role = "user" => transcript[k].of # asked
      /\ \A i \in 1..Len(log) : ~RowOf(i, "import", "user", asked)
  BY DEF NewQuestion, Unheard, Asks, HasRow
<1>7. QuestionsNamed'
  <2> SUFFICES ASSUME NEW k \in 1..Len(transcript'), transcript'[k].role = "user"
               PROVE  /\ \A m \in 1..Len(transcript') :
                           transcript'[m].role = "user" /\ transcript'[m].of = transcript'[k].of
                           => transcript'[m].native = transcript'[k].native
                      /\ \A i \in 1..Len(log) : RowOf(i, "import", "user", transcript'[k].of) =>
                           log[i].native = transcript'[k].native
                      /\ echoes => \A i \in 1..Len(log) :
                           RowOf(i, "live", "user", transcript'[k].of) =>
                             log[i].id = transcript'[k].native
    BY DEF QuestionsNamed, Asks, RowOf
  <2>1. CASE k \in 1..Len(transcript) /\ transcript'[k] = transcript[k]
    <3>1. transcript[k].of # asked
      BY <1>6, <2>1
    <3> QED BY <1>2, <2>1, <3>1 DEF RowsInv, QuestionsNamed, Asks
  <2>2. CASE transcript'[k].of = asked /\ transcript'[k].native = name
    BY <1>2, <1>6, <2>2 DEF NewQuestion
  <2> QED BY <1>2, <2>1, <2>2
<1>8. ASSUME NEW m, m # asked, Unheard(m) PROVE Unheard(m)'
  <2>1. \A k \in 1..Len(transcript') : ~(transcript'[k].role = "user" /\ transcript'[k].of = m)
    BY <1>2, <1>8 DEF Unheard, Asks
  <2> QED BY <1>8, <2>1 DEF Unheard, Asks, HasRow, RowOf
<1> QED BY <1>3, <1>4, <1>5, <1>7, <1>8 DEF RowsInv

LEMMA HearsOnce ==
  ASSUME ReadInv, OnceInv, AgentHears
  PROVE  OnceInv'
<1> DEFINE name == IF echoes THEN agent.id ELSE Id("user", agent.of)
           e == [role |-> "user", of |-> agent.of, native |-> name]
<1>1. LogInv /\ TypeOK /\ agent \in AskStates /\ agent.of \in Nat
  BY DEF ReadInv, LogInv, PlaceInv, TypeOK, AskStates
<1>2. /\ UNCHANGED <<echoes, log, texts, live, sync>> /\ agent.at = "asked"
      /\ agent'.at = "heard" /\ agent'.of = agent.of
      /\ transcript' = Append(transcript, e)
  BY <1>1 DEF AgentHears, UnchangedByAgent, AskStates
<1>3. e \in Entries /\ name \in Idents
  BY <1>1, IdTypes DEF Entries, Roles, AskStates
<1>4. NewQuestion(agent.of, name)
  BY <1>2 DEF OnceInv, UnsentUnheard, TurnWrites, NewQuestion
<1> HIDE DEF name
<1>5. e.role = "user" /\ e.of = agent.of /\ e.native = name
  OBVIOUS
<1> HIDE DEF e
<1>6. <<e>> \in Seq(Entries) /\ transcript' = transcript \o <<e>>
  <2>1. transcript \in Seq(Entries)
    BY <1>1, LogTypes
  <2>2. <<e>> \in Seq(Entries)
    BY <1>3
  <2>3. Append(transcript, e) = transcript \o <<e>>
    BY <1>3, <2>1
  <2> QED BY <1>2, <2>2, <2>3
<1>7. Grows(<<e>>, agent.of, name)
  BY <1>5, <1>6 DEF Grows
<1>8. /\ RowsInv'
      /\ \A m : m # agent.of /\ Unheard(m) => Unheard(m)'
  <2>1. Len(texts) \in Nat /\ Len(texts') \in Nat /\ Len(texts) <= Len(texts')
    BY <1>1, <1>2 DEF TypeOK
  <2>2. RowsInv
    BY DEF OnceInv, RowsInv
  <2>3. UNCHANGED <<echoes, log>>
    BY <1>2
  <2> QED BY <1>1, <2>1, <2>2, <2>3, <1>4, <1>6, <1>7, GrowOnce
<1>9. UnsentUnheard'
  <2>1. Unsent => \A m : m = live.of => Unheard(m)'
    BY <1>2, <1>8 DEF OnceInv, UnsentUnheard
  <2>2. Unsent' => Unheard(live.of)'
    BY <1>2, <2>1 DEF Unheard, Unsent
  <2> QED BY <1>2, <2>2 DEF OnceInv, UnsentUnheard, Unsent
<1>10. TurnWrites'
  BY <1>2 DEF OnceInv, TurnWrites, Unsent, HasRow, RowOf
<1> QED BY <1>2, <1>8, <1>9, <1>10, MissesStay DEF OnceInv, RowsInv

LEMMA AnswersOnce ==
  ASSUME ReadInv, OnceInv, AgentAnswers
  PROVE  OnceInv'
<1> DEFINE e == [role |-> "agent", native |-> Id("agent", agent.of), of |-> agent.of]
<1>1. LogInv /\ TypeOK /\ agent.of \in Nat /\ live \in LiveStates
  BY DEF ReadInv, LogInv, PlaceInv, TypeOK, AskStates
<1>2. /\ UNCHANGED <<echoes, log, texts, sync>> /\ agent.at = "heard"
      /\ agent'.at = "idle"
      /\ live'.at = live.at /\ live'.of = live.of /\ live'.id = live.id
      /\ transcript' = Append(transcript, e)
  BY <1>1 DEF AgentAnswers, UnchangedByAgent, LiveStates, NoAsk
<1>3. e \in Entries
  BY <1>1, IdTypes DEF Entries, Roles
<1>4. e.role = "agent" /\ e.native = Id("agent", e.of)
  OBVIOUS
<1> HIDE DEF e
<1>5. <<e>> \in Seq(Entries) /\ transcript' = transcript \o <<e>>
  <2>1. transcript \in Seq(Entries)
    BY <1>1, LogTypes
  <2>2. <<e>> \in Seq(Entries)
    BY <1>3
  <2>3. Append(transcript, e) = transcript \o <<e>>
    BY <1>3, <2>1
  <2> QED BY <1>2, <2>2, <2>3
<1>6. PICK other : other = Len(texts) + 1
  OBVIOUS
<1>7. Len(texts) \in Nat /\ other \notin Said /\ other \notin 0..Len(texts)
  BY <1>1, <1>6 DEF TypeOK, Said
<1>8. NewQuestion(other, NoId)
  BY <1>1, <1>7 DEF NewQuestion, Unheard, Asks, HasRow, RowOf, LogInv, PlaceInv,
                    RefersToSaid, OnceInv, RowsSaid
<1>9. Grows(<<e>>, other, NoId)
  BY <1>4, <1>5 DEF Grows
<1>10. /\ RowsInv'
       /\ \A m : m # other /\ Unheard(m) => Unheard(m)'
  <2>1. Len(texts) \in Nat /\ Len(texts') \in Nat /\ Len(texts) <= Len(texts')
    BY <1>1, <1>2 DEF TypeOK
  <2>2. RowsInv
    BY DEF OnceInv, RowsInv
  <2>3. UNCHANGED <<echoes, log>>
    BY <1>2
  <2> QED BY <1>1, <1>5, <1>8, <1>9, <2>1, <2>2, <2>3, GrowOnce
<1>11. UnsentUnheard'
  <2>1. live.at # "idle" => live.of # other
    BY <1>1, <1>7 DEF LogInv, PlaceInv, RefersToSaid
  <2>2. Unsent => \A m : m = live.of => Unheard(m)'
    BY <1>10, <2>1 DEF OnceInv, UnsentUnheard, Unsent
  <2>3. Unsent' => Unheard(live.of)'
    BY <1>2, <2>2 DEF Unheard, Unsent
  <2> QED BY <1>2, <2>3 DEF UnsentUnheard
<1>12. TurnWrites'
  BY <1>2 DEF OnceInv, TurnWrites, Unsent, HasRow, RowOf
<1> QED BY <1>2, <1>10, <1>11, <1>12, MissesStay DEF OnceInv, RowsInv

LEMMA ElsewhereOnce ==
  ASSUME ReadInv, OnceInv, SpokenElsewhere
  PROVE  OnceInv'
<1> DEFINE n == Len(texts) + 1
           q == [role |-> "user", native |-> Id("user", n), of |-> n]
           a == [role |-> "agent", native |-> Id("agent", n), of |-> n]
           s == <<q, a>>
<1>1. LogInv /\ TypeOK /\ texts \in Seq(Nat) /\ Len(texts) \in Nat /\ n \in Nat
  BY DEF ReadInv, LogInv, PlaceInv, TypeOK
<1>2. /\ UNCHANGED <<echoes, log, sync, live, agent>> /\ agent.at = "idle"
      /\ texts' = Append(texts, n) /\ transcript' = transcript \o s
  BY DEF SpokenElsewhere, UnchangedByAgent
<1>3. Len(texts') = n /\ n \notin Said /\ n \notin 0..Len(texts)
  BY <1>1, <1>2 DEF Said
<1> HIDE DEF n
<1>4. q \in Entries /\ a \in Entries
  BY <1>1, IdTypes DEF Entries, Roles
<1>5. /\ q.role = "user" /\ q.of = n /\ q.native = Id("user", n)
      /\ a.role = "agent" /\ a.native = Id("agent", a.of)
  OBVIOUS
<1> HIDE DEF q, a
<1>6. s \in Seq(Entries) /\ Len(s) = 2 /\ s[1] = q /\ s[2] = a
  BY <1>4
<1> HIDE DEF s
<1>7. Grows(s, n, Id("user", n))
  BY <1>2, <1>5, <1>6 DEF Grows
<1>8. NewQuestion(n, Id("user", n))
  BY <1>1, <1>3 DEF NewQuestion, Unheard, Asks, HasRow, RowOf, LogInv, PlaceInv,
                    RefersToSaid, OnceInv, RowsSaid
<1>9. /\ RowsInv'
      /\ \A m : m # n /\ Unheard(m) => Unheard(m)'
  <2>1. Len(texts') \in Nat /\ Len(texts) <= Len(texts')
    BY <1>1, <1>3 DEF n
  <2> QED BY <1>1, <1>2, <1>6, <1>7, <1>8, <2>1, GrowOnce DEF OnceInv, RowsInv
<1>10. UnsentUnheard'
  <2>1. live.at # "idle" => live.of # n
    BY <1>1, <1>3 DEF LogInv, PlaceInv, RefersToSaid
  <2>2. Unsent => \A m : m = live.of => Unheard(m)'
    BY <1>9, <2>1 DEF OnceInv, UnsentUnheard, Unsent
  <2>3. Unsent' => Unheard(live.of)'
    BY <1>2, <2>2 DEF Unheard, Unsent
  <2> QED BY <1>2, <2>3 DEF UnsentUnheard
<1>11. TurnWrites'
  BY <1>2 DEF OnceInv, TurnWrites, Unsent, HasRow, RowOf
<1> QED BY <1>2, <1>9, <1>10, <1>11, MissesStay DEF OnceInv, RowsInv

(* The agent stops, and the process dies.                                  *)
LEMMA StopsOnce ==
  ASSUME ReadInv, OnceInv, AgentStops
  PROVE  OnceInv'
<1>1. UNCHANGED <<echoes, log, transcript, texts, live, sync>> /\ agent'.at = "idle"
  BY DEF AgentStops, UnchangedByAgent, NoAsk
<1> QED BY <1>1, MissesStay, QuietOnce DEF TurnGoesOn, AgentIsAsked

LEMMA CrashOnce ==
  ASSUME ReadInv, OnceInv, Crash
  PROVE  OnceInv'
<1>1. /\ UNCHANGED <<echoes, log, texts>>
      /\ live'.at = "idle" /\ sync'.at = "idle"
      /\ \/ UNCHANGED <<agent, transcript>>
         \/ agent'.at = "idle" /\ transcript' = <<>>
  BY DEF Crash, NoTurn, NoSync, NoAsk, agentVars
<1>2. ImportMisses'
  BY <1>1 DEF ImportMisses
<1>3. CASE UNCHANGED <<agent, transcript>>
  BY <1>1, <1>2, <1>3, QuietOnce DEF TurnGoesOn, AgentIsAsked
<1>4. CASE agent'.at = "idle" /\ transcript' = <<>>
  <2>1. RowsSaid' /\ StoredOnce'
    BY <1>1 DEF OnceInv, RowsSaid, StoredOnce
  <2>2. Len(transcript') = 0
    BY <1>4
  <2>3. AnswersNamed' /\ QuestionsNamed'
    BY <1>1, <2>2 DEF OnceInv, AnswersNamed, QuestionsNamed
  <2> QED BY <1>1, <1>2, <1>4, <2>1, <2>3 DEF OnceInv, UnsentUnheard, Unsent, TurnWrites
<1> QED BY <1>1, <1>3, <1>4

LEMMA OnceInductive ==
  ASSUME ReadInv, OnceInv, [Next]_vars
  PROVE  OnceInv'
<1>1. CASE LiveStep
  BY <1>1, BeginOnce, UserRowOnce, AgentRowOnce, TurnOnce DEF LiveStep
<1>2. CASE AgentStep
  BY <1>2, HearsOnce, AnswersOnce, StopsOnce, ElsewhereOnce DEF AgentStep
<1>3. CASE SyncStep
  BY <1>3, SyncOnce
<1>4. CASE Crash
  BY <1>4, CrashOnce
<1>5. CASE UNCHANGED vars
  <2>1. UNCHANGED <<echoes, log, transcript, texts, live, agent, sync>>
    BY <1>5 DEF vars
  <2> QED BY <2>1, MissesStay, QuietOnce DEF TurnGoesOn, AgentIsAsked
<1> QED BY <1>1, <1>2, <1>3, <1>4, <1>5 DEF Next

(* However turns, imports, failed writes and crashes interleave, a message *)
(* is stored at most once by the turns and at most once by the imports,    *)
(* and a user's words not by both if the agent repeats the id a prompt     *)
(* came with: appendImportedExchange's look at what is recorded, outside   *)
(* the mutex under which rows are appended, is enough for that.            *)
THEOREM StoredOnceCorrect == Spec => []StoredOnce
<1>1. OnceInv => StoredOnce
  BY DEF OnceInv
<1>2. ReadInv /\ OnceInv /\ [Next]_vars => OnceInv'
  BY OnceInductive
<1> QED BY <1>1, <1>2, OnceInit, ReadsCorrect, PTL DEF Spec
=============================================================================
