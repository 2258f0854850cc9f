-------------------------- MODULE SubAgents_proofs --------------------------
(* Theorems of SubAgents for any number of turns, children and stops.      *)
EXTENDS SubAgents, TLAPS

(* A row in the log belongs to an attachment that finish has marked.       *)
RowIsSent == \A a \in Attachments : written[a] <= 1 /\ (written[a] > 0 => att[a].sent)

(* Who is about to write has marked its attachment and not written yet.    *)
WriterHasNotWritten ==
  \A w \in Actors : Working(w, "write") => att[Of(w)].sent /\ written[Of(w)] = 0

(* Nobody else is about to write the same row.                             *)
OneWriter ==
  \A v, w \in Actors :
    Working(v, "write") /\ Working(w, "write") /\ Of(v) = Of(w) => v = w

Rows == RowIsSent /\ WriterHasNotWritten /\ OneWriter

-----------------------------------------------------------------------------
(* What an actor at work is at work on.                                    *)
LEMMA JobLemma ==
  ASSUME TypeOK, NEW w \in Actors, job[w].at # "idle"
  PROVE  /\ job[w] \in Jobs /\ Of(w) \in Attachments
         /\ Of(w)[1] \in Turns /\ ChildOf(w) \in Children
         /\ Of(w) = <<Of(w)[1], ChildOf(w)>>
         /\ att[Of(w)] \in AttStates
<1>1. job[w] \in Jobs
  BY DEF TypeOK, Idle
<1>2. Of(w) \in Turns \X Children
  BY <1>1 DEF Jobs, Of, Attachments
<1>3. Of(w)[1] \in Turns /\ ChildOf(w) \in Children /\ Of(w) = <<Of(w)[1], ChildOf(w)>>
  BY <1>2 DEF Of, ChildOf
<1> QED BY <1>1, <1>2, <1>3 DEF TypeOK, Attachments

LEMMA TaskLemma ==
  ASSUME NEW a \in Attachments, NEW at \in Steps
  PROVE  Task(a, at) \in Jobs /\ Task(a, at).of = a /\ Task(a, at).at = at
BY DEF Task, Jobs, Thens, Ids

(* The steps that give an actor other work keep the work well typed.       *)
LEMMA BecomeLemma ==
  ASSUME TypeOK, NEW w \in Actors, NEW task \in Jobs \cup {Idle}, Become(w, task)
  PROVE  /\ job' \in [Actors -> Jobs \cup {Idle}]
         /\ job'[w] = task
         /\ \A v \in Actors : v # w => job'[v] = job[v]
BY DEF TypeOK, Become

LEMMA GotoLemma ==
  ASSUME TypeOK, NEW w \in Actors, job[w].at # "idle", NEW at \in Steps, Goto(w, at)
  PROVE  /\ job' \in [Actors -> Jobs \cup {Idle}]
         /\ job'[w].at = at /\ job'[w].of = job[w].of
         /\ \A v \in Actors : v # w => job'[v] = job[v]
<1>1. job[w] \in Jobs
  BY JobLemma
<1>2. [job[w] EXCEPT !.at = at] \in Jobs
  BY <1>1 DEF Jobs
<1>3. job' = [job EXCEPT ![w] = [job[w] EXCEPT !.at = at]]
  BY DEF Goto
<1> QED BY <1>1, <1>2, <1>3 DEF TypeOK, Jobs

LEMMA AfterLemma ==
  ASSUME TypeOK, NEW w \in Actors, job[w].at # "idle"
  PROVE  After(w) \in Jobs \cup {Idle} /\ After(w).at # "write"
<1>1. job[w] \in Jobs /\ Of(w) \in Attachments
  BY JobLemma
<1>2. job[w].then \in Thens
  BY <1>1 DEF Jobs
<1>3. CASE job[w].then = "idle"
  BY <1>3 DEF After, Idle
<1>4. CASE job[w].then # "idle"
  <2>1. job[w].then \in Steps /\ job[w].then # "write"
    BY <1>2, <1>4 DEF Thens, Steps
  <2> QED BY <1>1, <1>4, <2>1, TaskLemma DEF After
<1> QED BY <1>3, <1>4

(* The operations of the hub on a child's entry.                           *)
LEMMA EntryTypes ==
  ASSUME TypeOK, NEW c \in Children, NEW id \in Ids \cup {NoTurn}
  PROVE  /\ Ensure(entry[c]) \in Entries(Ids, {})
         /\ SetPending(entry[c], id) \in Entries(Ids, {})
         /\ Clear(entry[c], id) \in Entries(Ids, {})
<1>1. entry[c] \in Entries(Ids, {})
  BY DEF TypeOK
<1>2. Ensure(entry[c]) \in Entries(Ids, {})
  BY <1>1 DEF Entries, Ensure
<1>3. SetPending(entry[c], id) \in Entries(Ids, {})
  BY <1>1 DEF Entries, SetPending, Ensure
<1>4. Clear(entry[c], id) \in Entries(Ids, {})
  BY <1>1 DEF Entries, Clear, Absent
<1> QED BY <1>2, <1>3, <1>4

LEMMA ActorTypes ==
  /\ Agent \in Actors
  /\ \A t \in Turns : t \in Actors /\ t \in Nat /\ t # 0
  /\ \A s \in Stops : s \in Actors
  /\ \A t \in Turns, c \in Children : <<t, c>> \in Attachments
BY SubAgentsAssumption DEF Actors, Turns, Attachments

-----------------------------------------------------------------------------
(* Every step keeps the variables well typed.                              *)
LEMMA OpeningTypes ==
  ASSUME TypeOK, AgentStep \/ \E c \in Children : Attach(c)
  PROVE  TypeOK'
<1> USE DEF stopTraces
<1>1. ASSUME NEW c \in Children, Attach(c)
      PROVE  TypeOK'
  <2> DEFINE a == <<handler, c>>
  <2>1. a \in Attachments /\ Agent \in Actors
    BY <1>1, ActorTypes DEF Attach, TypeOK
  <2>2. Task(a, "register") \in Jobs
    BY <2>1, TaskLemma DEF Steps, Opening
  <2>3. job' \in [Actors -> Jobs \cup {Idle}]
    BY <1>1, <2>1, <2>2, BecomeLemma DEF Attach
  <2>4. Mint(c) \in Ids
    BY DEF TypeOK, Mint, Ids
  <2>5. att' \in [Attachments -> AttStates]
    <3>1. att' = [att EXCEPT ![a] = [att[a] EXCEPT !.id = Mint(c)]]
      BY <1>1 DEF Attach
    <3> HIDE DEF a
    <3>2. att \in [Attachments -> AttStates] /\ att[a] \in AttStates
      BY <2>1 DEF TypeOK
    <3>3. [att[a] EXCEPT !.id = Mint(c)] \in AttStates
      BY <2>4, <3>2 DEF AttStates
    <3> DEFINE minted == [att[a] EXCEPT !.id = Mint(c)]
    <3>4. minted \in AttStates /\ att' = [att EXCEPT ![a] = minted]
      BY <3>1, <3>3
    <3> HIDE DEF minted
    <3> QED BY <2>1, <3>2, <3>4
  <2> QED BY <1>1, <2>3, <2>5
          DEF Attach, TypeOK, turnVars, stopVars, activeVars, logVars
<1>2. ASSUME Register
      PROVE  TypeOK'
  <2>1. ChildOf(Agent) \in Children /\ Of(Agent)[1] \in Turns
    BY <1>2, ActorTypes, JobLemma DEF Register, Working
  <2>2. job' \in [Actors -> Jobs \cup {Idle}]
    BY <1>2, ActorTypes, GotoLemma DEF Register, Working, Steps, Opening
  <2> QED BY <1>2, <2>1, <2>2 DEF Register, TypeOK, turnVars, stopVars, logVars
<1>3. ASSUME Bind
      PROVE  TypeOK'
  <2>1. job' \in [Actors -> Jobs \cup {Idle}]
    BY <1>3, ActorTypes, GotoLemma DEF Bind, Working, Steps, Opening
  <2> QED BY <1>3, <2>1 DEF Bind, TypeOK, turnVars, stopVars, logVars
<1>4. ASSUME Light
      PROVE  TypeOK'
  <2>1. /\ ChildOf(Agent) \in Children /\ Of(Agent)[1] \in Turns
        /\ att[Of(Agent)] \in AttStates
    BY <1>4, ActorTypes, JobLemma DEF Light, Working
  <2>2. SetPending(entry[ChildOf(Agent)], att[Of(Agent)].id) \in Entries(Ids, {})
    BY <2>1, EntryTypes DEF AttStates
  <2>3. job' \in [Actors -> Jobs \cup {Idle}]
    BY <1>4, ActorTypes, GotoLemma DEF Light, Working, Steps, Opening
  <2>4. entry' \in [Children -> Entries(Ids, {})]
    BY <1>4, <2>1, <2>2 DEF Light, TypeOK
  <2>5. lit' \in [Children -> Turns \cup {0}]
    BY <1>4, <2>1 DEF Light, TypeOK
  <2> QED BY <1>4, <2>3, <2>4, <2>5
          DEF Light, TypeOK, turnVars, stopVars, activeVars, logVars
<1>5. ASSUME Enlist
      PROVE  TypeOK'
  <2>1. Of(Agent) \in Attachments /\ att[Of(Agent)] \in AttStates
    BY <1>5, ActorTypes, JobLemma DEF Enlist, Working
  <2>2. Task(Of(Agent), "emit") \in Jobs
    BY <2>1, TaskLemma DEF Steps
  <2>3. job' \in [Actors -> Jobs \cup {Idle}]
    BY <1>5, <2>2, ActorTypes, BecomeLemma DEF Enlist
  <2>4. att' \in [Attachments -> AttStates]
    BY <1>5, <2>1 DEF Enlist, TypeOK, AttStates
  <2> QED BY <1>5, <2>3, <2>4 DEF Enlist, TypeOK, turnVars, stopVars, activeVars, logVars
<1>6. ASSUME Emit \/ EmitSummary
      PROVE  TypeOK'
  <2>1. ChildOf(Agent) \in Children
    BY <1>6, ActorTypes, JobLemma DEF Emit, EmitSummary, Working
  <2>2. entry' \in [Children -> Entries(Ids, {})]
    BY <1>6, <2>1, EntryTypes DEF Emit, EmitSummary, TypeOK
  <2>3. job' \in [Actors -> Jobs \cup {Idle}]
    <3>1. CASE Emit
      BY <3>1, ActorTypes, BecomeLemma DEF Emit
    <3>2. CASE EmitSummary
      BY <3>2, ActorTypes, GotoLemma DEF EmitSummary, Working, Steps
    <3> QED BY <1>6, <3>1, <3>2
  <2> QED BY <1>6, <2>2, <2>3
          DEF Emit, EmitSummary, TypeOK, turnVars, stopVars, activeVars, logVars
<1> QED BY <1>1, <1>2, <1>3, <1>4, <1>5, <1>6 DEF AgentStep

LEMMA UpdateTypes ==
  ASSUME TypeOK, NEW c \in Children, Streams(c) \/ Reports(c)
  PROVE  TypeOK'
<1> USE DEF stopTraces
<1> DEFINE a == <<handler, c>>
<1>1. a \in Attachments /\ Agent \in Actors
  BY ActorTypes DEF Streams, Reports, Known, TypeOK
<1>2. \A at \in {"emit", "report", "finish"} :
         Task(a, at) \in Jobs /\ [Task(a, at) EXCEPT !.then = "enter"] \in Jobs
  BY <1>1 DEF Task, Jobs, Steps, Thens
<1>3. job' \in [Actors -> Jobs \cup {Idle}]
  <2>1. CASE Streams(c)
    BY <2>1, <1>1, <1>2, BecomeLemma DEF Streams
  <2>2. CASE Reports(c)
    <3>1. PICK at \in {"report", "finish"} :
            Become(Agent, [Task(a, at) EXCEPT !.then = "enter"])
      BY <2>2 DEF Reports
    <3>2. [Task(a, at) EXCEPT !.then = "enter"] \in Jobs
      BY <1>2
    <3> QED BY <1>1, <3>1, <3>2, BecomeLemma
  <2> QED BY <2>1, <2>2
<1> QED BY <1>3 DEF Streams, Reports, TypeOK, turnVars, stopVars, activeVars, logVars

LEMMA StepTypes ==
  ASSUME TypeOK, NEW w \in Actors, Step(w)
  PROVE  TypeOK'
<1> USE DEF stopTraces
<1>1. job[w].at # "idle"
  BY DEF Step, Enter, Mark, Finish, Write, WriteFails, Frame, Gate, ClearPending, Cut, Working
<1>2. /\ job[w] \in Jobs /\ Of(w) \in Attachments
      /\ ChildOf(w) \in Children /\ att[Of(w)] \in AttStates
      /\ After(w) \in Jobs \cup {Idle}
  BY <1>1, JobLemma, AfterLemma
<1>3. ASSUME Enter(w)
      PROVE  TypeOK'
  <2>1. Task(Of(w), "mark") \in Jobs
    BY <1>2, TaskLemma DEF Steps
  <2>2. job' \in [Actors -> Jobs \cup {Idle}]
    BY <1>3, <2>1, BecomeLemma DEF Enter
  <2> QED BY <1>3, <2>2 DEF Enter, TypeOK, turnVars, stopVars, activeVars, logVars
<1>4. ASSUME Mark(w)
      PROVE  TypeOK'
  <2>1. job' \in [Actors -> Jobs \cup {Idle}]
    BY <1>1, <1>4, GotoLemma DEF Mark, Steps
  <2>2. att' \in [Attachments -> AttStates]
    BY <1>2, <1>4 DEF Mark, TypeOK, AttStates
  <2> QED BY <1>4, <2>1, <2>2 DEF Mark, TypeOK, turnVars, stopVars, activeVars, logVars
<1>5. ASSUME Finish(w)
      PROVE  TypeOK'
  <2>1. job' \in [Actors -> Jobs \cup {Idle}]
    BY <1>1, <1>5, GotoLemma DEF Finish, Steps
  <2>2. att' \in [Attachments -> AttStates]
    BY <1>2, <1>5 DEF Finish, TypeOK, AttStates
  <2> QED BY <1>5, <2>1, <2>2 DEF Finish, TypeOK, turnVars, stopVars, activeVars, logVars
<1>6. ASSUME Write(w)
      PROVE  TypeOK'
  <2>1. job' \in [Actors -> Jobs \cup {Idle}]
    BY <1>1, <1>6, GotoLemma DEF Write, Steps
  <2>2. rows' \in [Children -> Nat] /\ written' \in [Attachments -> Nat]
    BY <1>2, <1>6 DEF Write, TypeOK
  <2> QED BY <1>6, <2>1, <2>2 DEF Write, TypeOK, turnVars, stopVars, activeVars
<1>7. ASSUME WriteFails(w)
      PROVE  TypeOK'
  <2>1. job' \in [Actors -> Jobs \cup {Idle}]
    BY <1>1, <1>7, GotoLemma DEF WriteFails, Steps
  <2>2. spoiled' \subseteq Attachments
    BY <1>2, <1>7 DEF WriteFails, TypeOK
  <2> QED BY <1>7, <2>1, <2>2 DEF WriteFails, TypeOK, turnVars, stopVars, activeVars, logVars
<1>8. ASSUME Frame(w)
      PROVE  TypeOK'
  <2>1. [job[w] EXCEPT !.at = "gate", !.id = att[Of(w)].noted] \in Jobs
    BY <1>2 DEF Jobs, Steps, AttStates
  <2>2. job' \in [Actors -> Jobs \cup {Idle}]
    BY <1>8, <2>1, BecomeLemma DEF Frame
  <2>3. entry' \in [Children -> Entries(Ids, {})]
    BY <1>2, <1>8, EntryTypes DEF Frame, TypeOK
  <2> QED BY <1>8, <2>2, <2>3 DEF Frame, TypeOK, turnVars, stopVars, activeVars, logVars
<1>9. ASSUME Gate(w)
      PROVE  TypeOK'
  <2>1. [job[w] EXCEPT !.at = "clear"] \in Jobs
    BY <1>2 DEF Jobs, Steps
  <2>2. job' \in [Actors -> Jobs \cup {Idle}]
    BY <1>2, <1>9, <2>1, BecomeLemma DEF Gate
  <2> QED BY <1>9, <2>2 DEF Gate, TypeOK, turnVars, stopVars, activeVars, logVars
<1>10. ASSUME ClearPending(w)
       PROVE  TypeOK'
  <2>1. job' \in [Actors -> Jobs \cup {Idle}]
    BY <1>2, <1>10, BecomeLemma DEF ClearPending
  <2>2. job[w].id \in Ids \cup {NoTurn}
    BY <1>2 DEF Jobs
  <2>3. entry' \in [Children -> Entries(Ids, {})]
    BY <1>2, <1>10, <2>2, EntryTypes DEF ClearPending, TypeOK
  <2> QED BY <1>10, <2>1, <2>3
          DEF ClearPending, TypeOK, turnVars, stopVars, activeVars, logVars
<1>11. ASSUME Cut(w)
       PROVE  TypeOK'
  <2>1. [job[w] EXCEPT !.at = "gate", !.id = att[Of(w)].id, !.then = "idle"] \in Jobs
    BY <1>2 DEF Jobs, Steps, AttStates, Thens
  <2>2. job' \in [Actors -> Jobs \cup {Idle}]
    BY <1>11, <2>1, BecomeLemma DEF Cut
  <2>3. robbed' \subseteq Attachments
    <3>1. CASE Robs(w)
      <4>1. reg[ChildOf(w)] \in Turns
        BY <1>1, <1>2, <3>1, JobLemma, ActorTypes DEF Robs, TypeOK
      <4> QED BY <1>2, <1>11, <4>1, ActorTypes DEF Cut, TypeOK
    <3>2. CASE ~Robs(w)
      BY <1>11, <3>2 DEF Cut, TypeOK
    <3> QED BY <3>1, <3>2
  <2> QED BY <1>2, <1>11, <2>2, <2>3 DEF Cut, TypeOK, turnVars, stopVars, logVars
<1> QED BY <1>3, <1>4, <1>5, <1>6, <1>7, <1>8, <1>9, <1>10, <1>11 DEF Step

LEMMA TurnTypes ==
  ASSUME TypeOK, NEW t \in Turns, StartTurn(t) \/ TurnStep(t)
  PROVE  TypeOK'
<1> USE DEF turnVars, stopVars, activeVars, logVars, stopTraces
<1>1. ASSUME StartTurn(t)
      PROVE  TypeOK'
  BY <1>1 DEF StartTurn, SetPhase, TypeOK
<1>2. Listed(t) \subseteq Children
  BY DEF Listed
<1>3. ASSUME EndTurn(t) \/ ReturnTurn(t) \/ Snapshot(t) \/ Drained(t)
      PROVE  TypeOK'
  BY <1>2, <1>3 DEF EndTurn, ReturnTurn, Snapshot, Drained, SetPhase, TypeOK
<1>4. ASSUME FinishChild(t)
      PROVE  TypeOK'
  <2>1. PICK c \in todo[t] : /\ todo' = [todo EXCEPT ![t] = @ \ {c}]
                             /\ Become(t, Task(<<t, c>>, "enter"))
    BY <1>4 DEF FinishChild
  <2>2. t \in Actors /\ <<t, c>> \in Attachments
    BY ActorTypes DEF TypeOK
  <2>3. Task(<<t, c>>, "enter") \in Jobs
    BY <2>2, TaskLemma DEF Steps
  <2>4. job' \in [Actors -> Jobs \cup {Idle}]
    BY <2>1, <2>2, <2>3, BecomeLemma
  <2> QED BY <1>4, <2>1, <2>4 DEF FinishChild, TypeOK
<1>5. ASSUME DrainChild(t)
      PROVE  TypeOK'
  <2> DEFINE task(c) == [at |-> "gate", of |-> <<t, c>>, id |-> att[<<t, c>>].noted,
                         then |-> "idle"]
  <2>1. PICK c \in todo[t] : /\ todo' = [todo EXCEPT ![t] = @ \ {c}]
                             /\ Become(t, task(c))
    BY <1>5 DEF DrainChild
  <2>2. t \in Actors /\ <<t, c>> \in Attachments
    BY ActorTypes DEF TypeOK
  <2>3. att[<<t, c>>].noted \in Ids \cup {NoTurn}
    BY <2>2 DEF TypeOK, AttStates
  <2>4. task(c) \in Jobs
    BY <2>2, <2>3 DEF Jobs, Steps, Thens
  <2> HIDE DEF task
  <2>5. job' \in [Actors -> Jobs \cup {Idle}]
    BY <2>1, <2>2, <2>4, BecomeLemma
  <2> QED BY <1>5, <2>1, <2>5 DEF DrainChild, TypeOK
<1> QED BY <1>1, <1>3, <1>4, <1>5 DEF TurnStep

LEMMA StopTypes ==
  ASSUME TypeOK, NEW s \in Stops, Press(s) \/ CarryOut(s)
  PROVE  TypeOK'
<1> USE DEF turnVars, stopVars, activeVars, logVars, stopTraces
<1>1. ASSUME Press(s)
      PROVE  TypeOK'
  <2>1. PICK c \in Children : /\ reg[c] # 0
                              /\ asked' = [asked EXCEPT ![s] = {<<reg[c], c>>}]
    BY <1>1 DEF Press
  <2>2. <<reg[c], c>> \in Attachments
    BY <2>1, ActorTypes DEF TypeOK
  <2>3. asked' \in [Stops -> SUBSET Attachments]
    BY <2>1, <2>2 DEF TypeOK
  <2> QED BY <1>1, <2>3 DEF Press, TypeOK
<1>2. ASSUME CarryOut(s)
      PROVE  TypeOK'
  <2>1. PICK a \in asked[s] :
          /\ asked' = [asked EXCEPT ![s] = {}]
          /\ spent' = spent \cup {s}
          /\ job' \in {job, [job EXCEPT ![s] = Task(a, "enter")]}
          /\ spoiled' \in {spoiled, spoiled \cup {a}}
          /\ UNCHANGED <<turnVars, att, entry, activeVars, logVars, lit, robbed>>
    BY <1>2 DEF CarryOut
  <2>2. s \in Actors /\ a \in Attachments
    BY ActorTypes DEF TypeOK
  <2>3. Task(a, "enter") \in Jobs
    BY <2>2, TaskLemma DEF Steps
  <2>4. job' \in [Actors -> Jobs \cup {Idle}]
    BY <2>1, <2>2, <2>3 DEF TypeOK
  <2>5. /\ asked' \in [Stops -> SUBSET Attachments] /\ spent' \subseteq Stops
        /\ spoiled' \subseteq Attachments
    BY <2>1, <2>2 DEF TypeOK
  <2> QED BY <2>1, <2>4, <2>5 DEF TypeOK
<1> QED BY <1>1, <1>2

LEMMA TypeStep ==
  ASSUME TypeOK, [Next]_vars
  PROVE  TypeOK'
<1>1. CASE UNCHANGED vars
  BY <1>1 DEF TypeOK, vars
<1>2. CASE Next
  BY <1>2, OpeningTypes, UpdateTypes, StepTypes, TurnTypes, StopTypes DEF Next
<1> QED BY <1>1, <1>2

LEMMA InitTypes == Init => TypeOK
<1> SUFFICES ASSUME Init PROVE TypeOK
  OBVIOUS
<1>1. Unattached \in AttStates
  BY DEF Unattached, AttStates
<1>2. Absent \in Entries(Ids, {})
  BY DEF Absent, Entries
<1> QED BY <1>1, <1>2 DEF Init, TypeOK

(* The variables keep their types: whatever order the reader, the turns    *)
(* and the stops act in, an entry stays an entry of the hub, a child is    *)
(* registered for a turn or for none, and a stop names a real attachment.  *)
THEOREM SubAgentsTypeCorrect == Spec => []TypeOK
<1>1. TypeOK /\ [Next]_vars => TypeOK'
  BY TypeStep
<1> QED BY InitTypes, <1>1, PTL DEF Spec

-----------------------------------------------------------------------------
(* A step that writes no row and sends nobody to write one.                *)
Quiet ==
  /\ UNCHANGED written
  /\ \A a \in Attachments : att[a].sent => att'[a].sent
  /\ \A v \in Actors : job'[v].at = "write" => job'[v] = job[v]

LEMMA QuietKeepsRows ==
  ASSUME TypeOK, Rows, Quiet
  PROVE  Rows'
<1>1. \A v \in Actors : Working(v, "write")' =>
        /\ Working(v, "write") /\ Of(v)' = Of(v) /\ Of(v) \in Attachments
  BY JobLemma DEF Quiet, Working, Of
<1>2. RowIsSent' /\ WriterHasNotWritten'
  BY <1>1 DEF Quiet, Rows, RowIsSent, WriterHasNotWritten
<1>3. OneWriter'
  BY <1>1 DEF Rows, OneWriter
<1> QED BY <1>2, <1>3 DEF Rows

(* One actor takes up work that is not writing.                            *)
LEMMA BecomeIsQuiet ==
  ASSUME TypeOK, NEW w \in Actors, NEW task \in Jobs \cup {Idle},
         Become(w, task), task.at # "write", UNCHANGED written,
         \A a \in Attachments : att[a].sent => att'[a].sent
  PROVE  Quiet
BY BecomeLemma DEF Quiet

LEMMA GotoIsQuiet ==
  ASSUME TypeOK, NEW w \in Actors, job[w].at # "idle", NEW at \in Steps,
         Goto(w, at), at # "write", UNCHANGED written,
         \A a \in Attachments : att[a].sent => att'[a].sent
  PROVE  Quiet
BY GotoLemma DEF Quiet

LEMMA AgentIsQuiet ==
  ASSUME TypeOK,
         AgentStep \/ \E c \in Children : Attach(c) \/ Streams(c) \/ Reports(c)
  PROVE  Quiet
<1> USE DEF logVars
<1>1. Agent \in Actors
  BY ActorTypes
<1>2. ASSUME NEW c \in Children, Attach(c) \/ Streams(c) \/ Reports(c)
      PROVE  Quiet
  <2> DEFINE a == <<handler, c>>
  <2>1. a \in Attachments
    BY <1>2, ActorTypes DEF Attach, Streams, Reports, Known, TypeOK
  <2>2. \A b \in Attachments : att[b].sent => att'[b].sent
    <3> HIDE DEF a
    <3>1. CASE Attach(c)
      <4>1. att' = [att EXCEPT ![a] = [att[a] EXCEPT !.id = Mint(c)]]
        BY <3>1 DEF Attach, a
      <4> QED BY <2>1, <4>1 DEF TypeOK, AttStates
    <3>2. CASE Streams(c) \/ Reports(c)
      BY <3>2 DEF Streams, Reports
    <3> QED BY <1>2, <3>1, <3>2
  <2>3. PICK task \in Jobs : Become(Agent, task) /\ task.at # "write"
    <3>1. \A at \in {"register", "emit", "report", "finish"} :
            /\ Task(a, at) \in Jobs /\ Task(a, at).at = at
            /\ [Task(a, at) EXCEPT !.then = "enter"] \in Jobs
            /\ [Task(a, at) EXCEPT !.then = "enter"].at = at
      BY <2>1 DEF Task, Jobs, Steps, Opening, Thens
    <3> HIDE DEF a
    <3>2. CASE Attach(c)
      BY <3>1, <3>2 DEF Attach, a
    <3>3. CASE Streams(c)
      BY <3>1, <3>3 DEF Streams, a
    <3>4. CASE Reports(c)
      <4>1. PICK at \in {"report", "finish"} :
              Become(Agent, [Task(a, at) EXCEPT !.then = "enter"])
        BY <3>4 DEF Reports, a
      <4> QED BY <3>1, <4>1
    <3> QED BY <1>2, <3>2, <3>3, <3>4
  <2>4. UNCHANGED written
    BY <1>2 DEF Attach, Streams, Reports
  <2> QED BY <1>1, <2>2, <2>3, <2>4, BecomeIsQuiet
<1>3. ASSUME AgentStep
      PROVE  Quiet
  <2>1. /\ job[Agent].at # "idle" /\ job[Agent] \in Jobs
        /\ Of(Agent) \in Attachments
    BY <1>1, <1>3, JobLemma
       DEF AgentStep, Register, Bind, Light, Enlist, Emit, EmitSummary, Working
  <2>2. CASE Register \/ Bind \/ Light \/ EmitSummary
    BY <1>1, <2>1, <2>2, GotoIsQuiet
       DEF Register, Bind, Light, EmitSummary, Steps, Opening
  <2>3. CASE Enlist
    <3>1. Task(Of(Agent), "emit") \in Jobs /\ Task(Of(Agent), "emit").at = "emit"
      BY <2>1, TaskLemma DEF Steps
    <3>2. \A b \in Attachments : att[b].sent => att'[b].sent
      BY <2>1, <2>3 DEF Enlist, TypeOK, AttStates
    <3> QED BY <1>1, <2>3, <3>1, <3>2, BecomeIsQuiet DEF Enlist, Idle
  <2>4. CASE Emit
    BY <1>1, <2>4, BecomeIsQuiet DEF Emit, Idle
  <2> QED BY <1>3, <2>2, <2>3, <2>4 DEF AgentStep
<1> QED BY <1>2, <1>3

LEMMA TurnIsQuiet ==
  ASSUME TypeOK, NEW t \in Turns, StartTurn(t) \/ TurnStep(t)
  PROVE  Quiet
<1> USE DEF logVars
<1>1. CASE StartTurn(t) \/ EndTurn(t) \/ ReturnTurn(t) \/ Snapshot(t) \/ Drained(t)
  BY <1>1 DEF StartTurn, EndTurn, ReturnTurn, Snapshot, Drained, Quiet
<1>2. CASE FinishChild(t)
  <2>1. PICK c \in todo[t] : Become(t, Task(<<t, c>>, "enter"))
    BY <1>2 DEF FinishChild
  <2>2. t \in Actors /\ <<t, c>> \in Attachments
    BY ActorTypes DEF TypeOK
  <2>3. Task(<<t, c>>, "enter") \in Jobs /\ Task(<<t, c>>, "enter").at = "enter"
    BY <2>2, TaskLemma DEF Steps
  <2> QED BY <1>2, <2>1, <2>2, <2>3, BecomeIsQuiet DEF FinishChild
<1>3. CASE DrainChild(t)
  <2> DEFINE task(c) == [at |-> "gate", of |-> <<t, c>>, id |-> att[<<t, c>>].noted,
                         then |-> "idle"]
  <2>1. PICK c \in todo[t] : Become(t, task(c))
    BY <1>3 DEF DrainChild
  <2>2. t \in Actors /\ <<t, c>> \in Attachments
    BY ActorTypes DEF TypeOK
  <2>3. att[<<t, c>>].noted \in Ids \cup {NoTurn}
    BY <2>2 DEF TypeOK, AttStates
  <2>4. task(c) \in Jobs /\ task(c).at # "write"
    BY <2>2, <2>3 DEF Jobs, Steps, Thens
  <2> HIDE DEF task
  <2> QED BY <1>3, <2>1, <2>2, <2>4, BecomeIsQuiet DEF DrainChild
<1> QED BY <1>1, <1>2, <1>3 DEF TurnStep

LEMMA StopIsQuiet ==
  ASSUME TypeOK, NEW s \in Stops, Press(s) \/ CarryOut(s)
  PROVE  Quiet
<1> USE DEF logVars
<1>1. CASE Press(s)
  BY <1>1 DEF Press, Quiet
<1>2. CASE CarryOut(s)
  <2>1. PICK a \in asked[s] :
          /\ job' \in {job, [job EXCEPT ![s] = Task(a, "enter")]}
          /\ UNCHANGED <<att, written>>
    BY <1>2 DEF CarryOut
  <2>2. s \in Actors /\ a \in Attachments
    BY ActorTypes DEF TypeOK
  <2>3. Task(a, "enter").at = "enter"
    BY <2>2, TaskLemma DEF Steps
  <2> QED BY <2>1, <2>2, <2>3 DEF Quiet, TypeOK
<1> QED BY <1>1, <1>2

LEMMA StepKeepsRows ==
  ASSUME TypeOK, Rows, NEW w \in Actors, Step(w)
  PROVE  Rows'
<1> USE DEF logVars
<1>1. job[w].at # "idle"
  BY DEF Step, Enter, Mark, Finish, Write, WriteFails, Frame, Gate, ClearPending, Cut, Working
<1>2. /\ job[w] \in Jobs /\ Of(w) \in Attachments /\ att[Of(w)] \in AttStates
      /\ After(w) \in Jobs \cup {Idle} /\ After(w).at # "write"
  BY <1>1, JobLemma, AfterLemma
<1>3. CASE Enter(w)
  <2>1. Task(Of(w), "mark") \in Jobs /\ Task(Of(w), "mark").at = "mark"
    BY <1>2, TaskLemma DEF Steps
  <2>2. Quiet
    BY <1>3, <2>1, BecomeIsQuiet DEF Enter, Idle
  <2> QED BY <2>2, QuietKeepsRows
<1>4. CASE Mark(w)
  <2>1. \A a \in Attachments : att[a].sent => att'[a].sent
    BY <1>2, <1>4 DEF Mark, TypeOK, AttStates
  <2>2. Quiet
    BY <1>1, <1>4, <2>1, GotoIsQuiet DEF Mark, Steps
  <2> QED BY <2>2, QuietKeepsRows
(* The first to come becomes the writer of a row nobody has written.       *)
<1>5. CASE Finish(w)
  <2>1. /\ written' = written
        /\ att'[Of(w)].sent
        /\ \A a \in Attachments : att[a].sent => att'[a].sent
    BY <1>2, <1>5 DEF Finish, TypeOK, AttStates
  <2>2. CASE First(w)
    <3>1. Goto(w, "write")
      BY <1>5, <2>2 DEF Finish
    <3>2. /\ job'[w].at = "write" /\ job'[w].of = job[w].of
          /\ \A v \in Actors : v # w => job'[v] = job[v]
      BY <1>1, <3>1, GotoLemma DEF Steps
    <3>3. ~att[Of(w)].sent /\ written[Of(w)] = 0
      BY <1>2, <2>2 DEF First, Rows, RowIsSent, TypeOK
    <3>4. \A v \in Actors : v # w /\ job'[v].at = "write" =>
            /\ Working(v, "write") /\ Of(v)' = Of(v)
            /\ Of(v) \in Attachments /\ Of(v) # Of(w)
      BY <3>2, <3>3, JobLemma DEF Rows, WriterHasNotWritten, Working, Of
    <3>5. RowIsSent'
      BY <2>1 DEF Rows, RowIsSent
    <3>6. WriterHasNotWritten'
      BY <1>2, <2>1, <3>2, <3>3, <3>4 DEF Rows, WriterHasNotWritten, Working, Of
    <3>7. OneWriter'
      BY <3>2, <3>4 DEF Rows, OneWriter, Working, Of
    <3> QED BY <3>5, <3>6, <3>7 DEF Rows
  <2>3. CASE ~First(w)
    <3>1. PICK at \in {"frame", "cut"} : Goto(w, at)
      BY <1>5, <2>3 DEF Finish
    <3>2. Quiet
      BY <1>1, <2>1, <3>1, GotoIsQuiet DEF Steps
    <3> QED BY <3>2, QuietKeepsRows
  <2> QED BY <2>2, <2>3
(* The writer leaves: its attachment has one row and nobody else to write. *)
<1>6. CASE Write(w)
  <2>1. /\ written' = [written EXCEPT ![Of(w)] = written[Of(w)] + 1]
        /\ att' = att /\ Working(w, "write") /\ Goto(w, "frame")
    BY <1>6 DEF Write
  <2>2. /\ job'[w].at = "frame"
        /\ \A v \in Actors : v # w => job'[v] = job[v]
    BY <1>1, <2>1, GotoLemma DEF Steps
  <2>3. att[Of(w)].sent /\ written[Of(w)] = 0
    BY <2>1 DEF Rows, WriterHasNotWritten
  <2>4. /\ written'[Of(w)] = 1
        /\ \A a \in Attachments : a # Of(w) => written'[a] = written[a]
    BY <1>2, <2>1, <2>3 DEF TypeOK
  <2>5. \A v \in Actors : job'[v].at = "write" =>
          /\ v # w /\ Working(v, "write") /\ Of(v)' = Of(v)
          /\ Of(v) \in Attachments /\ Of(v) # Of(w)
    BY <2>1, <2>2, JobLemma DEF Rows, OneWriter, Working, Of
  <2>6. RowIsSent'
    BY <2>1, <2>3, <2>4 DEF Rows, RowIsSent
  <2>7. WriterHasNotWritten'
    BY <2>1, <2>4, <2>5 DEF Rows, WriterHasNotWritten, Working
  <2>8. OneWriter'
    BY <2>5 DEF Rows, OneWriter, Working
  <2> QED BY <2>6, <2>7, <2>8 DEF Rows
<1>7. CASE WriteFails(w)
  <2>1. Quiet
    BY <1>1, <1>7, GotoIsQuiet DEF WriteFails, Steps
  <2> QED BY <2>1, QuietKeepsRows
<1>8. CASE Frame(w) \/ Gate(w) \/ ClearPending(w) \/ Cut(w)
  <2> DEFINE framed == [job[w] EXCEPT !.at = "gate", !.id = att[Of(w)].noted]
             passed == [job[w] EXCEPT !.at = "clear"]
             cut == [job[w] EXCEPT !.at = "gate", !.id = att[Of(w)].id, !.then = "idle"]
  <2>1. \A task \in {framed, passed, cut} : task \in Jobs /\ task.at # "write"
    <3>1. framed \in Jobs /\ framed.at # "write"
      BY <1>2 DEF Jobs, Steps, AttStates
    <3>2. passed \in Jobs /\ passed.at # "write"
      BY <1>2 DEF Jobs, Steps
    <3>3. cut \in Jobs /\ cut.at # "write"
      BY <1>2 DEF Jobs, Steps, AttStates, Thens
    <3> QED BY <3>1, <3>2, <3>3
  <2>2. PICK task \in {framed, passed, cut, After(w)} : Become(w, task)
    BY <1>8 DEF Frame, Gate, ClearPending, Cut
  <2>3. att' = att /\ written' = written
    BY <1>8 DEF Frame, Gate, ClearPending, Cut
  <2> HIDE DEF framed, passed, cut
  <2>4. task \in Jobs \cup {Idle} /\ task.at # "write"
    BY <1>2, <2>1, <2>2
  <2>5. Quiet
    BY <2>2, <2>3, <2>4, BecomeIsQuiet
  <2> QED BY <2>5, QuietKeepsRows
<1> QED BY <1>3, <1>4, <1>5, <1>6, <1>7, <1>8 DEF Step

LEMMA RowsStep ==
  ASSUME TypeOK, Rows, [Next]_vars
  PROVE  Rows'
<1>1. CASE UNCHANGED vars
  <2>1. Quiet
    BY <1>1 DEF Quiet, vars
  <2> QED BY <2>1, QuietKeepsRows
<1>2. CASE Next
  BY <1>2, AgentIsQuiet, StepKeepsRows, TurnIsQuiet, StopIsQuiet, QuietKeepsRows DEF Next
<1> QED BY <1>1, <1>2

(* The reader, the turn and any number of stops may close a child at once: *)
(* its attachment adds at most one row to the log (doneSent in finish).    *)
THEOREM WrittenOnceCorrect == Spec => []WrittenOnce
<1>1. Init => TypeOK /\ Rows
  <2> SUFFICES ASSUME Init PROVE TypeOK /\ Rows
    OBVIOUS
  <2>1. TypeOK
    BY InitTypes
  <2>2. Rows
    BY DEF Init, Rows, RowIsSent, WriterHasNotWritten, OneWriter, Working, Idle
  <2> QED BY <2>1, <2>2
<1>2. TypeOK /\ Rows /\ [Next]_vars => (TypeOK /\ Rows)'
  BY TypeStep, RowsStep
<1>3. Rows => WrittenOnce
  BY DEF Rows, RowIsSent, WrittenOnce
<1> QED BY <1>1, <1>2, <1>3, PTL DEF Spec

-----------------------------------------------------------------------------
(* OnlyLateStopUnregisters.  The turn that runs is the newest one and the  *)
(* only one whose child is attached or closed, but for stops; who closes   *)
(* its own child has marked it, and the reader, who does one thing at a    *)
(* time, does not close another turn's while it attaches this one's.       *)
Settled == {"settling", "draining", "over"}
Started(t) == phase[t] # "waiting"
Id(t, c) == att[<<t, c>>].id
AtWork(w) == job[w].at # "idle"

TurnsInOrder ==
  /\ \A t, u \in Turns : u < t /\ Started(t) => phase[u] \in Settled
  /\ \A t \in Turns : Started(t) <=> t <= handler
  /\ \A t \in Turns, c \in Children : ~Started(t) => Id(t, c) = NoTurn

(* Whose work it is.                                                       *)
WorkIsOwn ==
  /\ \A w \in Actors : AtWork(w) => Started(Of(w)[1])
  /\ \A t \in Turns : AtWork(t) =>
       /\ Of(t)[1] = t /\ phase[t] \in {"finishing", "draining"}
       /\ phase[t] = "draining" => job[t].at \in {"gate", "clear"} /\ job[t].then = "idle"
  /\ \A s \in Stops : \A a \in asked[s] : Started(a[1])
  /\ \A c \in Children : reg[c] # 0 => Started(reg[c])

(* The reader is behind every later attachment of the child it is at.      *)
ReaderIsNewest ==
  AtWork(Agent) => \A t \in Turns : Of(Agent)[1] < t => Id(t, ChildOf(Agent)) = NoTurn

Attaching(a) == job[Agent].at \in Opening /\ job[Agent].of = a
Noted ==
  \A a \in Attachments : att[a].noted # NoTurn => att[a].id # NoTurn /\ ~Attaching(a)
(* Past the mark of close.                                                 *)
ClosedBeforeCut ==
  \A w \in Actors :
    \/ job[w].at = "cut"
    \/ job[w].at \in {"report", "finish", "write", "frame"} /\ job[w].then # "enter"
    \/ job[w].at \in {"gate", "clear"} /\ job[w].then = "cut"
    => att[Of(w)].closed

Reached(t, c) ==
  /\ Attaching(<<t, c>>) => job[Agent].at = "register" \/ reg[c] = t
  /\ ~Attaching(<<t, c>>) \/ job[Agent].at \in {"light", "enlist"} => reg[c] = t /\ runtime[c]

OpenIsReached ==
  \A t \in Turns, c \in Children :
    phase[t] = "running" /\ Id(t, c) # NoTurn /\ ~att[<<t, c>>].closed =>
      Reached(t, c) \/ <<t, c>> \in robbed

ReachInv ==
  /\ TurnsInOrder /\ WorkIsOwn /\ ReaderIsNewest /\ Noted /\ ClosedBeforeCut
  /\ OpenIsReached

LEMMA Bystanders ==
  /\ Agent \in Actors /\ Agent \notin Turns /\ Agent \notin Stops
  /\ \A t \in Turns : t \in Actors /\ t # Agent /\ t \notin Stops /\ t \in Nat /\ t # 0
  /\ \A s \in Stops : s \in Actors /\ s # Agent /\ s \notin Turns
  /\ \A w \in Actors : w = Agent \/ w \in Turns \/ w \in Stops
BY SubAgentsAssumption DEF Actors, Turns

LEMMA ReachInit == Init => ReachInv
<1> SUFFICES ASSUME Init PROVE ReachInv
  OBVIOUS
<1>1. \A w \in Actors : job[w].at = "idle"
  BY DEF Init, Idle
<1>2. \A a \in Attachments : att[a].id = NoTurn /\ att[a].noted = NoTurn
  BY DEF Init, Unattached
<1>3. \A t \in Turns : phase[t] = "waiting" /\ t \in Nat /\ t # 0
  BY Bystanders DEF Init
<1>4. TurnsInOrder
  BY <1>2, <1>3, ActorTypes DEF Init, TurnsInOrder, Started, Id
<1>5. WorkIsOwn
  BY <1>1, Bystanders DEF Init, WorkIsOwn, AtWork
<1>6. ReaderIsNewest /\ ClosedBeforeCut
  BY <1>1, Bystanders DEF ReaderIsNewest, ClosedBeforeCut, AtWork
<1>7. Noted /\ OpenIsReached
  BY <1>2, <1>3 DEF Noted, OpenIsReached
<1> QED BY <1>4, <1>5, <1>6, <1>7 DEF ReachInv

(* The turn that runs is the newest.                                       *)
LEMMA RunningIsNewest ==
  ASSUME TypeOK, TurnsInOrder, NEW t \in Turns, phase[t] = "running",
         NEW u \in Turns, Started(u)
  PROVE  u = t \/ (u < t /\ phase[u] \in Settled)
<1>1. t \in Nat /\ u \in Nat
  BY Bystanders
<1>2. ~(t < u)
  BY DEF TurnsInOrder, Settled
<1>3. Started(t)
  BY DEF Started
<1> QED BY <1>1, <1>2, <1>3 DEF TurnsInOrder

(* An actor goes on with its work, and may unregister a child.             *)
AttachmentsStay ==
  \A a \in Attachments :
    /\ att'[a].id = att[a].id /\ att'[a].noted = att[a].noted
    /\ att[a].closed => att'[a].closed

Past(task) ==
  \/ task.at = "cut"
  \/ task.at \in {"report", "finish", "write", "frame"} /\ task.then # "enter"
  \/ task.at \in {"gate", "clear"} /\ task.then = "cut"

GoesOn(w, task) ==
  \/ task = Idle
  \/ /\ task.at \notin Opening \cup {"idle"} /\ task.of = job[w].of
     /\ Past(task) => att'[task.of].closed
     /\ w \in Turns /\ phase[w] = "draining" =>
          task.at \in {"gate", "clear"} /\ task.then = "idle"

InvBut == TurnsInOrder /\ WorkIsOwn /\ ReaderIsNewest /\ Noted /\ ClosedBeforeCut

LEMMA WorkKept ==
  ASSUME TypeOK, ReachInv, NEW w \in Actors, AtWork(w), job[w].at \notin Opening,
         NEW task \in Jobs \cup {Idle}, Become(w, task), GoesOn(w, task),
         UNCHANGED <<phase, handler, asked>>, AttachmentsStay,
         \A c \in Children : reg'[c] \in {0, reg[c]}
  PROVE  /\ InvBut'
         /\ \A a \in Attachments : ~Attaching(a)' \/ (Attaching(a) /\ job'[Agent] = job[Agent])
         /\ \A a \in Attachments : Attaching(a) => Attaching(a)'
<1>1. /\ job' \in [Actors -> Jobs \cup {Idle}] /\ job'[w] = task
      /\ \A v \in Actors : v # w => job'[v] = job[v]
  BY BecomeLemma
<1>2. Idle.at = "idle" /\ "idle" \notin Opening
  BY DEF Idle, Opening
<1>3. TurnsInOrder'
  BY ActorTypes DEF ReachInv, TurnsInOrder, AttachmentsStay, Started, Id
<1>4. WorkIsOwn'
  <2>1. \A v \in Actors : AtWork(v)' => Started(Of(v)[1])'
    BY <1>1, <1>2 DEF ReachInv, WorkIsOwn, AtWork, Started, Of, GoesOn
  <2>2. \A t \in Turns : AtWork(t)' =>
          /\ Of(t)'[1] = t /\ phase'[t] \in {"finishing", "draining"}
          /\ phase'[t] = "draining" =>
               job'[t].at \in {"gate", "clear"} /\ job'[t].then = "idle"
    BY <1>1, <1>2, Bystanders DEF ReachInv, WorkIsOwn, AtWork, Of, GoesOn
  <2>3. \A s \in Stops : \A a \in asked'[s] : Started(a[1])'
    BY DEF ReachInv, WorkIsOwn, Started
  <2>4. \A c \in Children : reg'[c] # 0 => Started(reg[c])'
    BY DEF ReachInv, WorkIsOwn, Started
  <2> QED BY <2>1, <2>2, <2>3, <2>4 DEF WorkIsOwn
<1>5. ReaderIsNewest'
  <2>1. \A t \in Turns, c \in Children : Id(t, c)' = Id(t, c)
    BY ActorTypes DEF AttachmentsStay, Id
  <2>2. AtWork(Agent)' => AtWork(Agent) /\ job'[Agent].of = job[Agent].of
    BY <1>1, <1>2, Bystanders DEF AtWork, GoesOn
  <2>3. AtWork(Agent) => ChildOf(Agent) \in Children
    BY Bystanders, JobLemma DEF AtWork
  <2> QED BY <2>1, <2>2, <2>3 DEF ReachInv, ReaderIsNewest, Of, ChildOf, Id
<1>6. /\ \A a \in Attachments : Attaching(a)' => Attaching(a) /\ job'[Agent] = job[Agent]
      /\ \A a \in Attachments : Attaching(a) => Attaching(a)'
  BY <1>1, <1>2, Bystanders DEF Attaching, GoesOn
<1>7. Noted'
  BY <1>6 DEF ReachInv, Noted, AttachmentsStay
<1>8. ClosedBeforeCut'
  <2>1. \A v \in Actors : v # w /\ Past(job[v]) => att'[Of(v)].closed
    <3> SUFFICES ASSUME NEW v \in Actors, v # w, Past(job[v])
                 PROVE  att'[Of(v)].closed
      OBVIOUS
    <3>1. att[Of(v)].closed
      BY DEF ReachInv, ClosedBeforeCut, Past
    <3>2. Of(v) \in Attachments
      BY JobLemma DEF Past
    <3> QED BY <3>1, <3>2 DEF AttachmentsStay
  <2>2. Past(task) => att'[task.of].closed
    BY <1>2 DEF GoesOn, Past
  <2>3. \A v \in Actors : Past(job'[v]) => att'[job'[v].of].closed
    BY <1>1, <2>1, <2>2 DEF Of
  <2> QED BY <2>3 DEF ClosedBeforeCut, Past, Of
<1> QED BY <1>3, <1>4, <1>5, <1>6, <1>7, <1>8 DEF InvBut

LEMMA WorkReaches ==
  ASSUME TypeOK, ReachInv, NEW w \in Actors, AtWork(w), job[w].at \notin Opening,
         NEW task \in Jobs \cup {Idle}, Become(w, task), GoesOn(w, task),
         UNCHANGED <<phase, handler, asked, reg, runtime, robbed>>, AttachmentsStay
  PROVE  ReachInv'
<1>1. /\ InvBut'
      /\ \A a \in Attachments : ~Attaching(a)' \/ (Attaching(a) /\ job'[Agent] = job[Agent])
      /\ \A a \in Attachments : Attaching(a) => Attaching(a)'
  BY WorkKept DEF TypeOK
<1>2. OpenIsReached'
  <2> SUFFICES ASSUME NEW t \in Turns, NEW c \in Children, phase[t] = "running",
                      Id(t, c)' # NoTurn, ~att'[<<t, c>>].closed
               PROVE  Reached(t, c)' \/ <<t, c>> \in robbed
    BY DEF OpenIsReached
  <2>1. <<t, c>> \in Attachments
    BY ActorTypes
  <2>2. Reached(t, c) \/ <<t, c>> \in robbed
    BY <2>1 DEF ReachInv, OpenIsReached, AttachmentsStay, Id
  <2>3. \/ ~Attaching(<<t, c>>) /\ ~Attaching(<<t, c>>)'
        \/ Attaching(<<t, c>>) /\ Attaching(<<t, c>>)' /\ job'[Agent] = job[Agent]
    BY <1>1, <2>1
  <2> QED BY <2>2, <2>3 DEF Reached
<1> QED BY <1>1, <1>2 DEF InvBut, ReachInv

(* The closing of a child, by whoever is at it.                            *)
LEMMA StepReaches ==
  ASSUME TypeOK, ReachInv, NEW w \in Actors, Step(w)
  PROVE  ReachInv'
<1> USE DEF turnVars, stopVars, activeVars, stopTraces
<1>1. AtWork(w) /\ job[w].at \notin Opening
  BY DEF Step, Enter, Mark, Finish, Write, WriteFails, Frame, Gate, ClearPending, Cut,
         Working, AtWork, Opening
<1>2. /\ job[w] \in Jobs /\ Of(w) \in Attachments /\ Of(w)[1] \in Turns
      /\ ChildOf(w) \in Children /\ Of(w) = <<Of(w)[1], ChildOf(w)>>
      /\ After(w) \in Jobs \cup {Idle}
  BY <1>1, JobLemma, AfterLemma DEF AtWork
<1>3. att[Of(w)] \in AttStates
  BY <1>1, JobLemma DEF AtWork
<1>4. /\ w \in Turns /\ phase[w] = "draining" =>
           job[w].at \in {"gate", "clear"} /\ job[w].then = "idle"
      /\ Past(job[w]) => att[Of(w)].closed
  BY <1>1, <1>2 DEF ReachInv, WorkIsOwn, ClosedBeforeCut, Past
<1>5. job[w].then \in Thens
  BY <1>2 DEF Jobs
<1>6. \A at \in Steps : Task(Of(w), at) \in Jobs
  BY <1>2, TaskLemma
<1>7. \A at : Task(Of(w), at).at = at /\ Task(Of(w), at).of = Of(w) /\ Task(Of(w), at).then = "cut"
  BY DEF Task
<1>8. UNCHANGED att => AttachmentsStay
  BY DEF AttachmentsStay
<1>9. CASE Enter(w)
  <2>1. CASE att[Of(w)].closed
    BY <1>1, <1>8, <1>9, <2>1, WorkReaches DEF Enter, GoesOn
  <2>2. CASE ~att[Of(w)].closed
    <3>1. Task(Of(w), "mark") \in Jobs
      BY <1>6 DEF Steps
    <3>2. GoesOn(w, Task(Of(w), "mark"))
      BY <1>4, <1>7, <1>9 DEF GoesOn, Past, Opening, Enter, Working, Of
    <3> QED BY <1>1, <1>8, <1>9, <2>2, <3>1, <3>2, WorkReaches DEF Enter
  <2> QED BY <2>1, <2>2
<1>10. CASE Mark(w)
  <2> DEFINE task == [job[w] EXCEPT !.at = "finish"]
  <2>1. task \in Jobs /\ task.at = "finish" /\ task.of = Of(w) /\ Become(w, task)
    BY <1>2, <1>10 DEF Mark, Jobs, Steps, Of, Goto, Become
  <2>2. AttachmentsStay /\ att'[Of(w)].closed
    BY <1>2, <1>3, <1>10 DEF Mark, TypeOK, AttStates, AttachmentsStay
  <2> HIDE DEF task
  <2>3. GoesOn(w, task)
    BY <1>4, <1>10, <2>1, <2>2 DEF GoesOn, Opening, Mark, Working, Of
  <2> QED BY <1>1, <1>10, <2>1, <2>2, <2>3, WorkReaches DEF Mark
<1>11. CASE Finish(w)
  <2>1. PICK at \in {"write", "frame", "cut"} :
          Goto(w, at) /\ (at = "cut" => job[w].then # "enter")
    BY <1>11 DEF Finish
  <2> DEFINE task == [job[w] EXCEPT !.at = at]
  <2>2. /\ task \in Jobs /\ task.at = at /\ task.of = Of(w) /\ task.then = job[w].then
        /\ Become(w, task)
    BY <1>2, <2>1 DEF Jobs, Steps, Of, Goto, Become
  <2>3. AttachmentsStay /\ att'[Of(w)].closed = att[Of(w)].closed
    BY <1>2, <1>3, <1>11 DEF Finish, TypeOK, AttStates, AttachmentsStay
  <2> HIDE DEF task
  <2>4. GoesOn(w, task)
    BY <1>4, <1>11, <2>1, <2>2, <2>3 DEF GoesOn, Past, Opening, Finish, Working, Of
  <2> QED BY <1>1, <1>11, <2>2, <2>3, <2>4, WorkReaches DEF Finish
<1>12. CASE Write(w) \/ WriteFails(w)
  <2> DEFINE task == [job[w] EXCEPT !.at = "frame"]
  <2>1. /\ task \in Jobs /\ task.at = "frame" /\ task.of = Of(w) /\ task.then = job[w].then
        /\ Become(w, task)
    BY <1>2, <1>12 DEF Write, WriteFails, Jobs, Steps, Of, Goto, Become
  <2> HIDE DEF task
  <2>2. AttachmentsStay /\ UNCHANGED <<att, phase, handler, asked, reg, runtime, robbed>>
    BY <1>8, <1>12 DEF Write, WriteFails
  <2>3. GoesOn(w, task)
    BY <1>4, <1>12, <2>1, <2>2 DEF GoesOn, Past, Opening, Write, WriteFails, Working, Of
  <2> QED BY <1>1, <2>1, <2>2, <2>3, WorkReaches
<1>13. CASE Frame(w)
  <2> DEFINE task == [job[w] EXCEPT !.at = "gate", !.id = att[Of(w)].noted]
  <2>1. /\ task \in Jobs /\ task.at = "gate" /\ task.of = Of(w) /\ task.then = job[w].then
        /\ Become(w, task)
    BY <1>2, <1>3, <1>13 DEF Frame, Jobs, Steps, Of, AttStates
  <2> HIDE DEF task
  <2>2. GoesOn(w, task)
    BY <1>4, <1>13, <2>1 DEF GoesOn, Past, Opening, Frame, Working, Of
  <2> QED BY <1>1, <1>8, <1>13, <2>1, <2>2, WorkReaches DEF Frame
<1>14. CASE Gate(w) \/ ClearPending(w)
  <2> DEFINE passed == [job[w] EXCEPT !.at = "clear"]
  <2>1. /\ passed \in Jobs /\ passed.at = "clear" /\ passed.of = Of(w)
        /\ passed.then = job[w].then
    BY <1>2 DEF Jobs, Steps, Of
  <2>2. PICK task \in {passed, After(w)} : Become(w, task)
    BY <1>14 DEF Gate, ClearPending
  <2>3. AttachmentsStay /\ UNCHANGED <<att, phase, handler, asked, reg, runtime, robbed>>
    BY <1>8, <1>14 DEF Gate, ClearPending
  <2> HIDE DEF passed
  <2>4. job[w].at \in {"gate", "clear"}
    BY <1>14 DEF Gate, ClearPending, Working
  <2>5. GoesOn(w, passed)
    BY <1>4, <2>1, <2>3, <2>4 DEF GoesOn, Past, Opening, Of
  <2>6. GoesOn(w, After(w))
    <3>1. CASE job[w].then = "idle"
      BY <3>1 DEF After, GoesOn
    <3>2. CASE job[w].then = "enter"
      BY <1>4, <1>7, <3>2 DEF After, GoesOn, Past, Opening, Of
    <3>3. CASE job[w].then = "cut"
      BY <1>4, <1>7, <2>3, <2>4, <3>3 DEF After, GoesOn, Past, Opening, Of
    <3> QED BY <1>5, <3>1, <3>2, <3>3 DEF Thens
  <2> QED BY <1>1, <1>2, <2>1, <2>2, <2>3, <2>5, <2>6, WorkReaches
<1>15. CASE Cut(w)
  <2> DEFINE task == [job[w] EXCEPT !.at = "gate", !.id = att[Of(w)].id, !.then = "idle"]
  <2>1. /\ task \in Jobs /\ task.at = "gate" /\ task.of = Of(w) /\ task.then = "idle"
        /\ Become(w, task)
    BY <1>2, <1>3, <1>15 DEF Cut, Jobs, Steps, Of, AttStates, Thens
  <2> HIDE DEF task
  <2>2. /\ reg' = [reg EXCEPT ![ChildOf(w)] = 0]
        /\ runtime' = [runtime EXCEPT ![ChildOf(w)] = FALSE]
        /\ UNCHANGED <<att, phase, handler, asked>> /\ job[w].at = "cut"
    BY <1>15 DEF Cut, Working
  <2>3. \A c \in Children : reg'[c] \in {0, reg[c]}
    BY <2>2 DEF TypeOK
  <2>4. GoesOn(w, task)
    BY <2>1 DEF GoesOn, Past, Opening, Of
  <2>5. /\ InvBut'
        /\ \A a \in Attachments : ~Attaching(a)' \/ (Attaching(a) /\ job'[Agent] = job[Agent])
        /\ \A a \in Attachments : Attaching(a) => Attaching(a)'
    BY <1>1, <1>8, <2>1, <2>2, <2>3, <2>4, WorkKept
  <2>6. robbed \subseteq robbed'
    BY <1>15 DEF Cut
  (* Only an earlier turn's stop cuts what is open in the turn that runs.  *)
  <2>7. ASSUME NEW t \in Turns, phase[t] = "running", Id(t, ChildOf(w)) # NoTurn,
               ~att[<<t, ChildOf(w)>>].closed
        PROVE  w \in Stops /\ Of(w)[1] < t
    <3> DEFINE u == Of(w)[1]
    <3>1. u \in Turns /\ Started(u) /\ att[<<u, ChildOf(w)>>].closed
      BY <1>1, <1>2, <1>4, <2>2 DEF ReachInv, WorkIsOwn, Past
    <3>2. u < t /\ phase[u] \in Settled /\ t \in Nat /\ u \in Nat
      BY <2>7, <3>1, RunningIsNewest, Bystanders DEF ReachInv
    <3>3. w # Agent
      BY <1>1, <2>7, <3>2 DEF ReachInv, ReaderIsNewest
    <3>4. w \notin Turns
      BY <1>1, <1>4, <2>2, <3>2 DEF ReachInv, WorkIsOwn, Settled
    <3> QED BY <3>2, <3>3, <3>4, Bystanders
  <2>8. OpenIsReached'
    <3> SUFFICES ASSUME NEW t \in Turns, NEW c \in Children, phase[t] = "running",
                        Id(t, c) # NoTurn, ~att[<<t, c>>].closed,
                        <<t, c>> \notin robbed'
                 PROVE  Reached(t, c)'
      BY <2>2 DEF OpenIsReached, Id
    <3>1. <<t, c>> \in Attachments /\ Reached(t, c)
      BY <2>6, ActorTypes DEF ReachInv, OpenIsReached
    <3>2. \/ ~Attaching(<<t, c>>) /\ ~Attaching(<<t, c>>)'
          \/ Attaching(<<t, c>>) /\ Attaching(<<t, c>>)' /\ job'[Agent] = job[Agent]
      BY <2>5, <3>1
    <3>3. CASE c # ChildOf(w)
      <4>1. reg'[c] = reg[c] /\ runtime'[c] = runtime[c]
        BY <2>2, <3>3 DEF TypeOK
      <4> QED BY <3>1, <3>2, <4>1 DEF Reached
    <3>4. CASE c = ChildOf(w)
      <4>1. reg[c] # t
        BY <1>15, <2>7, <3>4 DEF Cut, Robs
      <4>2. Attaching(<<t, c>>) /\ job[Agent].at = "register"
        BY <3>1, <4>1 DEF Reached
      <4> QED BY <3>2, <4>2 DEF Reached
    <3> QED BY <3>3, <3>4
  <2> QED BY <2>5, <2>8 DEF InvBut, ReachInv
<1> QED BY <1>9, <1>10, <1>11, <1>12, <1>13, <1>14, <1>15 DEF Step

(* The reader takes up an update of the newest turn's child.               *)
LEMMA ReaderTakes ==
  ASSUME TypeOK, ReachInv, NEW c \in Children, handler # 0, job[Agent] = Idle,
         NEW task \in Jobs, Become(Agent, task), task.of = <<handler, c>>, ~Past(task),
         UNCHANGED <<phase, handler, asked, reg, runtime, robbed>>,
         \/ task.at \notin Opening /\ UNCHANGED att
         \/ /\ task.at = "register" /\ att[<<handler, c>>].id = NoTurn
            /\ \E id \in Ids : att' = [att EXCEPT ![<<handler, c>>].id = id]
  PROVE  ReachInv'
<1> DEFINE a == <<handler, c>>
<1>1. handler \in Turns /\ handler \in Nat /\ Started(handler) /\ a \in Attachments
  <2>1. handler \in Turns /\ handler \in Nat
    BY ActorTypes DEF TypeOK
  <2> QED BY <2>1, ActorTypes DEF ReachInv, TurnsInOrder
<1>2. /\ job'[Agent] = task /\ \A v \in Actors : v # Agent => job'[v] = job[v]
      /\ job[Agent].at = "idle" /\ "idle" \notin Opening
  BY BecomeLemma, Bystanders DEF Idle, Opening
<1>3. /\ \A b \in Attachments : /\ att'[b].closed = att[b].closed
                                /\ att'[b].noted = att[b].noted
                                /\ b # a => att'[b] = att[b]
      /\ UNCHANGED att \/ (task.at = "register" /\ att[a].id = NoTurn)
      /\ att[a].id # NoTurn => att'[a].id = att[a].id
  <2> HIDE DEF a
  <2>1. CASE UNCHANGED att
    BY <2>1
  <2>2. CASE ~UNCHANGED att
    <3>1. task.at = "register" /\ att[a].id = NoTurn
      BY <2>2 DEF a
    <3>2. PICK id \in Ids : att' = [att EXCEPT ![a] = [att[a] EXCEPT !.id = id]]
      BY <2>2 DEF a
    <3> QED BY <1>1, <3>1, <3>2 DEF TypeOK, AttStates
  <2> QED BY <2>1, <2>2
<1>4. TurnsInOrder'
  <2>1. ASSUME NEW t \in Turns, NEW d \in Children, ~Started(t) PROVE att'[<<t, d>>].id = NoTurn
    <3>1. <<t, d>> \in Attachments /\ <<t, d>> # a
      BY <1>1, <2>1, ActorTypes
    <3> QED BY <1>3, <2>1, <3>1 DEF ReachInv, TurnsInOrder, Id
  <2> QED BY <2>1 DEF ReachInv, TurnsInOrder, Started, Id
<1>5. WorkIsOwn'
  <2>1. Of(Agent)'[1] = handler
    BY <1>2 DEF Of
  <2>2. \A w \in Actors : AtWork(w)' => Started(Of(w)[1])'
    BY <1>1, <1>2, <2>1 DEF ReachInv, WorkIsOwn, AtWork, Started, Of
  <2>3. \A t \in Turns : AtWork(t)' =>
          /\ Of(t)'[1] = t /\ phase'[t] \in {"finishing", "draining"}
          /\ phase'[t] = "draining" =>
               job'[t].at \in {"gate", "clear"} /\ job'[t].then = "idle"
    BY <1>2, Bystanders DEF ReachInv, WorkIsOwn, AtWork, Of
  <2>4. /\ \A s \in Stops : \A b \in asked'[s] : Started(b[1])'
        /\ \A d \in Children : reg'[d] # 0 => Started(reg[d])'
    BY DEF ReachInv, WorkIsOwn, Started
  <2> QED BY <2>2, <2>3, <2>4 DEF WorkIsOwn
<1>6. ReaderIsNewest'
  <2>1. Of(Agent)'[1] = handler /\ ChildOf(Agent)' = c
    BY <1>2 DEF Of, ChildOf
  <2>2. ASSUME NEW t \in Turns, handler < t PROVE att'[<<t, c>>].id = NoTurn
    <3>1. ~Started(t) /\ t # handler /\ <<t, c>> \in Attachments /\ <<t, c>> # a
      BY <1>1, <2>2, ActorTypes DEF ReachInv, TurnsInOrder
    <3> QED BY <1>3, <3>1 DEF ReachInv, TurnsInOrder, Id
  <2> QED BY <2>1, <2>2 DEF ReaderIsNewest, Id
<1>7. \A b \in Attachments : ~Attaching(b) /\ (Attaching(b)' => b = a /\ task.at \in Opening)
  BY <1>2 DEF Attaching
<1>8. Noted'
  <2>1. \A b \in Attachments : att[b].noted # NoTurn => att[b].id # NoTurn
    BY DEF ReachInv, Noted
  <2>2. ASSUME NEW b \in Attachments, att'[b].noted # NoTurn
        PROVE  att'[b].id # NoTurn /\ ~Attaching(b)'
    <3>1. att[b].id # NoTurn
      BY <1>3, <2>1, <2>2
    <3>2. att'[b].id # NoTurn
      BY <1>3, <3>1
    <3>3. ~Attaching(b)'
      BY <1>7, <3>1
    <3> QED BY <3>2, <3>3
  <2> QED BY <2>2 DEF Noted
<1>9. ClosedBeforeCut'
  <2>1. \A v \in Actors : Past(job'[v]) => v # Agent /\ Past(job[v]) /\ Of(v)' = Of(v)
    BY <1>2 DEF Of
  <2>2. \A v \in Actors : Past(job[v]) => Of(v) \in Attachments /\ att[Of(v)].closed
    BY JobLemma DEF Past, ReachInv, ClosedBeforeCut
  <2>3. \A v \in Actors : Past(job'[v]) => att'[Of(v)'].closed
    BY <1>3, <2>1, <2>2
  <2> QED BY <2>3 DEF ClosedBeforeCut, Past, Of
<1>10. OpenIsReached'
  <2> SUFFICES ASSUME NEW t \in Turns, NEW d \in Children, phase[t] = "running",
                      att'[<<t, d>>].id # NoTurn, ~att'[<<t, d>>].closed
               PROVE  Reached(t, d)' \/ <<t, d>> \in robbed
    BY DEF OpenIsReached, Id
  <2>1. <<t, d>> \in Attachments
    BY ActorTypes
  <2>2. CASE Attaching(<<t, d>>)'
    <3>1. job'[Agent].at = "register"
      BY <1>2, <1>3, <1>7, <2>1, <2>2
    <3> QED BY <2>2, <3>1 DEF Reached
  <2>3. CASE ~Attaching(<<t, d>>)'
    <3>1. att[<<t, d>>].id # NoTurn
      BY <1>2, <1>3, <2>1, <2>3 DEF Attaching, Opening
    <3>2. Reached(t, d) \/ <<t, d>> \in robbed
      BY <1>3, <2>1, <3>1 DEF ReachInv, OpenIsReached, Id
    <3> QED BY <1>7, <2>1, <2>3, <3>2 DEF Reached
  <2> QED BY <2>2, <2>3
<1> QED BY <1>4, <1>5, <1>6, <1>8, <1>9, <1>10 DEF ReachInv

LEMMA UpdateReaches ==
  ASSUME TypeOK, ReachInv, NEW c \in Children, Attach(c) \/ Streams(c) \/ Reports(c)
  PROVE  ReachInv'
<1> USE DEF turnVars, stopVars, activeVars, stopTraces
<1> DEFINE a == <<handler, c>>
<1>1. handler # 0 /\ job[Agent] = Idle
  BY DEF Attach, Streams, Reports, Known
<1>2. a \in Attachments
  BY <1>1, ActorTypes DEF TypeOK
<1>3. \A at \in {"register", "emit", "report", "finish"} :
        /\ Task(a, at) \in Jobs /\ Task(a, at).at = at /\ Task(a, at).of = a
        /\ LET task == [Task(a, at) EXCEPT !.then = "enter"] IN
             task \in Jobs /\ task.at = at /\ task.of = a /\ task.then = "enter"
  BY <1>2 DEF Task, Jobs, Steps, Opening, Thens
<1> HIDE DEF a
<1>4. CASE Attach(c)
  <2>1. Mint(c) \in Ids
    BY DEF TypeOK, Mint, Ids
  <2>2. ~Past(Task(a, "register")) /\ Become(Agent, Task(a, "register"))
    BY <1>3, <1>4 DEF Past, Attach, a
  <2> QED BY <1>1, <1>3, <1>4, <2>1, <2>2, ReaderTakes DEF Attach, a
<1>5. CASE Streams(c)
  <2>1. ~Past(Task(a, "emit")) /\ Become(Agent, Task(a, "emit"))
    BY <1>3, <1>5 DEF Past, Streams, a
  <2> QED BY <1>1, <1>3, <1>5, <2>1, ReaderTakes DEF Streams, Opening, a
<1>6. CASE Reports(c)
  <2>1. PICK at \in {"report", "finish"} :
          Become(Agent, [Task(a, at) EXCEPT !.then = "enter"])
    BY <1>6 DEF Reports, a
  <2> DEFINE task == [Task(a, at) EXCEPT !.then = "enter"]
  <2>2. task \in Jobs /\ task.at = at /\ task.of = a /\ task.then = "enter"
    BY <1>3
  <2>3. Become(Agent, task)
    BY <2>1
  <2> HIDE DEF task
  <2>4. ~Past(task) /\ task.at \notin Opening
    BY <2>2 DEF Past, Opening
  <2> QED BY <1>1, <1>6, <2>2, <2>3, <2>4, ReaderTakes DEF Reports, a
<1> QED BY <1>4, <1>5, <1>6

(* The reader attaches a child, one step after the other.                  *)
LEMMA OpeningReaches ==
  ASSUME TypeOK, ReachInv, Register \/ Bind \/ Light \/ Enlist
  PROVE  ReachInv'
<1> USE DEF turnVars, stopVars, activeVars, stopTraces
<1>0. PICK a, t0, c0 : a = Of(Agent) /\ t0 = Of(Agent)[1] /\ c0 = ChildOf(Agent)
  OBVIOUS
<1>1. Agent \in Actors /\ AtWork(Agent) /\ job[Agent].at \in Opening
  BY Bystanders DEF Register, Bind, Light, Enlist, Working, AtWork, Opening
<1>2. /\ job[Agent] \in Jobs /\ a \in Attachments /\ t0 \in Turns /\ c0 \in Children
      /\ a = <<t0, c0>> /\ att[a] \in AttStates
  BY <1>0, <1>1, JobLemma DEF AtWork
<1>3. Started(t0) /\ Attaching(a)
  BY <1>0, <1>1 DEF ReachInv, WorkIsOwn, Attaching, Of
<1>4. PICK task \in Jobs \cup {Idle} :
        /\ Become(Agent, task)
        /\ \/ Register /\ task.at = "bind" /\ task.of = a
           \/ Bind /\ task.at = "light" /\ task.of = a
           \/ Light /\ task.at = "enlist" /\ task.of = a
           \/ Enlist /\ task.at \in {"emit", "idle"} /\ (task.at # "idle" => task.of = a)
  <2>1. ASSUME NEW at \in {"bind", "light", "enlist"}, Goto(Agent, at)
        PROVE  \E task \in Jobs : Become(Agent, task) /\ task.at = at /\ task.of = a
    <3> DEFINE task == [job[Agent] EXCEPT !.at = at]
    <3>1. task \in Jobs /\ task.at = at /\ task.of = a /\ Become(Agent, task)
      BY <1>0, <1>2, <2>1 DEF Jobs, Steps, Opening, Of, Goto, Become
    <3> QED BY <3>1
  <2>2. CASE Register
    BY <2>1, <2>2 DEF Register
  <2>3. CASE Bind
    BY <2>1, <2>3 DEF Bind
  <2>4. CASE Light
    BY <2>1, <2>4 DEF Light
  <2>5. CASE Enlist
    <3>1. /\ Task(a, "emit") \in Jobs /\ Task(a, "emit").at = "emit"
          /\ Task(a, "emit").of = a /\ Idle.at = "idle"
      BY <1>2, TaskLemma DEF Steps, Idle
    <3>2. Become(Agent, Idle) \/ Become(Agent, Task(a, "emit"))
      BY <1>0, <2>5 DEF Enlist
    <3> QED BY <2>5, <3>1, <3>2
  <2> QED BY <2>2, <2>3, <2>4, <2>5
<1>5. /\ job'[Agent] = task /\ \A v \in Actors : v # Agent => job'[v] = job[v]
      /\ "idle" \notin Opening /\ task.at \in {"bind", "light", "enlist", "emit", "idle"}
      /\ task.at # "idle" => task.of = a
      /\ ~Past(task)
  BY <1>1, <1>4, BecomeLemma DEF Opening, Past
<1>6. /\ UNCHANGED <<phase, handler, asked, robbed>>
      /\ \A c \in Children : c # c0 => reg'[c] = reg[c] /\ runtime'[c] = runtime[c]
      /\ reg'[c0] \in {reg[c0], t0}
  BY <1>0, <1>2 DEF Register, Bind, Light, Enlist, TypeOK
<1>7. /\ \A b \in Attachments : /\ att'[b].id = att[b].id /\ att'[b].closed = att[b].closed
                                /\ b # a => att'[b].noted = att[b].noted
      /\ att'[a].noted # att[a].noted => Enlist /\ att'[a].noted = att[a].id
  <2>1. CASE Enlist
    <3>1. att' = [att EXCEPT ![a] = [att[a] EXCEPT !.noted = att[a].id]]
      BY <1>0, <2>1 DEF Enlist
    <3> QED BY <1>2, <2>1, <3>1 DEF TypeOK, AttStates
  <2>2. CASE ~Enlist
    BY <2>2 DEF Register, Bind, Light
  <2> QED BY <2>1, <2>2
<1>8. TurnsInOrder'
  BY <1>6, <1>7, ActorTypes DEF ReachInv, TurnsInOrder, Started, Id
<1>9. WorkIsOwn'
  <2>1. \A w \in Actors : AtWork(w)' => Started(Of(w)[1])'
    BY <1>0, <1>3, <1>5, <1>6 DEF ReachInv, WorkIsOwn, AtWork, Started, Of
  <2>2. \A t \in Turns : AtWork(t)' =>
          /\ Of(t)'[1] = t /\ phase'[t] \in {"finishing", "draining"}
          /\ phase'[t] = "draining" =>
               job'[t].at \in {"gate", "clear"} /\ job'[t].then = "idle"
    BY <1>5, <1>6, Bystanders DEF ReachInv, WorkIsOwn, AtWork, Of
  <2>3. \A s \in Stops : \A b \in asked'[s] : Started(b[1])'
    BY <1>6 DEF ReachInv, WorkIsOwn, Started
  <2>4. \A d \in Children : reg'[d] # 0 => Started(reg[d])'
    BY <1>3, <1>6 DEF ReachInv, WorkIsOwn, Started
  <2> QED BY <2>1, <2>2, <2>3, <2>4 DEF WorkIsOwn
<1>10. ReaderIsNewest'
  <2>1. AtWork(Agent)' => Of(Agent)'[1] = t0 /\ ChildOf(Agent)' = c0
    BY <1>2, <1>5 DEF AtWork, Of, ChildOf
  <2>2. ASSUME NEW t \in Turns, t0 < t PROVE att'[<<t, c0>>].id = NoTurn
    BY <1>0, <1>1, <1>2, <1>7, <2>2, ActorTypes DEF ReachInv, ReaderIsNewest, Id
  <2> QED BY <2>1, <2>2 DEF ReaderIsNewest, Id
<1>11. \A b \in Attachments : b # a => ~Attaching(b) /\ ~Attaching(b)'
  BY <1>0, <1>5 DEF Attaching, Opening, Of
<1>12. /\ Attaching(a)' => job'[Agent].at \in {"bind", "light", "enlist"}
       /\ ~Attaching(a)' <=> Enlist
  BY <1>4, <1>5 DEF Attaching, Opening, Register, Bind, Light, Enlist, Working
<1>13. Noted'
  <2>1. ASSUME NEW b \in Attachments, att'[b].noted # NoTurn
        PROVE  att'[b].id # NoTurn /\ ~Attaching(b)'
    <3>1. CASE b # a
      BY <1>7, <1>11, <2>1, <3>1 DEF ReachInv, Noted
    <3>2. CASE b = a
      <4>1. att[a].noted = NoTurn
        BY <1>2, <1>3 DEF ReachInv, Noted
      <4> QED BY <1>7, <1>12, <2>1, <3>2, <4>1
    <3> QED BY <3>1, <3>2
  <2> QED BY <2>1 DEF Noted
<1>14. ClosedBeforeCut'
  <2>1. \A v \in Actors : Past(job'[v]) => v # Agent /\ Past(job[v]) /\ Of(v)' = Of(v)
    BY <1>5 DEF Of
  <2>2. \A v \in Actors : Past(job[v]) => Of(v) \in Attachments /\ att[Of(v)].closed
    BY JobLemma DEF Past, ReachInv, ClosedBeforeCut
  <2>3. \A v \in Actors : Past(job'[v]) => att'[Of(v)'].closed
    BY <1>7, <2>1, <2>2
  <2> QED BY <2>3 DEF ClosedBeforeCut, Past, Of
<1>15. OpenIsReached'
  <2> SUFFICES ASSUME NEW t \in Turns, NEW c \in Children, phase[t] = "running",
                      att[<<t, c>>].id # NoTurn, ~att[<<t, c>>].closed,
                      <<t, c>> \notin robbed
               PROVE  Reached(t, c)'
    BY <1>6, <1>7, ActorTypes DEF OpenIsReached, Id
  <2>1. <<t, c>> \in Attachments /\ Reached(t, c)
    BY ActorTypes DEF ReachInv, OpenIsReached, Id
  <2>2. CASE c # c0
    <3>1. <<t, c>> # a
      BY <1>2, <2>2
    <3> QED BY <1>6, <1>11, <2>1, <2>2, <3>1 DEF Reached
  <2>3. CASE c = c0
    <3>1. t = t0
      <4>1. t0 = t \/ (t0 < t /\ t0 \in Turns)
        BY <1>2, <1>3, RunningIsNewest DEF ReachInv
      <4> QED BY <1>0, <1>1, <2>1, <2>3, <4>1 DEF ReachInv, ReaderIsNewest, Id
    <3>2. <<t, c>> = a
      BY <1>2, <2>3, <3>1
    <3>3. t # 0 /\ job[Agent].at # "register" => reg[c] = t
      BY <1>3, <2>1, <3>2, Bystanders DEF Reached
    <3>4. CASE Register
      <4>1. reg'[c] = t /\ job'[Agent].at = "bind"
        BY <1>0, <1>2, <1>4, <1>5, <2>3, <3>1, <3>4
           DEF Register, Bind, Light, Enlist, Working, TypeOK
      <4> QED BY <1>12, <3>2, <3>4, <4>1 DEF Reached, Register, Enlist, Working
    <3>5. CASE Bind
      <4>1. reg[c] = t /\ t # 0
        BY <3>3, <3>5, Bystanders DEF Bind, Working
      <4>2. reg'[c] = t /\ runtime'[c]
        BY <1>0, <1>2, <2>3, <3>5, <4>1 DEF Bind, TypeOK
      <4> QED BY <4>2 DEF Reached
    <3>6. CASE Light \/ Enlist
      <4>1. reg[c] = t /\ runtime[c]
        BY <1>3, <2>1, <3>2, <3>6 DEF Reached, Light, Enlist, Working
      <4>2. reg' = reg /\ runtime' = runtime
        BY <3>6 DEF Light, Enlist
      <4> QED BY <4>1, <4>2 DEF Reached
    <3> QED BY <3>4, <3>5, <3>6
  <2> QED BY <2>2, <2>3
<1> QED BY <1>8, <1>9, <1>10, <1>13, <1>14, <1>15 DEF ReachInv

LEMMA EmitReaches ==
  ASSUME TypeOK, ReachInv, Emit \/ EmitSummary
  PROVE  ReachInv'
<1> USE DEF turnVars, stopVars, activeVars, stopTraces
<1>1. Agent \in Actors /\ AtWork(Agent) /\ job[Agent].at \notin Opening
  BY Bystanders DEF Emit, EmitSummary, Working, AtWork, Opening
<1>2. AttachmentsStay /\ UNCHANGED <<phase, handler, asked, reg, runtime, robbed>>
  BY DEF Emit, EmitSummary, AttachmentsStay
<1>3. CASE Emit
  <2>1. GoesOn(Agent, Idle) /\ Become(Agent, Idle)
    BY <1>3 DEF Emit, GoesOn
  <2> QED BY <1>1, <1>2, <2>1, WorkReaches
<1>4. CASE EmitSummary
  <2> DEFINE task == [job[Agent] EXCEPT !.at = "finish"]
  <2>1. job[Agent] \in Jobs
    BY <1>1, JobLemma DEF AtWork
  <2>2. /\ task \in Jobs /\ task.at = "finish" /\ task.of = job[Agent].of
        /\ task.then = job[Agent].then /\ Become(Agent, task)
    BY <1>4, <2>1 DEF EmitSummary, Jobs, Steps, Goto, Become
  <2> HIDE DEF task
  <2>3. Past(task) => att'[task.of].closed
    BY <1>1, <1>4, <2>2 DEF ReachInv, ClosedBeforeCut, Past, Of, EmitSummary, Working
  <2>4. GoesOn(Agent, task)
    BY <2>2, <2>3, Bystanders DEF GoesOn, Opening
  <2> QED BY <1>1, <1>2, <2>2, <2>4, WorkReaches
<1> QED BY <1>3, <1>4

(* A turn that has started moves on to a phase in which it does not run.   *)
LEMMA PhaseMoves ==
  ASSUME TypeOK, ReachInv, NEW t \in Turns, Started(t), ~AtWork(t),
         NEW p \in Settled \cup {"finishing"}, SetPhase(t, p),
         phase[t] \in Settled => p \in Settled,
         UNCHANGED <<handler, att, job, asked, reg, runtime, robbed>>
  PROVE  ReachInv'
<1>1. /\ phase'[t] = p /\ \A u \in Turns : u # t => phase'[u] = phase[u]
      /\ p # "waiting" /\ p # "running"
  BY DEF SetPhase, TypeOK, Settled
<1>2. /\ \A u \in Turns : Started(u)' <=> Started(u)
      /\ \A u \in Turns : phase'[u] = "running" => phase[u] = "running"
      /\ \A u \in Turns : phase[u] \in Settled => phase'[u] \in Settled
  BY <1>1 DEF Started
<1>3. TurnsInOrder'
  BY <1>2 DEF ReachInv, TurnsInOrder, Id, Started
<1>4. WorkIsOwn'
  <2>1. \A w \in Actors : AtWork(w) => Of(w)[1] \in Turns
    BY JobLemma DEF AtWork
  <2>2. \A w \in Actors : AtWork(w)' => Started(Of(w)[1])'
    BY <1>2, <2>1 DEF ReachInv, WorkIsOwn, AtWork, Started, Of
  <2>3. \A u \in Turns : AtWork(u)' => u # t /\ phase'[u] = phase[u]
    BY <1>1 DEF AtWork
  <2>4. \A s \in Stops : \A a \in asked[s] : a[1] \in Turns
    BY DEF TypeOK, Attachments
  <2>5. \A s \in Stops : \A a \in asked'[s] : Started(a[1])'
    BY <1>2, <2>4 DEF ReachInv, WorkIsOwn, Started
  <2>6. \A c \in Children : reg'[c] # 0 => Started(reg[c])'
    BY <1>2 DEF ReachInv, WorkIsOwn, Started, TypeOK
  <2> QED BY <2>2, <2>3, <2>5, <2>6 DEF ReachInv, WorkIsOwn, AtWork, Of
<1>5. ReaderIsNewest' /\ ClosedBeforeCut' /\ Noted'
  BY DEF ReachInv, ReaderIsNewest, ClosedBeforeCut, Noted, AtWork, Attaching, Of, ChildOf, Id
<1>6. OpenIsReached'
  BY <1>2 DEF ReachInv, OpenIsReached, Reached, Attaching, Id
<1> QED BY <1>3, <1>4, <1>5, <1>6 DEF ReachInv

(* An idle actor is given a closing of its own: a turn its child's, a stop *)
(* that of the attachment it named.                                        *)
LEMMA WorkGiven ==
  ASSUME TypeOK, ReachInv, NEW w \in Turns \cup Stops,
         NEW task \in Jobs, Become(w, task), ~Past(task), task.at # "idle",
         Started(task.of[1]),
         w \in Turns => /\ task.of[1] = w /\ phase[w] \in {"finishing", "draining"}
                        /\ phase[w] = "draining" =>
                             task.at \in {"gate", "clear"} /\ task.then = "idle",
         UNCHANGED <<phase, handler, att, reg, runtime, robbed>>,
         \A s \in Stops : asked'[s] \subseteq asked[s]
  PROVE  ReachInv'
<1>1. w \in Actors /\ w # Agent
  BY Bystanders
<1>2. job'[w] = task /\ \A v \in Actors : v # w => job'[v] = job[v]
  BY <1>1, BecomeLemma
<1>3. job'[Agent] = job[Agent]
  BY <1>1, <1>2, Bystanders
<1>4. TurnsInOrder' /\ Noted' /\ ReaderIsNewest' /\ OpenIsReached'
  BY <1>3 DEF ReachInv, TurnsInOrder, Noted, ReaderIsNewest, OpenIsReached, Reached,
              Attaching, AtWork, Started, Id, Of, ChildOf
<1>5. WorkIsOwn'
  <2>1. \A v \in Actors : AtWork(v)' => Started(Of(v)[1])'
    BY <1>2 DEF ReachInv, WorkIsOwn, AtWork, Started, Of
  <2>2. \A t \in Turns : AtWork(t)' =>
          /\ Of(t)'[1] = t /\ phase'[t] \in {"finishing", "draining"}
          /\ phase'[t] = "draining" =>
               job'[t].at \in {"gate", "clear"} /\ job'[t].then = "idle"
    BY <1>2, Bystanders DEF ReachInv, WorkIsOwn, AtWork, Of
  <2>3. /\ \A s \in Stops : \A b \in asked'[s] : Started(b[1])'
        /\ \A d \in Children : reg'[d] # 0 => Started(reg[d])'
    BY DEF ReachInv, WorkIsOwn, Started
  <2> QED BY <2>1, <2>2, <2>3 DEF WorkIsOwn
<1>6. ClosedBeforeCut'
  <2>1. \A v \in Actors : Past(job'[v]) => v # w /\ Past(job[v]) /\ Of(v)' = Of(v)
    BY <1>2 DEF Of
  <2>2. \A v \in Actors : Past(job[v]) => att[Of(v)].closed
    BY DEF Past, ReachInv, ClosedBeforeCut
  <2>3. \A v \in Actors : Past(job'[v]) => att'[Of(v)'].closed
    BY <2>1, <2>2
  <2> QED BY <2>3 DEF ClosedBeforeCut, Past, Of
<1> QED BY <1>4, <1>5, <1>6 DEF ReachInv

LEMMA TurnReaches ==
  ASSUME TypeOK, ReachInv, NEW t \in Turns, StartTurn(t) \/ TurnStep(t)
  PROVE  ReachInv'
<1> USE DEF turnVars, stopVars, activeVars, stopTraces
<1>0. t \in Actors /\ t \in Nat /\ t # Agent
  BY Bystanders
<1>1. Idle.at = "idle"
  BY DEF Idle
<1>2. CASE StartTurn(t)
  <2>1. /\ phase'[t] = "running" /\ \A u \in Turns : u # t => phase'[u] = phase[u]
        /\ handler' = t /\ ~Started(t) /\ \A u \in Turns : u < t => phase[u] \in Settled
        /\ UNCHANGED <<att, job, asked, reg, runtime, robbed>>
    BY <1>2 DEF StartTurn, SetPhase, LockFree, Started, Settled, TypeOK
  <2>2. \A u \in Turns : Started(u) <=> u < t
    <3>1. \A u \in Turns : u \in Nat
      BY Bystanders
    <3>2. \A u \in Turns : t < u => ~Started(u)
      BY <2>1 DEF ReachInv, TurnsInOrder, Started, Settled
    <3>3. \A u \in Turns : u < t => Started(u)
      BY <2>1 DEF Started, Settled
    <3> QED BY <1>0, <2>1, <3>1, <3>2, <3>3
  <2>3. \A u \in Turns : Started(u)' <=> u <= t
    <3>1. \A u \in Turns : u \in Nat
      BY Bystanders
    <3> QED BY <1>0, <2>1, <2>2, <3>1 DEF Started
  <2>4. \A c \in Children : Id(t, c) = NoTurn
    BY <2>1 DEF ReachInv, TurnsInOrder
  <2>5. TurnsInOrder'
    <3>1. \A u, v \in Turns : v < u /\ u <= t => phase'[v] \in Settled
      <4>1. \A u \in Turns : u \in Nat
        BY Bystanders
      <4> QED BY <1>0, <2>1, <4>1
    <3>2. \A u \in Turns, c \in Children : ~Started(u)' => Id(u, c)' = NoTurn
      BY <2>1 DEF ReachInv, TurnsInOrder, Id, Started
    <3> QED BY <2>1, <2>3, <3>1, <3>2 DEF TurnsInOrder
  <2>6. WorkIsOwn'
    <3>1. \A u \in Turns : Started(u) => phase'[u] = phase[u] /\ Started(u)'
      BY <2>1 DEF Started
    <3>2. \A w \in Actors : AtWork(w) => Of(w)[1] \in Turns
      BY JobLemma DEF AtWork
    <3>3. \A w \in Actors : AtWork(w)' => Started(Of(w)[1])'
      BY <2>1, <3>1, <3>2 DEF ReachInv, WorkIsOwn, AtWork, Started, Of
    <3>4. \A u \in Turns : AtWork(u) => phase'[u] = phase[u]
      BY <2>1 DEF ReachInv, WorkIsOwn, Started
    <3>5. \A s \in Stops : \A a \in asked'[s] : Started(a[1])'
      BY <2>1, <3>1 DEF ReachInv, WorkIsOwn, Started, TypeOK, Attachments
    <3>6. \A c \in Children : reg'[c] # 0 => Started(reg[c])'
      BY <2>1, <3>1 DEF ReachInv, WorkIsOwn, Started, TypeOK
    <3> QED BY <2>1, <3>3, <3>4, <3>5, <3>6 DEF ReachInv, WorkIsOwn, AtWork, Of
  <2>7. ReaderIsNewest' /\ ClosedBeforeCut' /\ Noted'
    BY <2>1 DEF ReachInv, ReaderIsNewest, ClosedBeforeCut, Noted, AtWork, Attaching, Of,
                ChildOf, Id
  <2>8. OpenIsReached'
    BY <2>1, <2>4 DEF ReachInv, OpenIsReached, Reached, Attaching, Id
  <2> QED BY <2>5, <2>6, <2>7, <2>8 DEF ReachInv
<1>3. CASE EndTurn(t) \/ ReturnTurn(t) \/ Snapshot(t) \/ Drained(t)
  <2>1. PICK p \in Settled \cup {"finishing"} :
          SetPhase(t, p) /\ (phase[t] \in Settled => p \in Settled)
    BY <1>3 DEF EndTurn, ReturnTurn, Snapshot, Drained, Settled
  <2>2. Started(t) /\ ~AtWork(t)
    BY <1>1, <1>3 DEF EndTurn, ReturnTurn, Snapshot, Drained, Started, ReachInv, WorkIsOwn, AtWork
  <2> QED BY <1>3, <2>1, <2>2, PhaseMoves DEF EndTurn, ReturnTurn, Snapshot, Drained
<1>4. CASE FinishChild(t) \/ DrainChild(t)
  <2>1. Started(t) /\ phase[t] \in {"finishing", "draining"}
    BY <1>4 DEF FinishChild, DrainChild, Started
  <2>2. PICK task \in Jobs :
          /\ Become(t, task) /\ ~Past(task) /\ task.at # "idle" /\ task.of[1] = t
          /\ phase[t] = "draining" => task.at \in {"gate", "clear"} /\ task.then = "idle"
    <3>1. CASE FinishChild(t)
      <4>1. PICK c \in todo[t] : Become(t, Task(<<t, c>>, "enter"))
        BY <3>1 DEF FinishChild
      <4>2. <<t, c>> \in Attachments
        BY ActorTypes DEF TypeOK
      <4>3. Task(<<t, c>>, "enter") \in Jobs
        BY <4>2, TaskLemma DEF Steps
      <4>4. /\ Task(<<t, c>>, "enter").at = "enter" /\ Task(<<t, c>>, "enter").of[1] = t
            /\ phase[t] = "finishing"
        BY <3>1 DEF Task, FinishChild
      <4> QED BY <4>1, <4>3, <4>4 DEF Past
    <3>2. CASE DrainChild(t)
      <4> DEFINE task(c) == [at |-> "gate", of |-> <<t, c>>, id |-> att[<<t, c>>].noted,
                             then |-> "idle"]
      <4>1. PICK c \in todo[t] : Become(t, task(c))
        BY <3>2 DEF DrainChild
      <4>2. <<t, c>> \in Attachments
        BY ActorTypes DEF TypeOK
      <4>3. att[<<t, c>>].noted \in Ids \cup {NoTurn}
        BY <4>2 DEF TypeOK, AttStates
      <4>4. /\ task(c) \in Jobs /\ task(c).at = "gate" /\ task(c).of[1] = t
            /\ task(c).then = "idle"
        BY <4>2, <4>3 DEF Jobs, Steps, Thens
      <4> HIDE DEF task
      <4> QED BY <4>1, <4>4 DEF Past
    <3> QED BY <1>4, <3>1, <3>2
  <2>3. UNCHANGED <<phase, handler, att, asked, reg, runtime, robbed>>
    BY <1>4 DEF FinishChild, DrainChild
  <2> QED BY <2>1, <2>2, <2>3, Bystanders, WorkGiven
<1> QED BY <1>2, <1>3, <1>4 DEF TurnStep

LEMMA StopReaches ==
  ASSUME TypeOK, ReachInv, NEW s \in Stops, Press(s) \/ CarryOut(s)
  PROVE  ReachInv'
<1> USE DEF turnVars, stopVars, activeVars, stopTraces
<1>1. CASE Press(s)
  <2>1. PICK c \in Children :
          /\ reg[c] # 0 /\ asked' = [asked EXCEPT ![s] = {<<reg[c], c>>}]
          /\ UNCHANGED <<phase, handler, att, job, reg, runtime, robbed>>
    BY <1>1 DEF Press
  <2>2. Started(reg[c])
    BY <2>1 DEF ReachInv, WorkIsOwn
  <2>3. \A r \in Stops : \A a \in asked'[r] : Started(a[1])
    BY <2>1, <2>2 DEF ReachInv, WorkIsOwn, TypeOK
  <2>4. WorkIsOwn'
    BY <2>1, <2>3 DEF ReachInv, WorkIsOwn, AtWork, Started, Of
  <2> QED BY <2>1, <2>4 DEF ReachInv, TurnsInOrder, ReaderIsNewest, Noted, ClosedBeforeCut,
                            OpenIsReached, Reached, Attaching, AtWork, Started, Id, Of, ChildOf
<1>2. CASE CarryOut(s)
  <2>1. PICK a \in asked[s] :
          /\ asked' = [asked EXCEPT ![s] = {}]
          /\ job' \in {job, [job EXCEPT ![s] = Task(a, "enter")]}
          /\ UNCHANGED <<phase, handler, att, reg, runtime, robbed>>
    BY <1>2 DEF CarryOut
  <2>2. \A r \in Stops : asked'[r] \subseteq asked[r]
    BY <2>1 DEF TypeOK
  <2>3. a \in Attachments /\ Started(a[1])
    BY DEF TypeOK, ReachInv, WorkIsOwn
  <2>4. CASE Become(s, Task(a, "enter"))
    <3>1. Task(a, "enter") \in Jobs
      BY <2>3, TaskLemma DEF Steps
    <3>2. Task(a, "enter").at = "enter" /\ Task(a, "enter").of = a
      BY DEF Task
    <3> QED BY <2>1, <2>2, <2>3, <2>4, <3>1, <3>2, Bystanders, WorkGiven DEF Past
  <2>5. CASE job' = job
    <3>1. WorkIsOwn'
      BY <2>1, <2>2, <2>5 DEF ReachInv, WorkIsOwn, AtWork, Started, Of
    <3> QED BY <2>1, <2>5, <3>1
            DEF ReachInv, TurnsInOrder, ReaderIsNewest, Noted, ClosedBeforeCut,
                OpenIsReached, Reached, Attaching, AtWork, Started, Id, Of, ChildOf
  <2> QED BY <2>1, <2>4, <2>5 DEF Become
<1> QED BY <1>1, <1>2

LEMMA ReachInductive ==
  ASSUME TypeOK, ReachInv, [Next]_vars
  PROVE  ReachInv'
<1>1. CASE UNCHANGED vars
  BY <1>1 DEF vars, ReachInv, TurnsInOrder, WorkIsOwn, ReaderIsNewest, Noted,
              ClosedBeforeCut, OpenIsReached, Reached, Attaching, AtWork, Started, Id, Of,
              ChildOf
<1>2. CASE Next
  BY <1>2, UpdateReaches, OpeningReaches, EmitReaches, StepReaches, TurnReaches, StopReaches
     DEF Next, AgentStep
<1> QED BY <1>1, <1>2

(* However reader, turns and stops interleave, late attaches included, a   *)
(* child that is open in the turn that runs is registered as that turn     *)
(* with its session, unless a stop of an earlier turn's attachment         *)
(* unregistered it by its key after it was adopted (attach, close).        *)
THEOREM LateStopCorrect == Spec => []OnlyLateStopUnregisters
<1>1. TypeOK /\ ReachInv => OnlyLateStopUnregisters
  <2> SUFFICES ASSUME TypeOK, ReachInv, NEW t \in Turns, NEW c \in Listed(t),
                      phase[t] = "running", ~att[<<t, c>>].closed
               PROVE  Reachable(t, c) \/ <<t, c>> \in robbed
    BY DEF OnlyLateStopUnregisters
  <2>1. c \in Children /\ <<t, c>> \in Attachments /\ att[<<t, c>>].noted # NoTurn
    BY ActorTypes DEF Listed
  <2>2. Id(t, c) # NoTurn /\ ~Attaching(<<t, c>>)
    BY <2>1 DEF ReachInv, Noted, Id
  <2> QED BY <2>1, <2>2 DEF ReachInv, OpenIsReached, Reached, Reachable
<1>2. TypeOK /\ ReachInv /\ [Next]_vars => (TypeOK /\ ReachInv)'
  BY TypeStep, ReachInductive
<1> QED BY InitTypes, ReachInit, <1>1, <1>2, PTL DEF Spec

-----------------------------------------------------------------------------
(* OnlyItsOwnTurnEnds.  The identity of an attachment is a place in the    *)
(* child's log, so two have different ones only if each writes its row     *)
(* before the next is minted: a turn does not return before it has seen to *)
(* every child it has (RowSeen), and its lamp is out by then, or the       *)
(* reader, who attaches the next, is about to put it out (LampSeen).  That *)
(* holds of an attachment no stop is at and whose row was not lost.        *)
Unspoiled(a) == a \notin spoiled
StopsSpoil == \A s \in Stops : AtWork(s) => Of(s) \in spoiled

(* What is noted is the identity; who has none was not touched.            *)
NotedIsId ==
  \A a \in Attachments :
    /\ att[a].noted \in {NoTurn, att[a].id}
    /\ att[a].id # NoTurn =>
         att[a].noted = att[a].id \/ (Attaching(a) /\ phase[a[1]] = "running")
    /\ Unspoiled(a) /\ att[a].closed => att[a].noted # NoTurn
    /\ att[a].id = NoTurn => ~att[a].sent /\ ~att[a].closed

(* What is worked at, named by a stop, registered or listed is attached.   *)
WorkIsAttached ==
  /\ \A w \in Actors : AtWork(w) => att[Of(w)].id # NoTurn
  /\ \A w \in Actors \ Stops :
       AtWork(w) /\ job[w].at \notin Opening => att[Of(w)].noted # NoTurn
  /\ \A s \in Stops : \A a \in asked[s] : att[a].id # NoTurn
  /\ \A c \in Children : reg[c] # 0 => Id(reg[c], c) # NoTurn
  /\ \A t \in Turns : \A c \in todo[t] : att[<<t, c>>].noted # NoTurn

(* Identities are the places of rows.                                      *)
IdsGrow ==
  \A t \in Turns, c \in Children : Id(t, c) # NoTurn =>
    /\ Id(t, c) <= rows[c] + 1
    /\ \A u \in Turns :
         u < t /\ Id(u, c) # NoTurn /\ Unspoiled(<<u, c>>) => Id(u, c) < Id(t, c)

ReaderAt(steps, a) == job[Agent].at \in steps /\ job[Agent].of = a
TurnAt(steps, a) ==
  phase[a[1]] = "finishing" /\ job[a[1]].at \in steps /\ job[a[1]].of = a
TurnOwes(a) == phase[a[1]] = "finishing" /\ a[2] \in todo[a[1]]

RowSeen(a) ==
  /\ att[a].sent =>
       att[a].id <= rows[a[2]] \/ ReaderAt({"write"}, a) \/ TurnAt({"write"}, a)
  /\ ~att[a].sent =>
       phase[a[1]] = "running" \/ TurnOwes(a) \/ TurnAt({"enter", "mark", "finish"}, a)
  /\ ~att[a].sent => ~att[a].closed \/ TurnAt({"finish"}, a)
  /\ ReaderAt({"write", "frame", "gate", "clear", "enter", "mark", "cut"}, a) => att[a].sent

RowsSeen == \A a \in Attachments : Unspoiled(a) /\ att[a].id # NoTurn => RowSeen(a)

(* An end carries the identity of its attachment, but for that of a stop   *)
(* that came before it was noted.                                          *)
Carries(w, task) == task.id = att[task.of].id \/ (task.id = NoTurn /\ w \in Stops)
EndsCarryId == \A w \in Actors : job[w].at \in {"gate", "clear"} => Carries(w, job[w])

LampIsOf ==
  \A c \in Children : entry[c].active =>
    /\ lit[c] \in Turns /\ Id(lit[c], c) # NoTurn /\ entry[c].turnId = Id(lit[c], c)
    /\ entry[c].exists

ReaderEnds(a) ==
  ReaderAt({"report", "finish", "write", "frame", "gate", "clear"}, a)
  /\ job[Agent].then = "enter"

Lit(a) == entry[a[2]].active /\ lit[a[2]] = a[1]

LampSeen(a) ==
  /\ ReaderEnds(a) \/ phase[a[1]] = "running" \/ TurnOwes(a) \/ TurnAt(Steps, a)
  /\ att[a].closed => TurnAt(Steps \ {"enter"}, a)
  /\ ReaderAt(Steps \ (Opening \cup {"emit"}), a) => ReaderEnds(a)

LampsSeen == \A a \in Attachments : Unspoiled(a) /\ Lit(a) => LampSeen(a)

OwnInv ==
  /\ StopsSpoil /\ NotedIsId /\ WorkIsAttached /\ IdsGrow /\ RowsSeen /\ EndsCarryId
  /\ LampIsOf /\ LampsSeen

LEMMA OwnInit == Init => OwnInv
<1> SUFFICES ASSUME Init PROVE OwnInv
  OBVIOUS
<1>1. \A w \in Actors : job[w].at = "idle"
  BY DEF Init, Idle
<1>2. \A a \in Attachments : att[a] = Unattached
  BY DEF Init
<1>3. NotedIsId /\ StopsSpoil
  BY <1>1, <1>2, ActorTypes DEF NotedIsId, Unattached, StopsSpoil, AtWork
<1>4. WorkIsAttached
  BY <1>1, ActorTypes DEF Init, WorkIsAttached, AtWork
<1>5. IdsGrow
  BY <1>2, ActorTypes DEF IdsGrow, Id, Unattached
<1>6. RowsSeen
  BY <1>2 DEF RowsSeen, Unattached
<1>7. EndsCarryId
  BY <1>1 DEF EndsCarryId
<1>8. LampIsOf /\ LampsSeen
  BY DEF Init, LampIsOf, LampsSeen, Lit, Absent, Attachments
<1> QED BY <1>3, <1>4, <1>5, <1>6, <1>7, <1>8 DEF OwnInv

(* An actor goes on with the end of a child.  The flags it may set are     *)
(* those of its child, and it puts out lamps or leaves them.               *)
EndGoesOn(w, task) ==
  /\ Become(w, task)
  /\ task # Idle => task.of = Of(w) /\ task.at \notin Opening
  /\ task.at \in {"gate", "clear"} => Carries(w, task)
  /\ UNCHANGED <<phase, todo, asked, lit>>
  /\ \A c \in Children : reg'[c] \in {0, reg[c]} /\ rows'[c] >= rows[c]
  /\ \A a \in Attachments :
       /\ att'[a].id = att[a].id /\ att'[a].noted = att[a].noted
       /\ a # Of(w) => att'[a] = att[a]
  /\ \A c \in Children :
       entry'[c].active =>
         entry[c].active /\ entry'[c].turnId = entry[c].turnId /\ entry'[c].exists

(* A child w is not at: the conditions on it do not see what w does.       *)
LEMMA OthersKept ==
  ASSUME TypeOK, TypeOK', ReachInv, OwnInv, NEW w \in Actors, AtWork(w),
         job[w].at \notin Opening,
         NEW task \in Jobs \cup {Idle}, EndGoesOn(w, task),
         NEW a \in Attachments, Unspoiled(a), a # Of(w)
  PROVE  /\ att[a].id # NoTurn => RowSeen(a)'
         /\ Lit(a)' => LampSeen(a)'
<1>1. job'[w] = task /\ \A v \in Actors : v # w => job'[v] = job[v]
  BY BecomeLemma DEF EndGoesOn
<1>2. Idle.at = "idle"
  BY DEF Idle
<1>3. a[1] \in Turns /\ a[2] \in Children /\ a[1] \in Actors /\ Agent \in Actors
  BY Bystanders DEF Attachments
<1>4. /\ att'[a] = att[a] /\ phase' = phase /\ todo' = todo /\ lit' = lit
      /\ rows'[a[2]] >= rows[a[2]] /\ rows[a[2]] \in Nat /\ rows'[a[2]] \in Nat
  BY <1>3 DEF EndGoesOn, TypeOK
<1>5. \A v \in Actors :
        \/ job'[v] = job[v]
        \/ job[v].of # a /\ (job'[v].at = "idle" \/ job'[v].of # a)
  BY <1>1, <1>2 DEF EndGoesOn, Of
<1>6. /\ \A S \in SUBSET Steps : ReaderAt(S, a)' <=> ReaderAt(S, a)
      /\ \A S \in SUBSET Steps : TurnAt(S, a)' <=> TurnAt(S, a)
      /\ ReaderEnds(a)' <=> ReaderEnds(a)
  <2>1. \A S \in SUBSET Steps : "idle" \notin S
    BY DEF Steps, Opening
  <2> QED BY <1>3, <1>4, <1>5, <2>1 DEF ReaderAt, TurnAt, ReaderEnds
<1>7. TurnOwes(a)' <=> TurnOwes(a)
  BY <1>4 DEF TurnOwes
<1>8. ASSUME att[a].id # NoTurn
      PROVE  RowSeen(a)'
  <2>1. RowSeen(a)
    BY <1>8 DEF OwnInv, RowsSeen
  <2>2. att[a].id \in Nat
    BY <1>8 DEF TypeOK, AttStates, Ids
  <2>3. att[a].id <= rows[a[2]] => att'[a].id <= rows'[a[2]]
    BY <1>4, <2>2
  <2>4. /\ {"write"} \in SUBSET Steps /\ {"finish"} \in SUBSET Steps
        /\ {"enter", "mark", "finish"} \in SUBSET Steps
        /\ {"write", "frame", "gate", "clear", "enter", "mark", "cut"} \in SUBSET Steps
    BY DEF Steps
  <2> QED BY <1>4, <1>6, <1>7, <2>1, <2>3, <2>4 DEF RowSeen
<1>9. ASSUME Lit(a)'
      PROVE  LampSeen(a)'
  <2>1. Lit(a)
    BY <1>3, <1>4, <1>9 DEF Lit, EndGoesOn
  <2>2. LampSeen(a)
    BY <2>1 DEF OwnInv, LampsSeen
  <2>3. /\ Steps \in SUBSET Steps /\ (Steps \ {"enter"}) \in SUBSET Steps
        /\ (Steps \ (Opening \cup {"emit"})) \in SUBSET Steps
    OBVIOUS
  <2> QED BY <1>4, <1>6, <1>7, <2>2, <2>3 DEF LampSeen
<1> QED BY <1>8, <1>9

(* What an end owes to the conditions on its own child.                    *)
LEMMA EndOwns ==
  ASSUME TypeOK, TypeOK', ReachInv, OwnInv, NEW w \in Actors, AtWork(w),
         job[w].at \notin Opening,
         NEW task \in Jobs \cup {Idle}, EndGoesOn(w, task),
         NEW a, a = Of(w),
         att'[a].closed => att[a].closed \/ w \notin Stops \/ ~Unspoiled(a),
         spoiled \subseteq spoiled',
         Unspoiled(a)' => RowSeen(a)' /\ (Lit(a)' => LampSeen(a)')
  PROVE  OwnInv'
<1>0. \A b : Unspoiled(b)' => Unspoiled(b)
  BY DEF Unspoiled
<1>1. job'[w] = task /\ \A v \in Actors : v # w => job'[v] = job[v]
  BY BecomeLemma DEF EndGoesOn
<1>2. Idle.at = "idle" /\ "idle" \notin Opening
  BY DEF Idle, Opening
<1>3. /\ a \in Attachments /\ att[a].id # NoTurn
      /\ w \notin Stops => att[a].noted # NoTurn
  BY JobLemma DEF AtWork, OwnInv, WorkIsAttached
<1>4. /\ UNCHANGED <<phase, todo, asked, lit>>
      /\ \A b \in Attachments :
           /\ att'[b].id = att[b].id /\ att'[b].noted = att[b].noted
           /\ b # a => att'[b] = att[b]
  BY DEF EndGoesOn
<1>5. \A b \in Attachments : Attaching(b) => Attaching(b)'
  BY <1>1, Bystanders DEF Attaching
<1>6. NotedIsId'
  <2> SUFFICES ASSUME NEW b \in Attachments
               PROVE  /\ att'[b].noted \in {NoTurn, att'[b].id}
                      /\ att'[b].id # NoTurn =>
                           \/ att'[b].noted = att'[b].id
                           \/ Attaching(b)' /\ phase'[b[1]] = "running"
                      /\ Unspoiled(b) /\ att'[b].closed => att'[b].noted # NoTurn
                      /\ att'[b].id = NoTurn => ~att'[b].sent /\ ~att'[b].closed
    BY <1>0 DEF NotedIsId
  <2>1. /\ att[b].noted \in {NoTurn, att[b].id}
        /\ att[b].id # NoTurn =>
             att[b].noted = att[b].id \/ (Attaching(b) /\ phase[b[1]] = "running")
        /\ Unspoiled(b) /\ att[b].closed => att[b].noted # NoTurn
        /\ att[b].id = NoTurn => ~att[b].sent /\ ~att[b].closed
    BY DEF OwnInv, NotedIsId
  <2>2. CASE b = a
    BY <1>3, <1>4, <1>5, <2>1, <2>2
  <2>3. CASE b # a
    BY <1>4, <1>5, <2>1, <2>3
  <2> QED BY <2>2, <2>3
<1>7. WorkIsAttached'
  <2>1. \A v \in Actors : AtWork(v) => Of(v) \in Attachments
    BY JobLemma DEF AtWork
  <2>2. \A v \in Actors : AtWork(v)' =>
          AtWork(v) /\ Of(v)' = Of(v) /\ (job[v].at \in Opening => job'[v].at \in Opening)
    BY <1>1, <1>2 DEF AtWork, Of, EndGoesOn
  <2>3. \A v \in Actors : AtWork(v)' => att'[Of(v)'].id # NoTurn
    BY <1>4, <2>1, <2>2 DEF OwnInv, WorkIsAttached
  <2>4. \A v \in Actors \ Stops :
          AtWork(v)' /\ job'[v].at \notin Opening => att'[Of(v)'].noted # NoTurn
    BY <1>4, <2>1, <2>2 DEF OwnInv, WorkIsAttached
  <2>5. \A s \in Stops : \A b \in asked'[s] : att'[b].id # NoTurn
    BY <1>4 DEF OwnInv, WorkIsAttached, TypeOK
  <2>6. \A c \in Children : reg'[c] # 0 => Id(reg[c], c)' # NoTurn
    <3>1. \A c \in Children : reg[c] # 0 => <<reg[c], c>> \in Attachments
      BY ActorTypes DEF TypeOK
    <3>2. \A c \in Children : reg'[c] # 0 => reg'[c] = reg[c]
      BY DEF EndGoesOn
    <3> QED BY <1>4, <3>1, <3>2 DEF OwnInv, WorkIsAttached, Id
  <2>7. \A t \in Turns : \A c \in todo'[t] : att'[<<t, c>>].noted # NoTurn
    <3>1. \A t \in Turns : todo[t] \subseteq Children /\ todo'[t] = todo[t]
      BY <1>4 DEF TypeOK
    <3>2. \A t \in Turns : \A c \in todo[t] : att[<<t, c>>].noted # NoTurn
      BY DEF OwnInv, WorkIsAttached
    <3>3. ASSUME NEW t \in Turns, NEW c \in todo'[t] PROVE att'[<<t, c>>].noted # NoTurn
      <4>1. c \in todo[t] /\ <<t, c>> \in Attachments
        BY <3>1, <3>3, ActorTypes
      <4> QED BY <1>4, <3>2, <4>1
    <3> QED BY <3>3
  <2> QED BY <2>3, <2>4, <2>5, <2>6, <2>7 DEF WorkIsAttached, Of
<1>8. IdsGrow'
  <2>1. \A t \in Turns, c \in Children : Id(t, c)' = Id(t, c)
    BY <1>4, ActorTypes DEF Id
  <2>2. \A t \in Turns, c \in Children : Id(t, c) # NoTurn => Id(t, c) \in Nat
    BY ActorTypes DEF Id, TypeOK, AttStates, Ids
  <2>3. \A c \in Children : rows[c] \in Nat /\ rows'[c] \in Nat /\ rows'[c] >= rows[c]
    BY DEF TypeOK, EndGoesOn
  <2> QED BY <1>0, <2>1, <2>2, <2>3 DEF OwnInv, IdsGrow
<1>9. EndsCarryId'
  <2>1. ASSUME NEW v \in Actors, job'[v].at \in {"gate", "clear"}
        PROVE  Carries(v, job[v])'
    <3>1. CASE v = w
      <4>1. task.of = a
        BY <1>1, <1>2, <2>1, <3>1 DEF EndGoesOn
      <4> QED BY <1>1, <1>3, <1>4, <2>1, <3>1, <4>1 DEF EndGoesOn, Carries
    <3>2. CASE v # w
      <4>1. job'[v] = job[v] /\ job[v].of \in Attachments
        BY <1>1, <2>1, <3>2, JobLemma DEF Of
      <4> QED BY <1>4, <2>1, <4>1 DEF OwnInv, EndsCarryId, Carries
    <3> QED BY <3>1, <3>2
  <2> QED BY <2>1 DEF EndsCarryId
<1>10. LampIsOf'
  <2> SUFFICES ASSUME NEW c \in Children, entry'[c].active
               PROVE  /\ lit'[c] \in Turns /\ Id(lit[c], c)' # NoTurn
                      /\ entry'[c].turnId = Id(lit[c], c)' /\ entry'[c].exists
    BY DEF LampIsOf
  <2>1. /\ entry[c].active /\ entry'[c].turnId = entry[c].turnId /\ entry'[c].exists
        /\ lit'[c] = lit[c]
    BY DEF EndGoesOn
  <2>2. lit[c] \in Turns /\ Id(lit[c], c) # NoTurn /\ entry[c].turnId = Id(lit[c], c)
    BY <2>1 DEF OwnInv, LampIsOf
  <2>3. Id(lit[c], c)' = Id(lit[c], c)
    BY <1>4, <2>1, <2>2, ActorTypes DEF Id
  <2> QED BY <2>1, <2>2, <2>3
<1>11. ASSUME NEW b \in Attachments, Unspoiled(b)'
       PROVE  (att'[b].id # NoTurn => RowSeen(b)') /\ (Lit(b)' => LampSeen(b)')
  <2>1. CASE b = a
    <3>1. \A m : m = a /\ Unspoiled(m)' => (RowSeen(m)' /\ (Lit(m)' => LampSeen(m)'))
      OBVIOUS
    <3> QED BY <1>11, <2>1, <3>1
  <2>2. CASE b # a
    BY <1>0, <1>4, <1>11, <2>2, OthersKept
  <2> QED BY <2>1, <2>2
<1>12. RowsSeen' /\ LampsSeen'
  BY <1>11 DEF RowsSeen, LampsSeen
<1>13. StopsSpoil'
  <2>1. \A v \in Actors : AtWork(v)' => AtWork(v) /\ Of(v)' = Of(v)
    BY <1>1, <1>2 DEF AtWork, Of, EndGoesOn
  <2> QED BY <2>1, Bystanders DEF OwnInv, StopsSpoil
<1> QED BY <1>6, <1>7, <1>8, <1>9, <1>10, <1>12, <1>13 DEF OwnInv

(* What the operations of the hub do to the lamp of an entry.              *)
LEMMA HubLamp ==
  ASSUME NEW p \in Entries(Ids, {}), NEW id
  PROVE  /\ Ensure(p).active => p.active
         /\ p.active => Ensure(p).active
         /\ Ensure(p).turnId = p.turnId /\ Ensure(p).exists
         /\ SetPending(p, id).active /\ SetPending(p, id).turnId = id
         /\ SetPending(p, id).exists
         /\ Clear(p, id).active => p.active /\ Clear(p, id) = p /\ ~TurnMatches(p, id)
<1>1. Ensure(p) = [p EXCEPT !.exists = TRUE] /\ p \in Entries(Ids, {})
  BY DEF Ensure
<1>2. /\ Ensure(p).active => p.active
      /\ p.active => Ensure(p).active
      /\ Ensure(p).turnId = p.turnId /\ Ensure(p).exists
  BY <1>1 DEF Entries
<1>3. /\ SetPending(p, id).active /\ SetPending(p, id).turnId = id
      /\ SetPending(p, id).exists
  BY DEF SetPending, Ensure, Entries
<1>4. Clear(p, id).active => p.active /\ Clear(p, id) = p /\ ~TurnMatches(p, id)
  BY DEF Clear, Absent, Entries
<1> QED BY <1>2, <1>3, <1>4

(* A child that is not spoiled is ended by its turn, while it finishes or  *)
(* drains, or by the reader.                                               *)
LEMMA EndIsTheirs ==
  ASSUME TypeOK, ReachInv, StopsSpoil, NEW w \in Actors, AtWork(w), Unspoiled(Of(w))
  PROVE  /\ w \notin Stops
         /\ w = Agent \/ (w \in Turns /\ Of(w)[1] = w)
         /\ w \in Turns /\ job[w].at \notin {"gate", "clear"} => phase[w] = "finishing"
<1>1. w \notin Stops
  BY DEF StopsSpoil, Unspoiled
<1> QED BY <1>1, Bystanders DEF ReachInv, WorkIsOwn

(* What the conditions on that child see of a step of one of them.         *)
LEMMA EndSeen ==
  ASSUME TypeOK, ReachInv, StopsSpoil, NEW w \in Actors, AtWork(w),
         NEW task \in Jobs \cup {Idle}, EndGoesOn(w, task),
         NEW a, a = Of(w), Unspoiled(a)
  PROVE  /\ w = Agent =>
              /\ \A S \in SUBSET Steps : TurnAt(S, a)' <=> TurnAt(S, a)
              /\ \A S \in SUBSET Steps : ReaderAt(S, a) <=> job[w].at \in S
              /\ \A S \in SUBSET Steps : ReaderAt(S, a)' <=> task.at \in S
              /\ ReaderEnds(a)' <=>
                   /\ task.at \in {"report", "finish", "write", "frame", "gate", "clear"}
                   /\ task.then = "enter"
         /\ w # Agent =>
              /\ \A S \in SUBSET Steps : ReaderAt(S, a)' <=> ReaderAt(S, a)
              /\ ReaderEnds(a)' <=> ReaderEnds(a)
              /\ \A S \in SUBSET Steps :
                   TurnAt(S, a) <=> phase[a[1]] = "finishing" /\ job[w].at \in S
              /\ \A S \in SUBSET Steps :
                   TurnAt(S, a)' <=> phase[a[1]] = "finishing" /\ task.at \in S
         /\ TurnOwes(a)' <=> TurnOwes(a)
<1>1. job'[w] = task /\ \A v \in Actors : v # w => job'[v] = job[v]
  BY BecomeLemma DEF EndGoesOn
<1>2. Idle.at = "idle" /\ \A S \in SUBSET Steps : "idle" \notin S
  BY DEF Idle, Steps, Opening
<1>3. a[1] \in Turns /\ a[1] # Agent /\ a[1] \in Actors /\ Agent \in Actors
  BY JobLemma, Bystanders DEF AtWork
<1>4. job[w].of = a /\ (task # Idle => task.of = a)
  BY DEF EndGoesOn, Of
<1>5. w = Agent \/ w = a[1]
  BY EndIsTheirs
<1>6. phase' = phase /\ todo' = todo
  BY DEF EndGoesOn
<1>7. ASSUME w = Agent
      PROVE  /\ \A S \in SUBSET Steps : TurnAt(S, a)' <=> TurnAt(S, a)
             /\ \A S \in SUBSET Steps : ReaderAt(S, a) <=> job[w].at \in S
             /\ \A S \in SUBSET Steps : ReaderAt(S, a)' <=> task.at \in S
             /\ ReaderEnds(a)' <=>
                  /\ task.at \in {"report", "finish", "write", "frame", "gate", "clear"}
                  /\ task.then = "enter"
  <2>1. job'[a[1]] = job[a[1]]
    BY <1>1, <1>3, <1>7
  <2> QED BY <1>1, <1>2, <1>4, <1>6, <1>7, <2>1 DEF TurnAt, ReaderAt, ReaderEnds
<1>8. ASSUME w # Agent
      PROVE  /\ \A S \in SUBSET Steps : ReaderAt(S, a)' <=> ReaderAt(S, a)
             /\ ReaderEnds(a)' <=> ReaderEnds(a)
             /\ \A S \in SUBSET Steps :
                  TurnAt(S, a) <=> phase[a[1]] = "finishing" /\ job[w].at \in S
             /\ \A S \in SUBSET Steps :
                  TurnAt(S, a)' <=> phase[a[1]] = "finishing" /\ task.at \in S
  <2>1. job'[Agent] = job[Agent] /\ w = a[1]
    BY <1>1, <1>3, <1>5, <1>8
  <2> QED BY <1>1, <1>2, <1>4, <1>6, <2>1 DEF TurnAt, ReaderAt, ReaderEnds
<1>9. TurnOwes(a)' <=> TurnOwes(a)
  BY <1>6 DEF TurnOwes
<1> QED BY <1>7, <1>8, <1>9

LEMMA StepSets ==
  /\ {"write"} \in SUBSET Steps /\ {"finish"} \in SUBSET Steps
  /\ {"enter", "mark", "finish"} \in SUBSET Steps
  /\ {"write", "frame", "gate", "clear", "enter", "mark", "cut"} \in SUBSET Steps
  /\ Steps \in SUBSET Steps /\ (Steps \ {"enter"}) \in SUBSET Steps
  /\ (Steps \ (Opening \cup {"emit"})) \in SUBSET Steps
  /\ Opening \subseteq Steps /\ "idle" \notin Steps
  /\ "enter" \in Steps
BY DEF Steps, Opening

(* The closing of a child, by whoever is at it.                            *)
LEMMA StepOwns ==
  ASSUME TypeOK, TypeOK', ReachInv, Rows, OwnInv, NEW w \in Actors, Step(w)
  PROVE  OwnInv'
<1> USE DEF turnVars, stopVars, activeVars, logVars, stopTraces
<1>0. PICK a : a = Of(w)
  OBVIOUS
<1>spoils. /\ StopsSpoil /\ spoiled \subseteq spoiled'
           /\ Unspoiled(a)' => Unspoiled(a)
  BY DEF OwnInv, Step, Enter, Mark, Finish, Write, WriteFails, Frame, Gate, ClearPending, Cut,
         Unspoiled
<1>1. AtWork(w) /\ job[w].at \notin Opening
  BY DEF Step, Enter, Mark, Finish, Write, WriteFails, Frame, Gate, ClearPending, Cut,
         Working, AtWork, Opening
<1>2. /\ job[w] \in Jobs /\ a \in Attachments /\ a[1] \in Turns
      /\ ChildOf(w) = a[2] /\ a[2] \in Children /\ a = <<a[1], a[2]>>
      /\ After(w) \in Jobs \cup {Idle} /\ job[w].of = a /\ job[w].at \in Steps
      /\ att[a] \in AttStates
  <2>1. job[w] \in Jobs /\ a \in Attachments /\ After(w) \in Jobs \cup {Idle}
        /\ att[a] \in AttStates
    BY <1>0, <1>1, JobLemma, AfterLemma DEF AtWork
  <2>2. job[w].at \in Steps
    BY <2>1 DEF Jobs
  <2> QED BY <1>0, <2>1, <2>2 DEF Of, ChildOf, Attachments
<1>3. /\ att[a].id # NoTurn /\ (w \notin Stops => att[a].noted = att[a].id)
      /\ att[a].noted \in {NoTurn, att[a].id}
  BY <1>0, <1>1, <1>2 DEF OwnInv, WorkIsAttached, NotedIsId
<1>4. Unspoiled(a) =>
        /\ w = Agent \/ (w \in Turns /\ a[1] = w)
        /\ w # Agent /\ job[w].at \notin {"gate", "clear"} => phase[a[1]] = "finishing"
  BY <1>0, <1>1, <1>spoils, EndIsTheirs
<1>5. /\ Unspoiled(a) => RowSeen(a)
      /\ Unspoiled(a) /\ Lit(a) => LampSeen(a)
  BY <1>2, <1>3 DEF OwnInv, RowsSeen, LampsSeen
<1>6. /\ \A c \in Children : rows[c] \in Nat
      /\ \A c \in Children : entry[c].active => entry[c].exists
  BY DEF TypeOK, OwnInv, LampIsOf
<1>7. \A at \in Steps : /\ Task(a, at) \in Jobs /\ Task(a, at).at = at
                        /\ Task(a, at).of = a /\ Task(a, at).then = "cut"
  BY <1>2, TaskLemma DEF Task
<1>8. Idle.at = "idle" /\ "idle" \notin Opening
  BY DEF Idle, Opening
<1>9. CASE Enter(w)
  <2>1. PICK task \in Jobs \cup {Idle} :
          /\ Become(w, task) /\ task.at \in {"idle", "mark"}
          /\ task # Idle => task.of = a
          /\ task.at = "idle" => att[a].closed
          /\ task.at = "mark" => ~att[a].closed
    BY <1>0, <1>7, <1>8, <1>9 DEF Enter, Steps
  <2>2. /\ job[w].at = "enter" /\ UNCHANGED <<phase, todo, att, rows, entry, lit>>
        /\ UNCHANGED <<reg, asked>>
    BY <1>9 DEF Enter, Working
  <2>3. EndGoesOn(w, task)
    BY <1>0, <1>6, <1>8, <2>1, <2>2 DEF EndGoesOn, Opening
  <2>4. ASSUME Unspoiled(a) PROVE RowSeen(a)' /\ (Lit(a)' => LampSeen(a)')
    <3>1. RowSeen(a)'
      BY <1>0, <1>1, <1>4, <1>5, <2>1, <2>2, <2>3, <2>4, <1>spoils, EndSeen, StepSets DEF RowSeen
    <3>2. ASSUME Lit(a)' PROVE LampSeen(a)'
      <4>1. LampSeen(a)
        BY <1>5, <2>2, <2>4, <3>2 DEF Lit
      <4> QED BY <1>0, <1>1, <1>4, <2>1, <2>2, <2>3, <2>4, <4>1, <1>spoils, EndSeen, StepSets
              DEF LampSeen, ReaderEnds, Steps, Opening
    <3> QED BY <3>1, <3>2
  <2> QED BY <1>0, <1>1, <2>2, <2>3, <2>4, <1>spoils, EndOwns
<1>10. CASE Mark(w)
  <2> DEFINE task == [job[w] EXCEPT !.at = "finish"]
  <2>1. task \in Jobs /\ task.at = "finish" /\ task.of = a /\ Become(w, task)
    BY <1>2, <1>10 DEF Mark, Jobs, Steps, Goto, Become
  <2> HIDE DEF task
  <2>2. /\ job[w].at = "mark" /\ UNCHANGED <<phase, todo, rows, entry, lit, reg, asked>>
        /\ att' = [att EXCEPT ![a] = [att[a] EXCEPT !.closed = TRUE]]
    BY <1>0, <1>10 DEF Mark, Working
  <2>3. /\ att'[a].id = att[a].id /\ att'[a].noted = att[a].noted
        /\ att'[a].sent = att[a].sent
        /\ \A b \in Attachments : b # a => att'[b] = att[b]
    BY <1>2, <2>2 DEF TypeOK, AttStates
  <2>4. EndGoesOn(w, task)
    BY <1>0, <1>6, <1>8, <2>1, <2>2, <2>3 DEF EndGoesOn, Opening
  <2>5. ASSUME Unspoiled(a) PROVE RowSeen(a)' /\ (Lit(a)' => LampSeen(a)')
    <3>1. RowSeen(a)'
      BY <1>0, <1>1, <1>4, <1>5, <2>1, <2>2, <2>3, <2>4, <2>5, <1>spoils, EndSeen, StepSets DEF RowSeen
    <3>2. ASSUME Lit(a)' PROVE LampSeen(a)'
      <4>1. LampSeen(a)
        BY <1>5, <2>2, <2>5, <3>2 DEF Lit
      <4> QED BY <1>0, <1>1, <1>4, <2>1, <2>2, <2>4, <2>5, <4>1, <1>spoils, EndSeen, StepSets
              DEF LampSeen, ReaderEnds, Steps, Opening
    <3> QED BY <3>1, <3>2
  <2>6. w \notin Stops \/ ~Unspoiled(a)
    BY <1>0, <1>1, <1>spoils, EndIsTheirs
  <2> QED BY <1>0, <1>1, <2>1, <2>4, <2>5, <2>6, <1>spoils, EndOwns
<1>11. CASE Finish(w)
  <2>1. PICK at \in {"write", "frame", "cut"} :
          /\ Goto(w, at)
          /\ at = "write" <=> ~att[a].sent
          /\ at = "cut" => job[w].then # "enter"
    BY <1>0, <1>11 DEF Finish, First
  <2> DEFINE task == [job[w] EXCEPT !.at = at]
  <2>2. /\ task \in Jobs /\ task.at = at /\ task.of = a /\ task.then = job[w].then
        /\ Become(w, task)
    BY <1>2, <2>1 DEF Jobs, Steps, Goto, Become
  <2> HIDE DEF task
  <2>3. /\ job[w].at = "finish" /\ UNCHANGED <<phase, todo, rows, entry, lit, reg, asked>>
        /\ att' = [att EXCEPT ![a] = [att[a] EXCEPT !.sent = TRUE]]
    BY <1>0, <1>11 DEF Finish, Working
  <2>4. /\ att'[a].id = att[a].id /\ att'[a].noted = att[a].noted
        /\ att'[a].closed = att[a].closed /\ att'[a].sent
        /\ \A b \in Attachments : b # a => att'[b] = att[b]
    BY <1>2, <2>3 DEF TypeOK, AttStates
  <2>5. EndGoesOn(w, task)
    BY <1>0, <1>6, <1>8, <2>1, <2>2, <2>3, <2>4 DEF EndGoesOn, Opening
  <2>6. ASSUME Unspoiled(a) PROVE RowSeen(a)' /\ (Lit(a)' => LampSeen(a)')
    <3>1. RowSeen(a)'
      BY <1>0, <1>1, <1>4, <1>5, <2>1, <2>2, <2>3, <2>4, <2>5, <2>6, <1>spoils, EndSeen, StepSets
         DEF RowSeen
    <3>2. ASSUME Lit(a)' PROVE LampSeen(a)'
      <4>1. LampSeen(a)
        BY <1>5, <2>3, <2>6, <3>2 DEF Lit
      <4>2. w = Agent => job[w].then = "enter"
        BY <1>0, <1>1, <2>3, <2>5, <2>6, <2>2, <4>1, <1>spoils, EndSeen, StepSets
           DEF LampSeen, ReaderEnds, Steps, Opening
      <4> QED BY <1>0, <1>1, <1>4, <2>1, <2>2, <2>3, <2>4, <2>5, <2>6, <4>1, <4>2,
                 <1>spoils, EndSeen, StepSets
              DEF LampSeen, ReaderEnds, Steps, Opening
    <3> QED BY <3>1, <3>2
  <2> QED BY <1>0, <1>1, <2>2, <2>4, <2>5, <2>6, <1>spoils, EndOwns
<1>12. CASE Write(w) \/ WriteFails(w)
  <2> DEFINE task == [job[w] EXCEPT !.at = "frame"]
  <2>1. /\ task \in Jobs /\ task.at = "frame" /\ task.of = a /\ task.then = job[w].then
        /\ Become(w, task)
    BY <1>2, <1>12 DEF Write, WriteFails, Jobs, Steps, Goto, Become
  <2> HIDE DEF task
  <2>2. /\ job[w].at = "write" /\ UNCHANGED <<phase, todo, att, entry, lit, reg, asked>>
    BY <1>12 DEF Write, WriteFails, Working
  <2>3. /\ \A c \in Children : rows'[c] >= rows[c]
        /\ Unspoiled(a)' => rows'[a[2]] = rows[a[2]] + 1
    <3>1. CASE Write(w)
      BY <1>2, <1>6, <3>1 DEF Write, TypeOK
    <3>2. CASE WriteFails(w)
      BY <1>0, <1>6, <3>2 DEF WriteFails, Unspoiled
    <3> QED BY <1>12, <3>1, <3>2
  <2>4. EndGoesOn(w, task)
    BY <1>0, <1>6, <1>8, <2>1, <2>2, <2>3 DEF EndGoesOn, Opening
  <2>5. ASSUME Unspoiled(a)', Unspoiled(a) PROVE RowSeen(a)' /\ (Lit(a)' => LampSeen(a)')
    <3>1. att[a].sent /\ att[a].id <= rows'[a[2]]
      <4>1. att[a].id <= rows[a[2]] + 1
        BY <1>2, <1>3 DEF OwnInv, IdsGrow, Id
      <4> QED BY <1>0, <2>2, <2>3, <2>5, <4>1 DEF Rows, WriterHasNotWritten, Working
    <3>2. RowSeen(a)'
      BY <1>0, <1>1, <2>1, <2>2, <2>4, <2>5, <3>1 DEF RowSeen
    <3>3. ASSUME Lit(a)' PROVE LampSeen(a)'
      <4>1. LampSeen(a)
        BY <1>5, <2>2, <2>5, <3>3 DEF Lit
      <4> QED BY <1>0, <1>1, <1>4, <2>1, <2>2, <2>4, <2>5, <4>1, <1>spoils, EndSeen, StepSets
              DEF LampSeen, ReaderEnds, Steps, Opening
    <3> QED BY <3>2, <3>3
  <2> QED BY <1>0, <1>1, <2>1, <2>2, <2>4, <2>5, <1>spoils, EndOwns
<1>13. CASE Frame(w)
  <2> DEFINE task == [job[w] EXCEPT !.at = "gate", !.id = att[Of(w)].noted]
  <2>1. /\ task \in Jobs /\ task.at = "gate" /\ task.of = a /\ task.then = job[w].then
        /\ task.id = att[a].noted /\ Become(w, task)
    BY <1>0, <1>2, <1>13 DEF Frame, Jobs, Steps, AttStates
  <2> HIDE DEF task
  <2>2. /\ job[w].at = "frame" /\ UNCHANGED <<phase, todo, att, rows, lit, reg, asked>>
        /\ entry' = [entry EXCEPT ![a[2]] = Ensure(entry[a[2]])]
    BY <1>2, <1>13 DEF Frame, Working
  <2>3. \A c \in Children :
          entry'[c].active =>
            entry[c].active /\ entry'[c].turnId = entry[c].turnId /\ entry'[c].exists
    <3>1. entry \in [Children -> Entries(Ids, {})]
      BY DEF TypeOK
    <3>2. \A c \in Children : entry'[c] = entry[c] \/ entry'[c] = Ensure(entry[c])
      BY <1>2, <2>2, <3>1
    <3> QED BY <1>6, <3>1, <3>2, HubLamp
  <2>4. Carries(w, task)
    BY <1>3, <2>1 DEF Carries
  <2>5. EndGoesOn(w, task)
    BY <1>0, <1>6, <1>8, <2>1, <2>2, <2>3, <2>4 DEF EndGoesOn, Opening
  <2>6. ASSUME Unspoiled(a) PROVE RowSeen(a)' /\ (Lit(a)' => LampSeen(a)')
    <3>1. RowSeen(a)'
      BY <1>0, <1>1, <1>4, <1>5, <2>1, <2>2, <2>5, <2>6, <1>spoils, EndSeen, StepSets DEF RowSeen
    <3>2. ASSUME Lit(a)' PROVE LampSeen(a)'
      <4>1. LampSeen(a)
        BY <1>2, <1>5, <2>2, <2>3, <2>6, <3>2 DEF Lit
      <4> QED BY <1>0, <1>1, <1>4, <2>1, <2>2, <2>5, <2>6, <4>1, <1>spoils, EndSeen, StepSets
              DEF LampSeen, ReaderEnds, Steps, Opening
    <3> QED BY <3>1, <3>2
  <2> QED BY <1>0, <1>1, <2>1, <2>2, <2>5, <2>6, <1>spoils, EndOwns
<1>14. CASE Gate(w) \/ ClearPending(w)
  <2> DEFINE passed == [job[w] EXCEPT !.at = "clear"]
  <2>1. /\ passed \in Jobs /\ passed.at = "clear" /\ passed.of = a
        /\ passed.then = job[w].then /\ passed.id = job[w].id
    BY <1>2 DEF Jobs, Steps
  <2>2. /\ After(w).at \in {"idle", "enter", "cut"}
        /\ After(w) # Idle => After(w).of = a
    <3>1. job[w].then \in Thens
      BY <1>2 DEF Jobs
    <3>2. /\ Task(a, "enter").at = "enter" /\ Task(a, "enter").of = a
          /\ Task(a, "cut").at = "cut" /\ Task(a, "cut").of = a
      BY DEF Task
    <3> QED BY <1>0, <1>8, <3>1, <3>2 DEF After, Thens
  <2>3. /\ job[w].at \in {"gate", "clear"}
        /\ UNCHANGED <<phase, todo, att, rows, lit, reg, asked>>
    BY <1>14 DEF Gate, ClearPending, Working
  <2>4. PICK task \in {passed, After(w)} :
          /\ Become(w, task)
          /\ \/ task = passed /\ entry' = entry
             \/ /\ task = After(w) /\ entry' = entry
                /\ ~TurnMatches(entry[a[2]], job[w].id)
             \/ /\ task = After(w)
                /\ entry' = [entry EXCEPT ![a[2]] = Clear(entry[a[2]], job[w].id)]
    BY <1>2, <1>14 DEF Gate, ClearPending
  <2>5. Carries(w, job[w])
    BY <2>3 DEF OwnInv, EndsCarryId
  <2> HIDE DEF passed
  <2>6. task \in Jobs \cup {Idle} /\ (task # Idle => task.of = a)
        /\ task.at \in {"clear", "idle", "enter", "cut"}
    BY <1>2, <2>1, <2>2, <2>4
  <2>7. task.at \in {"gate", "clear"} => Carries(w, task)
    BY <1>2, <2>1, <2>2, <2>4, <2>5 DEF Carries
  <2>8. /\ entry \in [Children -> Entries(Ids, {})]
        /\ \A c \in Children : entry'[c] = entry[c] \/ entry'[c] = Clear(entry[c], job[w].id)
    BY <1>2, <2>4 DEF TypeOK
  <2>9. \A c \in Children :
          entry'[c].active =>
            entry[c].active /\ entry'[c].turnId = entry[c].turnId /\ entry'[c].exists
    BY <1>6, <2>8, HubLamp
  <2>10. EndGoesOn(w, task)
    BY <1>0, <1>6, <1>8, <2>3, <2>4, <2>6, <2>7, <2>9 DEF EndGoesOn, Opening
  <2>11. ASSUME Unspoiled(a) PROVE RowSeen(a)' /\ (Lit(a)' => LampSeen(a)')
    <3>1. RowSeen(a)'
      BY <1>0, <1>1, <1>4, <1>5, <2>3, <2>6, <2>10, <2>11, <1>spoils, EndSeen, StepSets DEF RowSeen
    <3>2. ASSUME Lit(a)' PROVE LampSeen(a)'
      <4>1. LampSeen(a) /\ Lit(a)
        BY <1>2, <1>5, <2>3, <2>9, <2>11, <3>2 DEF Lit
      (* An end of its own turn puts it out.                               *)
      <4>2. TurnMatches(entry[a[2]], job[w].id)
        <5>1. job[w].id = att[a].id
          BY <1>0, <1>1, <1>2, <2>5, <2>11, <1>spoils, EndIsTheirs DEF Carries
        <5>2. entry[a[2]].turnId = att[a].id
          BY <1>2, <4>1 DEF OwnInv, LampIsOf, Lit, Id
        <5> QED BY <5>1, <5>2 DEF TurnMatches
      <4>3. task = passed
        <5>1. entry[a[2]] \in Entries(Ids, {}) /\ entry'[a[2]].active
          BY <1>2, <2>8, <3>2 DEF Lit
        <5>2. entry'[a[2]] # Clear(entry[a[2]], job[w].id)
          BY <4>2, <5>1, HubLamp
        <5> QED BY <1>2, <2>4, <2>8, <4>2, <5>2
      <4> QED BY <1>0, <1>1, <1>4, <2>1, <2>3, <2>6, <2>10, <2>11, <4>1, <4>3,
                 <1>spoils, EndSeen, StepSets
              DEF LampSeen, ReaderEnds, Steps, Opening
    <3> QED BY <3>1, <3>2
  <2> QED BY <1>0, <1>1, <2>3, <2>6, <2>10, <2>11, <1>spoils, EndOwns
<1>15. CASE Cut(w)
  <2> DEFINE task == [job[w] EXCEPT !.at = "gate", !.id = att[Of(w)].id, !.then = "idle"]
  <2>1. /\ task \in Jobs /\ task.at = "gate" /\ task.of = a /\ task.id = att[a].id
        /\ Become(w, task)
    BY <1>0, <1>2, <1>15 DEF Cut, Jobs, Steps, AttStates, Thens
  <2> HIDE DEF task
  <2>2. /\ job[w].at = "cut" /\ UNCHANGED <<phase, todo, att, rows, entry, lit, asked>>
        /\ reg' = [reg EXCEPT ![a[2]] = 0]
    BY <1>2, <1>15 DEF Cut, Working
  <2>3. \A c \in Children : reg'[c] \in {0, reg[c]}
    BY <2>2 DEF TypeOK
  <2>4. EndGoesOn(w, task)
    BY <1>0, <1>6, <1>8, <2>1, <2>2, <2>3 DEF EndGoesOn, Opening, Carries
  <2>5. ASSUME Unspoiled(a) PROVE RowSeen(a)' /\ (Lit(a)' => LampSeen(a)')
    <3>1. RowSeen(a)'
      BY <1>0, <1>1, <1>4, <1>5, <2>1, <2>2, <2>4, <2>5, <1>spoils, EndSeen, StepSets DEF RowSeen
    <3>2. ASSUME Lit(a)' PROVE LampSeen(a)'
      <4>1. LampSeen(a)
        BY <1>5, <2>2, <2>5, <3>2 DEF Lit
      <4> QED BY <1>0, <1>1, <1>4, <2>1, <2>2, <2>4, <2>5, <4>1, <1>spoils, EndSeen, StepSets
              DEF LampSeen, ReaderEnds, Steps, Opening
    <3> QED BY <3>1, <3>2
  <2> QED BY <1>0, <1>1, <2>1, <2>2, <2>4, <2>5, <1>spoils, EndOwns
<1> QED BY <1>9, <1>10, <1>11, <1>12, <1>13, <1>14, <1>15 DEF Step

(* The reader emits.                                                       *)
LEMMA EmitOwns ==
  ASSUME TypeOK, TypeOK', ReachInv, OwnInv, Emit \/ EmitSummary
  PROVE  OwnInv'
<1> USE DEF turnVars, stopVars, activeVars, logVars, stopTraces
<1>0. PICK a : a = Of(Agent)
  OBVIOUS
<1>spoils. StopsSpoil /\ spoiled' = spoiled /\ (Unspoiled(a)' => Unspoiled(a))
  BY DEF OwnInv, Emit, EmitSummary, Unspoiled
<1>1. /\ Agent \in Actors /\ Agent \notin Stops /\ AtWork(Agent)
      /\ job[Agent].at \notin Opening
  BY Bystanders DEF Emit, EmitSummary, Working, AtWork, Opening
<1>2. /\ job[Agent] \in Jobs /\ a \in Attachments /\ job[Agent].of = a
      /\ ChildOf(Agent) = a[2] /\ a[2] \in Children
  BY <1>0, <1>1, JobLemma DEF AtWork, Of, ChildOf
<1>3. /\ UNCHANGED <<phase, todo, att, rows, lit, reg, asked>>
      /\ entry' = [entry EXCEPT ![a[2]] = Ensure(entry[a[2]])]
  BY <1>2 DEF Emit, EmitSummary
<1>4. /\ Idle \in Jobs \cup {Idle} /\ Idle.at = "idle"
      /\ \/ job[Agent].at = "emit" /\ Become(Agent, Idle)
         \/ /\ job[Agent].at = "report"
            /\ Become(Agent, [job[Agent] EXCEPT !.at = "finish"])
  BY DEF Emit, EmitSummary, Working, Goto, Become, Idle
<1>5. PICK task \in Jobs \cup {Idle} :
        /\ Become(Agent, task) /\ task.at \in {"idle", "finish"}
        /\ task # Idle => task.of = a
        /\ task.at = "idle" => job[Agent].at = "emit"
        /\ task.at = "finish" => job[Agent].at = "report" /\ task.then = job[Agent].then
  <2>1. CASE job[Agent].at = "emit"
    BY <1>4, <2>1
  <2>2. CASE job[Agent].at = "report"
    <3> DEFINE task == [job[Agent] EXCEPT !.at = "finish"]
    <3>1. /\ task \in Jobs /\ task.at = "finish" /\ task.of = a
          /\ task.then = job[Agent].then
      BY <1>2 DEF Jobs, Steps
    <3>2. Become(Agent, task)
      BY <1>4, <2>2
    <3> QED BY <2>2, <3>1, <3>2
  <2> QED BY <1>4, <2>1, <2>2
<1>6. /\ entry \in [Children -> Entries(Ids, {})]
      /\ \A c \in Children : entry'[c] = entry[c] \/ entry'[c] = Ensure(entry[c])
  BY <1>2, <1>3 DEF TypeOK
<1>7. /\ \A c \in Children : entry[c].active => entry[c].exists
      /\ \A c \in Children : rows[c] \in Nat
  BY DEF TypeOK, OwnInv, LampIsOf
<1>8. \A c \in Children :
        entry'[c].active =>
          entry[c].active /\ entry'[c].turnId = entry[c].turnId /\ entry'[c].exists
  BY <1>6, <1>7, HubLamp
<1>9. EndGoesOn(Agent, task)
  BY <1>0, <1>3, <1>5, <1>7, <1>8 DEF EndGoesOn, Opening
<1>10. att[a].id # NoTurn
  BY <1>0, <1>1 DEF OwnInv, WorkIsAttached
<1>11. ASSUME Unspoiled(a) PROVE RowSeen(a)' /\ (Lit(a)' => LampSeen(a)')
  <2>1. RowSeen(a)
    BY <1>2, <1>10, <1>11 DEF OwnInv, RowsSeen
  <2>2. RowSeen(a)'
    BY <1>0, <1>1, <1>3, <1>5, <1>9, <1>11, <2>1, <1>spoils, EndSeen, StepSets DEF RowSeen
  <2>3. ASSUME Lit(a)' PROVE LampSeen(a)'
    <3>1. LampSeen(a)
      BY <1>2, <1>3, <1>8, <1>11, <2>3 DEF OwnInv, LampsSeen, Lit
    <3> QED BY <1>0, <1>1, <1>3, <1>5, <1>9, <1>11, <3>1, <1>spoils, EndSeen, StepSets
            DEF LampSeen, ReaderEnds, Steps, Opening
  <2> QED BY <2>2, <2>3
<1> QED BY <1>0, <1>1, <1>3, <1>5, <1>9, <1>11, <1>spoils, EndOwns

(* The reader takes up an update of the newest turn's child.               *)
LEMMA UpdateOwns ==
  ASSUME TypeOK, TypeOK', ReachInv, OwnInv, LateAttach = FALSE,
         NEW c \in Children, Attach(c) \/ Streams(c) \/ Reports(c)
  PROVE  OwnInv'
<1> USE DEF turnVars, stopVars, activeVars, logVars, stopTraces
<1>0. PICK a : a = <<handler, c>>
  OBVIOUS
<1>1. /\ handler \in Turns /\ handler \in Nat /\ a \in Attachments
      /\ job[Agent] = Idle /\ Agent \in Actors /\ Idle.at = "idle" /\ Started(handler)
      /\ a[1] = handler /\ a[2] = c
  <2>1. handler # 0 /\ job[Agent] = Idle
    BY DEF Attach, Streams, Reports, Known
  <2>2. handler \in Turns /\ handler \in Nat
    BY <2>1, ActorTypes DEF TypeOK
  <2> QED BY <1>0, <2>1, <2>2, ActorTypes DEF Idle, ReachInv, TurnsInOrder
<1>2. /\ UNCHANGED <<phase, todo, asked, reg, entry, lit, rows, spoiled>>
      /\ \A b : Unspoiled(b)' <=> Unspoiled(b)
  BY DEF Attach, Streams, Reports, Unspoiled
<1>3. PICK task \in Jobs :
        /\ Become(Agent, task) /\ task.of = a
        /\ \/ /\ task.at = "register" /\ att[a].id = NoTurn /\ phase[a[1]] = "running"
              /\ att' = [att EXCEPT ![a] = [att[a] EXCEPT !.id = rows[c] + 1]]
           \/ task.at = "emit" /\ att[a].noted # NoTurn /\ att' = att
           \/ /\ task.at \in {"report", "finish"} /\ task.then = "enter"
              /\ att[a].noted # NoTurn /\ att' = att
  <2>1. \A at \in {"register", "emit", "report", "finish"} :
          /\ Task(a, at) \in Jobs /\ Task(a, at).at = at /\ Task(a, at).of = a
          /\ LET task == [Task(a, at) EXCEPT !.then = "enter"] IN
               task \in Jobs /\ task.at = at /\ task.of = a /\ task.then = "enter"
    BY <1>1 DEF Task, Jobs, Steps, Opening, Thens
  <2>2. CASE Attach(c)
    <3>1. Become(Agent, Task(a, "register"))
      BY <1>0, <2>2 DEF Attach
    <3> QED BY <1>0, <1>1, <2>1, <2>2, <3>1 DEF Attach, Mint
  <2>3. CASE Streams(c)
    <3>1. Become(Agent, Task(a, "emit"))
      BY <1>0, <2>3 DEF Streams
    <3> QED BY <1>0, <2>1, <2>3, <3>1 DEF Streams, Known
  <2>4. CASE Reports(c)
    <3>1. PICK at \in {"report", "finish"} :
            Become(Agent, [Task(a, at) EXCEPT !.then = "enter"])
      BY <1>0, <2>4 DEF Reports
    <3> QED BY <1>0, <2>1, <2>4, <3>1 DEF Reports, Known
  <2> QED BY <2>2, <2>3, <2>4
<1>4. job'[Agent] = task /\ \A v \in Actors : v # Agent => job'[v] = job[v]
  BY <1>1, <1>3, BecomeLemma
<1>5. /\ \A b \in Attachments : /\ att'[b].noted = att[b].noted
                                /\ att'[b].closed = att[b].closed
                                /\ att'[b].sent = att[b].sent
                                /\ b # a => att'[b].id = att[b].id
      /\ att'[a].id = att[a].id \/ (att[a].id = NoTurn /\ att'[a].id = rows[c] + 1)
      /\ att'[a].id # NoTurn
  <2>1. CASE task.at = "register"
    <3>1. att' = [att EXCEPT ![a] = [att[a] EXCEPT !.id = rows[c] + 1]]
      BY <1>3, <2>1
    <3>2. rows[c] + 1 # NoTurn
      BY SubAgentsAssumption DEF TypeOK
    <3> QED BY <1>1, <1>3, <2>1, <3>1, <3>2 DEF TypeOK, AttStates
  <2>2. CASE task.at # "register"
    BY <1>1, <1>3, <2>2 DEF ReachInv, Noted
  <2> QED BY <2>1, <2>2
<1>6. /\ \A b \in Attachments : ~Attaching(b)
      /\ task.at = "register" => Attaching(a)'
      /\ "idle" \notin Opening /\ "register" \in Opening
  BY <1>1, <1>3, <1>4 DEF Attaching, Opening
<1>7. att'[a].id # att[a].id => task.at = "register"
  BY <1>3
<1>8. NotedIsId'
  <2>1. ASSUME NEW b \in Attachments
        PROVE  /\ att'[b].noted \in {NoTurn, att'[b].id}
               /\ att'[b].id # NoTurn =>
                    \/ att'[b].noted = att'[b].id
                    \/ Attaching(b)' /\ phase'[b[1]] = "running"
               /\ Unspoiled(b) /\ att'[b].closed => att'[b].noted # NoTurn
               /\ att'[b].id = NoTurn => ~att'[b].sent /\ ~att'[b].closed
    <3>1. /\ att[b].noted \in {NoTurn, att[b].id}
          /\ att[b].id # NoTurn => att[b].noted = att[b].id
          /\ Unspoiled(b) /\ att[b].closed => att[b].noted # NoTurn
          /\ att[b].id = NoTurn => ~att[b].sent /\ ~att[b].closed
      BY <1>6 DEF OwnInv, NotedIsId
    <3>2. CASE att'[b].id = att[b].id
      BY <1>5, <3>1, <3>2
    <3>3. CASE att'[b].id # att[b].id
      <4>1. b = a /\ att[b].id = NoTurn /\ task.at = "register" /\ phase'[b[1]] = "running"
        BY <1>2, <1>3, <1>5, <1>7, <3>3
      <4>2. Attaching(a)' /\ att'[a].noted = NoTurn /\ att'[a].id # NoTurn
        BY <1>5, <1>6, <3>1, <4>1
      <4> QED BY <1>5, <3>1, <4>1, <4>2
    <3> QED BY <3>2, <3>3
  <2> QED BY <1>2, <2>1 DEF NotedIsId
<1>9. /\ \A b \in Attachments : att[b].id # NoTurn => att'[b].id = att[b].id
      /\ \A v \in Actors : AtWork(v) => Of(v) \in Attachments
  BY <1>5, JobLemma DEF AtWork
<1>10. WorkIsAttached'
  <2>1. \A v \in Actors : AtWork(v)' => att'[Of(v)'].id # NoTurn
    BY <1>1, <1>3, <1>4, <1>5, <1>9 DEF OwnInv, WorkIsAttached, AtWork, Of
  <2>2. ASSUME NEW v \in Actors \ Stops, AtWork(v)', job'[v].at \notin Opening
        PROVE  att'[Of(v)'].noted # NoTurn
    <3>1. CASE v = Agent
      <4>1. Of(v)' = a /\ att[a].noted # NoTurn
        BY <1>3, <1>4, <1>6, <2>2, <3>1 DEF Of
      <4> QED BY <1>1, <1>5, <4>1
    <3>2. CASE v # Agent
      <4>1. Of(v)' = Of(v) /\ AtWork(v) /\ job[v].at \notin Opening
        BY <1>4, <2>2, <3>2 DEF Of, AtWork
      <4> QED BY <1>5, <1>9, <4>1 DEF OwnInv, WorkIsAttached
    <3> QED BY <3>1, <3>2
  <2>3. \A s \in Stops : \A b \in asked'[s] : att'[b].id # NoTurn
    BY <1>2, <1>9 DEF OwnInv, WorkIsAttached, TypeOK
  <2>4. \A d \in Children : reg'[d] # 0 => Id(reg[d], d)' # NoTurn
    <3>1. \A d \in Children : reg[d] # 0 => <<reg[d], d>> \in Attachments
      BY ActorTypes DEF TypeOK
    <3> QED BY <1>2, <1>9, <3>1 DEF OwnInv, WorkIsAttached, Id
  <2>5. \A t \in Turns : \A d \in todo'[t] : att'[<<t, d>>].noted # NoTurn
    <3>1. \A t \in Turns : todo[t] \subseteq Children /\ todo'[t] = todo[t]
      BY <1>2 DEF TypeOK
    <3>2. \A t \in Turns : \A d \in todo[t] : att[<<t, d>>].noted # NoTurn
      BY DEF OwnInv, WorkIsAttached
    <3>3. ASSUME NEW t \in Turns, NEW d \in todo'[t] PROVE att'[<<t, d>>].noted # NoTurn
      <4>1. d \in todo[t] /\ <<t, d>> \in Attachments
        BY <3>1, <3>3, ActorTypes
      <4> QED BY <1>5, <3>2, <4>1
    <3> QED BY <3>3
  <2> QED BY <2>1, <2>2, <2>3, <2>4, <2>5 DEF WorkIsAttached, Of
(* Every earlier turn has seen to its row.                                 *)
<1>11. ASSUME NEW u \in Turns, u < handler, Id(u, c) # NoTurn, Unspoiled(<<u, c>>)
       PROVE  Id(u, c) <= rows[c]
  <2>1. <<u, c>> \in Attachments
    BY ActorTypes
  <2>2. phase[u] \in Settled
    BY <1>1, <1>11 DEF ReachInv, TurnsInOrder
  <2>3. RowSeen(<<u, c>>)
    BY <1>11, <2>1 DEF OwnInv, RowsSeen, Id
  <2> QED BY <1>1, <2>2, <2>3 DEF RowSeen, ReaderAt, TurnAt, TurnOwes, Settled, Id
<1>12. IdsGrow'
  <2> SUFFICES ASSUME NEW t \in Turns, NEW d \in Children, att'[<<t, d>>].id # NoTurn
               PROVE  /\ att'[<<t, d>>].id <= rows[d] + 1
                      /\ \A u \in Turns :
                           u < t /\ att'[<<u, d>>].id # NoTurn /\ Unspoiled(<<u, d>>) =>
                             att'[<<u, d>>].id < att'[<<t, d>>].id
    BY <1>2 DEF IdsGrow, Id
  <2>1. <<t, d>> \in Attachments /\ t \in Nat /\ rows[d] \in Nat
    BY Bystanders, ActorTypes DEF TypeOK
  <2>2. CASE att[<<t, d>>].id # NoTurn
    <3>1. att'[<<t, d>>].id = att[<<t, d>>].id
      BY <1>9, <2>1, <2>2
    <3>2. ASSUME NEW u \in Turns, u < t, att'[<<u, d>>].id # NoTurn
          PROVE  att'[<<u, d>>].id = att[<<u, d>>].id
      <4>1. ASSUME att'[<<u, d>>].id # att[<<u, d>>].id PROVE FALSE
        <5>1. <<u, d>> \in Attachments
          BY ActorTypes
        <5>2. <<u, d>> = a
          BY <1>5, <4>1, <5>1
        <5>3. u = handler
          BY <1>0, <5>2
        <5> QED BY <1>1, <2>1, <2>2, <3>2, <5>3 DEF ReachInv, TurnsInOrder, Id
      <4> QED BY <4>1
    <3> QED BY <2>2, <3>1, <3>2 DEF OwnInv, IdsGrow, Id
  <2>3. CASE att[<<t, d>>].id = NoTurn
    <3>1. <<t, d>> = a /\ t = handler /\ d = c /\ att'[<<t, d>>].id = rows[d] + 1
      BY <1>0, <1>5, <2>1, <2>3
    <3>2. ASSUME NEW u \in Turns, u < t, att'[<<u, d>>].id # NoTurn,
                 Unspoiled(<<u, d>>)
          PROVE  att'[<<u, d>>].id < rows[d] + 1
      <4>1. u \in Nat /\ <<u, d>> \in Attachments /\ <<u, d>> # a
        BY <1>0, <2>1, <3>1, <3>2, Bystanders, ActorTypes
      <4>2. att'[<<u, d>>].id = Id(u, c) /\ Id(u, c) \in Nat
        BY <1>5, <3>1, <3>2, <4>1 DEF Id, TypeOK, AttStates, Ids
      <4>3. Id(u, c) <= rows[c]
        BY <1>11, <3>1, <3>2, <4>2
      <4> QED BY <2>1, <3>1, <4>2, <4>3
    <3> QED BY <2>1, <3>1, <3>2
  <2> QED BY <2>2, <2>3
<1>13. EndsCarryId'
  <2>1. ASSUME NEW v \in Actors, job'[v].at \in {"gate", "clear"}
        PROVE  Carries(v, job[v])'
    <3>1. v # Agent /\ job'[v] = job[v]
      BY <1>3, <1>4, <2>1
    <3>2. job[v].of \in Attachments /\ att[job[v].of].id # NoTurn
      BY <1>9, <2>1, <3>1 DEF OwnInv, WorkIsAttached, AtWork, Of
    <3> QED BY <1>9, <2>1, <3>1, <3>2 DEF OwnInv, EndsCarryId, Carries
  <2> QED BY <2>1 DEF EndsCarryId
<1>14. LampIsOf'
  <2>1. \A d \in Children : entry[d].active => Id(lit[d], d)' = Id(lit[d], d)
    BY <1>2, <1>9, ActorTypes DEF OwnInv, LampIsOf, Id
  <2> QED BY <1>2, <2>1 DEF OwnInv, LampIsOf
<1>15. ASSUME NEW b \in Attachments, Unspoiled(b)
       PROVE  (att'[b].id # NoTurn => RowSeen(b)') /\ (Lit(b)' => LampSeen(b)')
  <2>1. /\ \A S \in SUBSET Steps : TurnAt(S, b)' <=> TurnAt(S, b)
        /\ \A S \in SUBSET Steps : ~ReaderAt(S, b)
        /\ ~ReaderEnds(b)
    <3>1. b[1] # Agent /\ b[1] \in Actors
      BY Bystanders DEF Attachments
    <3> QED BY <1>1, <1>2, <1>4, <3>1, StepSets DEF TurnAt, ReaderAt, ReaderEnds
  <2>2. /\ ~ReaderAt({"write"}, b)'
        /\ ~ReaderAt({"write", "frame", "gate", "clear", "enter", "mark", "cut"}, b)'
        /\ ReaderAt(Steps \ (Opening \cup {"emit"}), b)' => ReaderEnds(b)'
    BY <1>3, <1>4 DEF ReaderAt, ReaderEnds, Opening
  <2>3. TurnOwes(b)' <=> TurnOwes(b)
    BY <1>2 DEF TurnOwes
  <2>4. ASSUME att'[b].id # NoTurn PROVE RowSeen(b)'
    <3>1. CASE att[b].id # NoTurn
      <4>1. RowSeen(b) /\ att'[b].id = att[b].id
        BY <1>9, <1>15, <3>1 DEF OwnInv, RowsSeen
      <4> QED BY <1>2, <1>5, <2>1, <2>2, <2>3, <4>1, StepSets DEF RowSeen
    <3>2. CASE att[b].id = NoTurn
      <4>1. b = a /\ phase'[b[1]] = "running" /\ ~att[b].sent /\ ~att[b].closed
        BY <1>2, <1>3, <1>5, <1>7, <2>4, <3>2 DEF OwnInv, NotedIsId
      <4>2. ~att'[b].sent /\ ~att'[b].closed
        BY <1>5, <4>1
      <4> QED BY <2>2, <4>1, <4>2 DEF RowSeen
    <3> QED BY <3>1, <3>2
  <2>5. ASSUME Lit(b)' PROVE LampSeen(b)'
    <3>1. LampSeen(b)
      BY <1>2, <1>15, <2>5 DEF OwnInv, LampsSeen, Lit
    <3> QED BY <1>2, <1>5, <2>1, <2>2, <2>3, <3>1, StepSets DEF LampSeen
  <2> QED BY <2>4, <2>5
<1>16. RowsSeen' /\ LampsSeen'
  BY <1>2, <1>15 DEF RowsSeen, LampsSeen
<1>17. StopsSpoil'
  BY <1>2, <1>4, Bystanders DEF OwnInv, StopsSpoil, AtWork, Of
<1> QED BY <1>8, <1>10, <1>12, <1>13, <1>14, <1>16, <1>17 DEF OwnInv

(* The reader attaches a child, one step after the other.                  *)
LEMMA OpeningOwns ==
  ASSUME TypeOK, TypeOK', ReachInv, OwnInv, Register \/ Bind \/ Light \/ Enlist
  PROVE  OwnInv'
<1> USE DEF turnVars, stopVars, activeVars, logVars, stopTraces
<1>0. PICK a : a = Of(Agent)
  OBVIOUS
<1>1. Agent \in Actors /\ AtWork(Agent) /\ job[Agent].at \in Opening
  BY Bystanders DEF Register, Bind, Light, Enlist, Working, AtWork, Opening
<1>2. /\ job[Agent] \in Jobs /\ a \in Attachments /\ a[1] \in Turns /\ a[2] \in Children
      /\ a = <<a[1], a[2]>> /\ att[a] \in AttStates /\ ChildOf(Agent) = a[2]
      /\ job[Agent].of = a
  BY <1>0, <1>1, JobLemma DEF AtWork, Of, ChildOf
<1>3. /\ Attaching(a) /\ att[a].id # NoTurn /\ att[a].noted = NoTurn
      /\ phase[a[1]] = "running" /\ (Unspoiled(a) => ~att[a].closed)
  <2>1. Attaching(a) /\ att[a].id # NoTurn
    BY <1>0, <1>1, <1>2 DEF Attaching, OwnInv, WorkIsAttached
  <2>2. att[a].noted = NoTurn
    BY <1>2, <2>1 DEF ReachInv, Noted
  <2> QED BY <1>2, <2>1, <2>2 DEF OwnInv, NotedIsId
<1>4. PICK task \in Jobs \cup {Idle} :
        /\ Become(Agent, task)
        /\ task # Idle => task.of = a
        /\ \/ ~Enlist /\ task.at \in {"bind", "light", "enlist"} /\ att' = att
           \/ Enlist /\ task.at \in {"emit", "idle"}
  <2>1. ASSUME NEW at \in {"bind", "light", "enlist"}, Goto(Agent, at)
        PROVE  \E task \in Jobs : Become(Agent, task) /\ task.at = at /\ task.of = a
    <3> DEFINE task == [job[Agent] EXCEPT !.at = at]
    <3>1. task \in Jobs /\ task.at = at /\ task.of = a /\ Become(Agent, task)
      BY <1>2, <2>1 DEF Jobs, Steps, Opening, Goto, Become
    <3> QED BY <3>1
  <2>2. CASE Register \/ Bind \/ Light
    <3>1. /\ ~Enlist /\ att' = att
          /\ \E at \in {"bind", "light", "enlist"} : Goto(Agent, at)
      BY <2>2 DEF Register, Bind, Light, Enlist, Working
    <3> QED BY <2>1, <3>1
  <2>3. CASE Enlist
    <3>1. /\ Task(a, "emit") \in Jobs /\ Task(a, "emit").at = "emit"
          /\ Task(a, "emit").of = a /\ Idle.at = "idle"
      BY <1>2, TaskLemma DEF Steps, Idle
    <3>2. Become(Agent, Idle) \/ Become(Agent, Task(a, "emit"))
      BY <1>0, <2>3 DEF Enlist
    <3> QED BY <2>3, <3>1, <3>2
  <2> QED BY <2>2, <2>3
<1>5. /\ job'[Agent] = task /\ \A v \in Actors : v # Agent => job'[v] = job[v]
      /\ Idle.at = "idle"
  BY <1>1, <1>4, BecomeLemma DEF Idle
<1>6. /\ \A b \in Attachments : /\ att'[b].id = att[b].id /\ att'[b].sent = att[b].sent
                                /\ att'[b].closed = att[b].closed
                                /\ b # a => att'[b].noted = att[b].noted
      /\ att'[a].noted = IF Enlist THEN att[a].id ELSE NoTurn
  <2>1. CASE Enlist
    <3>1. att' = [att EXCEPT ![a] = [att[a] EXCEPT !.noted = att[a].id]]
      BY <1>0, <2>1 DEF Enlist
    <3> QED BY <1>2, <2>1, <3>1 DEF TypeOK, AttStates
  <2>2. CASE ~Enlist
    BY <1>3, <1>4, <2>2
  <2> QED BY <2>1, <2>2
<1>7. /\ UNCHANGED <<phase, todo, asked, rows, spoiled>>
      /\ \A c \in Children : reg'[c] # reg[c] => c = a[2] /\ reg'[c] = a[1]
      /\ \A b : Unspoiled(b)' <=> Unspoiled(b)
  BY <1>0, <1>2 DEF Register, Bind, Light, Enlist, TypeOK, Unspoiled
<1>8. /\ \A b \in Attachments : b # a => ~Attaching(b)
      /\ ~Enlist => Attaching(a)'
  BY <1>2, <1>3, <1>4, <1>5 DEF Attaching, Opening, Idle
<1>9. NotedIsId'
  <2>1. ASSUME NEW b \in Attachments
        PROVE  /\ att'[b].noted \in {NoTurn, att'[b].id}
               /\ att'[b].id # NoTurn =>
                    \/ att'[b].noted = att'[b].id
                    \/ Attaching(b)' /\ phase'[b[1]] = "running"
               /\ Unspoiled(b) /\ att'[b].closed => att'[b].noted # NoTurn
               /\ att'[b].id = NoTurn => ~att'[b].sent /\ ~att'[b].closed
    <3>1. /\ att[b].noted \in {NoTurn, att[b].id}
          /\ att[b].id # NoTurn => att[b].noted = att[b].id \/ Attaching(b)
          /\ Unspoiled(b) /\ att[b].closed => att[b].noted # NoTurn
          /\ att[b].id = NoTurn => ~att[b].sent /\ ~att[b].closed
      BY DEF OwnInv, NotedIsId
    <3>2. CASE b # a
      BY <1>6, <1>8, <3>1, <3>2
    <3>3. CASE b = a
      BY <1>3, <1>6, <1>7, <1>8, <3>1, <3>3
    <3> QED BY <3>2, <3>3
  <2> QED BY <1>7, <2>1 DEF NotedIsId
<1>10. WorkIsAttached'
  <2>1. \A v \in Actors : AtWork(v) => Of(v) \in Attachments
    BY JobLemma DEF AtWork
  <2>2. \A v \in Actors : AtWork(v)' => AtWork(v) /\ Of(v)' = Of(v)
    BY <1>1, <1>2, <1>4, <1>5 DEF AtWork, Of
  <2>3. \A v \in Actors : AtWork(v)' => att'[Of(v)'].id # NoTurn
    BY <1>6, <2>1, <2>2 DEF OwnInv, WorkIsAttached
  <2>4. \A b \in Attachments : att[b].noted # NoTurn => att'[b].noted # NoTurn
    BY <1>3, <1>6
  <2>5. ASSUME NEW v \in Actors \ Stops, AtWork(v)', job'[v].at \notin Opening
        PROVE  att'[Of(v)'].noted # NoTurn
    <3>1. CASE v = Agent
      <4>1. Enlist /\ Of(v)' = a
        BY <1>0, <1>4, <1>5, <2>2, <2>5, <3>1 DEF Opening
      <4> QED BY <1>3, <1>6, <4>1
    <3>2. CASE v # Agent
      BY <1>5, <2>1, <2>2, <2>4, <2>5, <3>2 DEF OwnInv, WorkIsAttached
    <3> QED BY <3>1, <3>2
  <2>6. \A s \in Stops : \A b \in asked'[s] : att'[b].id # NoTurn
    BY <1>6, <1>7 DEF OwnInv, WorkIsAttached, TypeOK
  <2>7. ASSUME NEW d \in Children, reg'[d] # 0 PROVE Id(reg[d], d)' # NoTurn
    <3>1. CASE reg'[d] = reg[d]
      <4>1. <<reg[d], d>> \in Attachments /\ att[<<reg[d], d>>].id # NoTurn
        BY <2>7, <3>1, ActorTypes DEF TypeOK, OwnInv, WorkIsAttached, Id
      <4> QED BY <1>6, <3>1, <4>1 DEF Id
    <3>2. CASE reg'[d] # reg[d]
      <4>1. <<reg'[d], d>> = a
        BY <1>2, <1>7, <3>2
      <4> QED BY <1>2, <1>3, <1>6, <4>1 DEF Id
    <3> QED BY <3>1, <3>2
  <2>8. ASSUME NEW t \in Turns, NEW d \in todo'[t] PROVE att'[<<t, d>>].noted # NoTurn
    <3>1. d \in todo[t] /\ <<t, d>> \in Attachments
      BY <1>7, <2>8, ActorTypes DEF TypeOK
    <3> QED BY <2>4, <3>1 DEF OwnInv, WorkIsAttached
  <2> QED BY <2>3, <2>5, <2>6, <2>7, <2>8 DEF WorkIsAttached, Of
<1>11. IdsGrow'
  <2>1. \A t \in Turns, d \in Children : Id(t, d)' = Id(t, d)
    BY <1>6, ActorTypes DEF Id
  <2> QED BY <1>7, <2>1 DEF OwnInv, IdsGrow
<1>12. EndsCarryId'
  <2>1. ASSUME NEW v \in Actors, job'[v].at \in {"gate", "clear"}
        PROVE  Carries(v, job[v])'
    <3>1. v # Agent /\ job'[v] = job[v]
      BY <1>4, <1>5, <2>1
    <3>2. job[v].of \in Attachments
      BY <2>1, <3>1, JobLemma DEF Of
    <3> QED BY <1>6, <2>1, <3>1, <3>2 DEF OwnInv, EndsCarryId, Carries
  <2> QED BY <2>1 DEF EndsCarryId
<1>13. /\ entry \in [Children -> Entries(Ids, {})]
       /\ \/ ~Light /\ UNCHANGED <<entry, lit>>
          \/ /\ Light /\ lit' = [lit EXCEPT ![a[2]] = a[1]]
             /\ entry' = [entry EXCEPT ![a[2]] = SetPending(entry[a[2]], att[a].id)]
  BY <1>0, <1>2 DEF Register, Bind, Light, Enlist, Working, TypeOK
<1>14. LampIsOf'
  <2> SUFFICES ASSUME NEW c \in Children, entry'[c].active
               PROVE  /\ lit'[c] \in Turns /\ Id(lit[c], c)' # NoTurn
                      /\ entry'[c].turnId = Id(lit[c], c)' /\ entry'[c].exists
    BY DEF LampIsOf
  <2>1. CASE Light /\ c = a[2]
    <3>1. lit'[c] = a[1] /\ entry'[c] = SetPending(entry[c], att[a].id)
      BY <1>2, <1>13, <2>1 DEF TypeOK
    <3>2. entry'[c].turnId = att[a].id /\ entry'[c].exists
      BY <1>13, <3>1, HubLamp
    <3>3. Id(lit[c], c)' = att[a].id
      BY <1>2, <1>6, <2>1, <3>1 DEF Id
    <3> QED BY <1>2, <1>3, <3>1, <3>2, <3>3
  <2>2. CASE ~Light \/ c # a[2]
    <3>1. entry'[c] = entry[c] /\ lit'[c] = lit[c]
      BY <1>13, <2>2 DEF TypeOK
    <3>2. lit[c] \in Turns /\ Id(lit[c], c) # NoTurn /\ entry[c].turnId = Id(lit[c], c)
          /\ entry[c].exists
      BY <3>1 DEF OwnInv, LampIsOf
    <3>3. Id(lit[c], c)' = Id(lit[c], c)
      BY <1>6, <3>1, <3>2, ActorTypes DEF Id
    <3> QED BY <3>1, <3>2, <3>3
  <2> QED BY <2>1, <2>2
<1>15. ASSUME NEW b \in Attachments, Unspoiled(b)
       PROVE  (att'[b].id # NoTurn => RowSeen(b)') /\ (Lit(b)' => LampSeen(b)')
  <2>1. \A S \in SUBSET Steps : TurnAt(S, b)' <=> TurnAt(S, b)
    <3>1. b[1] # Agent /\ b[1] \in Actors
      BY Bystanders DEF Attachments
    <3> QED BY <1>5, <1>7, <3>1 DEF TurnAt
  <2>2. /\ ~ReaderEnds(b)
        /\ ~ReaderAt({"write"}, b) /\ ~ReaderAt({"write"}, b)'
        /\ ~ReaderAt({"write", "frame", "gate", "clear", "enter", "mark", "cut"}, b)'
        /\ ~ReaderAt(Steps \ (Opening \cup {"emit"}), b)'
    BY <1>1, <1>4, <1>5 DEF ReaderAt, ReaderEnds, Opening, Steps
  <2>3. TurnOwes(b)' <=> TurnOwes(b)
    BY <1>7 DEF TurnOwes
  <2>4. ASSUME att'[b].id # NoTurn PROVE RowSeen(b)'
    <3>1. RowSeen(b) /\ att'[b].id = att[b].id
      BY <1>6, <1>15, <2>4 DEF OwnInv, RowsSeen
    <3> QED BY <1>6, <1>7, <2>1, <2>2, <2>3, <3>1, StepSets DEF RowSeen
  <2>5. ASSUME Lit(b)' PROVE LampSeen(b)'
    <3>1. CASE b = a
      <4>1. phase'[b[1]] = "running" /\ ~att'[b].closed
        BY <1>2, <1>3, <1>6, <1>7, <1>15, <3>1
      <4> QED BY <2>2, <4>1 DEF LampSeen
    <3>2. CASE b # a
      <4>1. b[1] \in Turns /\ b[2] \in Children /\ b = <<b[1], b[2]>>
        BY DEF Attachments
      <4>2. Lit(b)
        <5>1. ~(Light /\ b[2] = a[2])
          <6>1. ASSUME Light, b[2] = a[2] PROVE FALSE
            <7>1. lit'[b[2]] = a[1]
              BY <1>2, <1>13, <6>1 DEF TypeOK
            <7>2. b[1] = a[1]
              BY <2>5, <7>1 DEF Lit
            <7> QED BY <1>2, <3>2, <4>1, <6>1, <7>2
          <6> QED BY <6>1
        <5>2. entry'[b[2]] = entry[b[2]] /\ lit'[b[2]] = lit[b[2]]
          BY <1>13, <4>1, <5>1 DEF TypeOK
        <5> QED BY <2>5, <5>2 DEF Lit
      <4>3. LampSeen(b)
        BY <1>15, <4>2 DEF OwnInv, LampsSeen
      <4> QED BY <1>6, <1>7, <2>1, <2>2, <2>3, <4>3, StepSets DEF LampSeen
    <3> QED BY <3>1, <3>2
  <2> QED BY <2>4, <2>5
<1>16. RowsSeen' /\ LampsSeen'
  BY <1>7, <1>15 DEF RowsSeen, LampsSeen
<1>17. StopsSpoil'
  BY <1>5, <1>7, Bystanders DEF OwnInv, StopsSpoil, AtWork, Of
<1> QED BY <1>9, <1>10, <1>11, <1>12, <1>14, <1>16, <1>17 DEF OwnInv

(* A turn that is at no child moves on.                                    *)
LEMMA PhaseOwns ==
  ASSUME TypeOK, TypeOK', ReachInv, OwnInv, LateAttach = FALSE, NEW t \in Turns,
         StartTurn(t) \/ EndTurn(t) \/ ReturnTurn(t) \/ Snapshot(t) \/ Drained(t)
  PROVE  OwnInv'
<1> USE DEF turnVars, stopVars, activeVars, logVars, stopTraces
<1>1. /\ UNCHANGED <<att, job, asked, reg, entry, rows, lit, spoiled>>
      /\ \A u \in Turns : u # t => phase'[u] = phase[u] /\ todo'[u] = todo[u]
      /\ todo'[t] \subseteq todo[t] \cup Listed(t)
  BY DEF StartTurn, EndTurn, ReturnTurn, Snapshot, Drained, SetPhase, TypeOK
<1>2. /\ \A a \in Attachments : a[1] \in Turns /\ a[2] \in Children /\ a = <<a[1], a[2]>>
      /\ t \in Actors /\ t # Agent
  BY Bystanders DEF Attachments
<1>3. ~AtWork(t)
  BY DEF StartTurn, EndTurn, ReturnTurn, Snapshot, Drained, ReachInv, WorkIsOwn, AtWork, Started,
         Idle
<1>4. \A a \in Attachments : Attaching(a)' <=> Attaching(a)
  BY <1>1 DEF Attaching
<1>5. \A a \in Attachments :
        Attaching(a) /\ phase[a[1]] = "running" => phase'[a[1]] = "running"
  <2>1. ASSUME NEW a \in Attachments, Attaching(a), phase[a[1]] = "running", a[1] = t
        PROVE  phase'[t] = "running"
    <3>1. Opens(t)
      BY <2>1 DEF Attaching, Opens
    <3> QED BY <2>1, <3>1 DEF StartTurn, EndTurn, ReturnTurn, Snapshot, Drained, SetPhase, TypeOK
  <2> QED BY <1>1, <1>2, <2>1
<1>6. NotedIsId'
  BY <1>1, <1>4, <1>5 DEF OwnInv, NotedIsId, Unspoiled
<1>7. WorkIsAttached'
  <2>1. ASSUME NEW u \in Turns, NEW d \in todo'[u] PROVE att[<<u, d>>].noted # NoTurn
    <3>1. d \in todo[u] \/ (u = t /\ d \in Listed(t))
      BY <1>1, <2>1
    <3> QED BY <3>1 DEF OwnInv, WorkIsAttached, Listed
  <2> QED BY <1>1, <2>1 DEF OwnInv, WorkIsAttached, AtWork, Of, Id
<1>8. IdsGrow' /\ EndsCarryId' /\ LampIsOf' /\ StopsSpoil'
  BY <1>1 DEF OwnInv, IdsGrow, EndsCarryId, Carries, LampIsOf, StopsSpoil, Unspoiled, AtWork,
              Of, Id
<1>9. ASSUME NEW b \in Attachments, Unspoiled(b)
      PROVE  (att[b].id # NoTurn => RowSeen(b)') /\ (Lit(b) => LampSeen(b)')
  <2>1. /\ att[b].id # NoTurn => RowSeen(b)
        /\ Lit(b) => LampSeen(b)
    BY <1>9 DEF OwnInv, RowsSeen, LampsSeen
  <2>2. /\ \A S : ReaderAt(S, b)' <=> ReaderAt(S, b)
        /\ ReaderEnds(b)' <=> ReaderEnds(b)
    BY <1>1 DEF ReaderAt, ReaderEnds
  <2>3. CASE b[1] # t
    <3>1. /\ \A S : TurnAt(S, b)' <=> TurnAt(S, b)
          /\ TurnOwes(b)' <=> TurnOwes(b)
          /\ phase'[b[1]] = phase[b[1]]
      BY <1>1, <1>2, <2>3 DEF TurnAt, TurnOwes
    <3> QED BY <1>1, <2>1, <2>2, <3>1 DEF RowSeen, LampSeen
  <2>4. CASE b[1] = t
    <3>1. \A S \in SUBSET Steps : ~TurnAt(S, b) /\ ~TurnAt(S, b)'
      BY <1>1, <1>3, <2>4, StepSets DEF TurnAt, AtWork
    <3>2. \/ phase'[t] = "running" /\ phase[t] = "waiting"
          \/ /\ phase[t] = "running" /\ phase'[t] = "finishing"
             /\ todo'[t] = Listed(t) /\ ~Opens(t)
          \/ /\ phase[t] \notin {"waiting", "running"} /\ phase'[t] # "finishing"
             /\ phase[t] = "finishing" => todo[t] = {}
      BY DEF StartTurn, EndTurn, ReturnTurn, Snapshot, Drained, SetPhase, TypeOK
    <3>3. phase[t] = "running" /\ att[b].id # NoTurn =>
            phase'[t] = "running" \/ TurnOwes(b)'
      <4>1. ASSUME phase[t] = "running", att[b].id # NoTurn PROVE TurnOwes(b)'
        <5>1. phase'[t] = "finishing" /\ todo'[t] = Listed(t) /\ ~Opens(t)
          BY <3>2, <4>1
        <5>2. ~Attaching(b)
          BY <2>4, <5>1 DEF Attaching, Opens
        <5>3. att[b].noted # NoTurn
          BY <4>1, <5>2 DEF OwnInv, NotedIsId
        <5>4. b[2] \in Listed(t)
          BY <1>2, <2>4, <5>3 DEF Listed
        <5> QED BY <2>4, <5>1, <5>4 DEF TurnOwes
      <4> QED BY <4>1
    <3>4. TurnOwes(b) => FALSE
      BY <2>4, <3>2 DEF TurnOwes
    <3>5. Lit(b) => att[b].id # NoTurn
      BY <1>2 DEF OwnInv, LampIsOf, Lit, Id
    <3>6. ASSUME att[b].id # NoTurn PROVE RowSeen(b)'
      BY <1>1, <2>1, <2>2, <2>4, <3>1, <3>2, <3>3, <3>4, <3>6, StepSets DEF RowSeen
    <3>7. ASSUME Lit(b) PROVE LampSeen(b)'
      BY <1>1, <2>1, <2>2, <2>4, <3>1, <3>2, <3>3, <3>4, <3>5, <3>7, StepSets DEF LampSeen
    <3> QED BY <3>6, <3>7
  <2> QED BY <2>3, <2>4
<1>10. RowsSeen' /\ LampsSeen'
  <2>1. \A b \in Attachments : Lit(b)' <=> Lit(b)
    BY <1>1 DEF Lit
  <2> QED BY <1>1, <1>9, <2>1 DEF RowsSeen, LampsSeen, Unspoiled
<1> QED BY <1>6, <1>7, <1>8, <1>10 DEF OwnInv

(* A turn that is at no child, or a stop, is given a child to end.         *)
LEMMA GivenOwns ==
  ASSUME TypeOK, TypeOK', ReachInv, OwnInv, NEW w \in Turns \cup Stops,
         NEW task \in Jobs, Become(w, task), task.at \notin Opening \cup {"idle"},
         att[task.of].id # NoTurn,
         w \in Turns => job[w] = Idle /\ task.of[1] = w /\ att[task.of].noted # NoTurn,
         task.at \in {"gate", "clear"} => Carries(w, task),
         spoiled \subseteq spoiled', w \in Stops => task.of \in spoiled',
         UNCHANGED <<phase, att, reg, entry, rows, lit>>,
         \A s \in Stops : asked'[s] \subseteq asked[s],
         \A t \in Turns : \A c \in todo[t] :
           c \in todo'[t] \/ (w = t /\ task.of = <<t, c>> /\
                                (phase[t] = "finishing" => task.at = "enter")),
         \A t \in Turns : todo'[t] \subseteq todo[t]
  PROVE  OwnInv'
<1>1. /\ w \in Actors /\ w # Agent /\ Agent \in Actors
      /\ w \in Stops => w \notin Turns
      /\ Idle.at = "idle" /\ task.of \in Attachments
      /\ \A a \in Attachments : /\ a[1] \in Turns /\ a[2] \in Children
                                /\ a = <<a[1], a[2]>> /\ a[1] \in Actors
  BY Bystanders DEF Idle, Jobs, Attachments
<1>2. /\ job'[w] = task /\ \A v \in Actors : v # w => job'[v] = job[v]
      /\ job'[Agent] = job[Agent]
  BY <1>1, BecomeLemma
<1>3. NotedIsId' /\ StopsSpoil'
  BY <1>1, <1>2, Bystanders
     DEF OwnInv, NotedIsId, StopsSpoil, Unspoiled, Attaching, AtWork, Of
<1>4. WorkIsAttached'
  <2>1. \A v \in Actors : AtWork(v)' => att[Of(v)'].id # NoTurn
    BY <1>2 DEF OwnInv, WorkIsAttached, AtWork, Of
  <2>2. \A v \in Actors \ Stops :
          AtWork(v)' /\ job'[v].at \notin Opening => att[Of(v)'].noted # NoTurn
    BY <1>1, <1>2 DEF OwnInv, WorkIsAttached, AtWork, Of
  <2>3. \A s \in Stops : \A b \in asked'[s] : att[b].id # NoTurn
    BY DEF OwnInv, WorkIsAttached
  <2>4. \A t \in Turns : \A c \in todo'[t] : att[<<t, c>>].noted # NoTurn
    BY DEF OwnInv, WorkIsAttached
  <2> QED BY <2>1, <2>2, <2>3, <2>4 DEF OwnInv, WorkIsAttached, Id, Of
<1>5. IdsGrow' /\ LampIsOf'
  BY DEF OwnInv, IdsGrow, LampIsOf, Unspoiled, Id
<1>6. EndsCarryId'
  BY <1>2 DEF OwnInv, EndsCarryId, Carries
<1>7. ASSUME NEW b \in Attachments, Unspoiled(b)
      PROVE  (att[b].id # NoTurn => RowSeen(b)') /\ (Lit(b) => LampSeen(b)')
  <2>1. /\ att[b].id # NoTurn => RowSeen(b)
        /\ Lit(b) => LampSeen(b)
    BY <1>7 DEF OwnInv, RowsSeen, LampsSeen
  <2>2. /\ \A S : ReaderAt(S, b)' <=> ReaderAt(S, b)
        /\ ReaderEnds(b)' <=> ReaderEnds(b)
    BY <1>2 DEF ReaderAt, ReaderEnds
  <2>3. CASE b[1] # w
    <3>1. job'[b[1]] = job[b[1]]
      BY <1>1, <1>2, <2>3
    <3>2. \A S : TurnAt(S, b)' <=> TurnAt(S, b)
      BY <3>1 DEF TurnAt
    <3>3. TurnOwes(b)' <=> TurnOwes(b)
      BY <1>1, <2>3 DEF TurnOwes
    <3> QED BY <2>1, <2>2, <3>2, <3>3 DEF RowSeen, LampSeen
  <2>4. CASE b[1] = w
    <3>1. \A S \in SUBSET Steps : ~TurnAt(S, b)
      BY <1>1, <2>4, StepSets DEF TurnAt
    <3>2. TurnOwes(b) =>
            TurnOwes(b)' \/ (TurnAt({"enter", "mark", "finish"}, b)' /\ TurnAt(Steps, b)')
      BY <1>1, <1>2, <2>4, StepSets DEF TurnOwes, TurnAt
    <3> QED BY <2>1, <2>2, <3>1, <3>2, StepSets DEF RowSeen, LampSeen
  <2> QED BY <2>3, <2>4
<1>8. RowsSeen' /\ LampsSeen'
  <2>1. \A b \in Attachments : Lit(b)' <=> Lit(b)
    BY DEF Lit
  <2> QED BY <1>7, <2>1 DEF RowsSeen, LampsSeen, Unspoiled
<1> QED BY <1>3, <1>4, <1>5, <1>6, <1>8 DEF OwnInv

LEMMA TurnOwns ==
  ASSUME TypeOK, TypeOK', ReachInv, OwnInv, LateAttach = FALSE, NEW t \in Turns,
         StartTurn(t) \/ TurnStep(t)
  PROVE  OwnInv'
<1> USE DEF turnVars, stopVars, activeVars, logVars, stopTraces
<1>1. CASE FinishChild(t)
  <2>1. PICK c \in todo[t] : /\ todo' = [todo EXCEPT ![t] = @ \ {c}]
                             /\ Become(t, Task(<<t, c>>, "enter"))
    BY <1>1 DEF FinishChild
  <2>2. PICK a : a = <<t, c>>
    OBVIOUS
  <2>3. a \in Attachments /\ a[1] = t
    BY <2>2, ActorTypes DEF TypeOK
  <2>4. PICK task \in Jobs : Become(t, task) /\ task.at = "enter" /\ task.of = a
    BY <2>1, <2>2, <2>3, TaskLemma DEF Steps
  <2>5. att[a].noted # NoTurn /\ att[a].id # NoTurn
    BY <2>2, <2>3 DEF OwnInv, WorkIsAttached, ReachInv, Noted
  <2>6. /\ \A u \in Turns : \A d \in todo[u] :
             d \in todo'[u] \/ (t = u /\ task.of = <<u, d>>)
        /\ \A u \in Turns : todo'[u] \subseteq todo[u]
    BY <2>1, <2>2, <2>4 DEF TypeOK
  <2>7. job[t] = Idle /\ UNCHANGED <<phase, att, reg, entry, rows, lit, asked, spoiled>>
    BY <1>1 DEF FinishChild
  <2> QED BY <2>3, <2>4, <2>5, <2>6, <2>7, GivenOwns, Bystanders DEF Opening
<1>2. CASE DrainChild(t)
  <2> DEFINE given(d) == [at |-> "gate", of |-> <<t, d>>, id |-> att[<<t, d>>].noted,
                          then |-> "idle"]
  <2>1. PICK c \in todo[t] : /\ todo' = [todo EXCEPT ![t] = @ \ {c}]
                             /\ Become(t, given(c))
    BY <1>2 DEF DrainChild
  <2>2. PICK a : a = <<t, c>>
    OBVIOUS
  <2>3. a \in Attachments /\ a[1] = t
    BY <2>2, ActorTypes DEF TypeOK
  <2>4. att[a].noted \in Ids \cup {NoTurn}
    BY <2>3 DEF TypeOK, AttStates
  <2>5. PICK task \in Jobs :
          Become(t, task) /\ task.at = "gate" /\ task.of = a /\ task.id = att[a].noted
    <3>1. given(c) \in Jobs
      BY <2>2, <2>3, <2>4 DEF Jobs, Steps, Thens
    <3>2. given(c).at = "gate" /\ given(c).of = a /\ given(c).id = att[a].noted
      BY <2>2
    <3> HIDE DEF given
    <3> QED BY <2>1, <3>1, <3>2
  <2> HIDE DEF given
  <2>6. att[a].noted # NoTurn /\ att[a].id # NoTurn /\ att[a].noted = att[a].id
    BY <2>2, <2>3 DEF OwnInv, WorkIsAttached, ReachInv, Noted, NotedIsId
  <2>7. /\ \A u \in Turns : \A d \in todo[u] :
             d \in todo'[u] \/ (t = u /\ task.of = <<u, d>>)
        /\ \A u \in Turns : todo'[u] \subseteq todo[u]
    BY <2>1, <2>2, <2>5 DEF TypeOK
  <2>8. /\ job[t] = Idle /\ phase[t] = "draining"
        /\ UNCHANGED <<phase, att, reg, entry, rows, lit, asked, spoiled>>
    BY <1>2 DEF DrainChild
  <2>9. Carries(t, task)
    BY <2>5, <2>6 DEF Carries
  <2> QED BY <2>3, <2>5, <2>6, <2>7, <2>8, <2>9, GivenOwns, Bystanders DEF Opening
<1> QED BY <1>1, <1>2, PhaseOwns DEF TurnStep

LEMMA StopOwns ==
  ASSUME TypeOK, TypeOK', ReachInv, OwnInv, NEW s \in Stops, Press(s) \/ CarryOut(s)
  PROVE  OwnInv'
<1> USE DEF turnVars, stopVars, activeVars, logVars, stopTraces
<1>1. ASSUME UNCHANGED <<phase, todo, att, job, reg, entry, rows, lit, spoiled>>,
             \A r \in Stops : \A a \in asked'[r] : att[a].id # NoTurn
      PROVE  OwnInv'
  <2>1. /\ NotedIsId' /\ WorkIsAttached' /\ IdsGrow' /\ EndsCarryId' /\ LampIsOf'
        /\ StopsSpoil'
    BY <1>1 DEF OwnInv, StopsSpoil, NotedIsId, WorkIsAttached, IdsGrow, EndsCarryId, Carries, LampIsOf,
                Unspoiled, Attaching, AtWork, Of, Id
  <2>2. \A a \in Attachments : /\ RowSeen(a)' <=> RowSeen(a)
                               /\ LampSeen(a)' <=> LampSeen(a)
                               /\ Lit(a)' <=> Lit(a)
    BY <1>1 DEF RowSeen, LampSeen, Lit, ReaderEnds, ReaderAt, TurnAt, TurnOwes
  <2>3. RowsSeen' /\ LampsSeen'
    BY <1>1, <2>2 DEF OwnInv, RowsSeen, LampsSeen, Unspoiled
  <2> QED BY <2>1, <2>3 DEF OwnInv
<1>2. CASE Press(s)
  <2>1. PICK c \in Children :
          reg[c] # 0 /\ asked' = [asked EXCEPT ![s] = {<<reg[c], c>>}]
    BY <1>2 DEF Press
  <2>2. att[<<reg[c], c>>].id # NoTurn
    BY <2>1 DEF OwnInv, WorkIsAttached, Id
  <2>3. \A r \in Stops : \A a \in asked'[r] : att[a].id # NoTurn
    BY <2>1, <2>2 DEF OwnInv, WorkIsAttached, TypeOK
  <2> QED BY <1>1, <1>2, <2>3 DEF Press
<1>3. CASE CarryOut(s)
  <2>1. PICK a \in asked[s] :
          /\ asked' = [asked EXCEPT ![s] = {}]
          /\ \/ Become(s, Task(a, "enter")) /\ spoiled' = spoiled \cup {a}
             \/ UNCHANGED <<job, spoiled>>
          /\ UNCHANGED <<phase, todo, att, reg, entry, rows, lit>>
    BY <1>3 DEF CarryOut, Become
  <2>2. \A r \in Stops : asked'[r] \subseteq asked[r]
    BY <2>1 DEF TypeOK
  <2>3. a \in Attachments /\ att[a].id # NoTurn
    BY DEF TypeOK, OwnInv, WorkIsAttached
  <2>4. CASE Become(s, Task(a, "enter")) /\ spoiled' = spoiled \cup {a}
    <3>1. PICK task \in Jobs : Become(s, task) /\ task.at = "enter" /\ task.of = a
      BY <2>3, <2>4, TaskLemma DEF Steps
    <3>2. s \notin Turns /\ s \in Turns \cup Stops
      BY Bystanders
    <3>3. \A t \in Turns : todo'[t] = todo[t]
      BY <2>1
    <3> QED BY <2>1, <2>2, <2>3, <3>1, <3>2, <2>4, <3>3, GivenOwns DEF Opening
  <2>5. CASE UNCHANGED <<job, spoiled>>
    <3>1. \A r \in Stops : \A b \in asked'[r] : att[b].id # NoTurn
      BY <2>2 DEF OwnInv, WorkIsAttached
    <3> QED BY <1>1, <2>1, <2>5, <3>1
  <2> QED BY <2>1, <2>4, <2>5
<1> QED BY <1>2, <1>3

LEMMA OwnInductive ==
  ASSUME TypeOK, TypeOK', ReachInv, Rows, OwnInv, LateAttach = FALSE, [Next]_vars
  PROVE  OwnInv'
<1>1. CASE UNCHANGED vars
  <2>1. /\ NotedIsId' /\ WorkIsAttached' /\ IdsGrow' /\ EndsCarryId' /\ LampIsOf'
        /\ StopsSpoil'
    BY <1>1 DEF vars, OwnInv, StopsSpoil, NotedIsId, WorkIsAttached, IdsGrow, EndsCarryId, Carries,
                LampIsOf, Unspoiled, Attaching, AtWork, Of, Id
  <2>2. \A a \in Attachments : /\ RowSeen(a)' <=> RowSeen(a)
                               /\ LampSeen(a)' <=> LampSeen(a)
                               /\ Lit(a)' <=> Lit(a)
    BY <1>1 DEF vars, RowSeen, LampSeen, Lit, ReaderEnds, ReaderAt, TurnAt, TurnOwes
  <2>3. RowsSeen' /\ LampsSeen'
    BY <1>1, <2>2 DEF vars, OwnInv, RowsSeen, LampsSeen, Unspoiled
  <2> QED BY <2>1, <2>3 DEF OwnInv
<1>2. CASE Next
  BY <1>2, UpdateOwns, OpeningOwns, EmitOwns, StepOwns, TurnOwns, StopOwns
     DEF Next, AgentStep
<1> QED BY <1>1, <1>2

(* Who puts a lamp out clears the entry, for the turn that lit it or after *)
(* a row that is late or lost.                                             *)
LEMMA OwnTurnEnds ==
  ASSUME TypeOK, ReachInv, OwnInv, Next,
         NEW c \in Children, entry[c].active, ~entry'[c].active
  PROVE  \E w \in Actors : EndsFor(w, c) /\ (Of(w)[1] = lit[c] \/ RowLate(w, c))
<1> USE DEF turnVars, stopVars, activeVars, logVars, stopTraces
<1>1. entry[c] \in Entries(Ids, {}) /\ entry \in [Children -> Entries(Ids, {})]
  BY DEF TypeOK
<1>2. PICK w \in Actors : ClearPending(w)
  <2>1. ASSUME ~\E w \in Actors : ClearPending(w)
        PROVE  \/ UNCHANGED entry
               \/ \E x \in Children : entry' = [entry EXCEPT ![x] = Ensure(entry[x])]
               \/ \E x \in Children : \E id :
                    entry' = [entry EXCEPT ![x] = SetPending(entry[x], id)]
    <3>1. CASE AgentStep
      <4>1. CASE Emit \/ EmitSummary
        BY <4>1, JobLemma, Bystanders DEF Emit, EmitSummary, Working
      <4>2. CASE Light
        BY <4>2, JobLemma, Bystanders DEF Light, Working
      <4>3. CASE Register \/ Bind \/ Enlist
        BY <4>3 DEF Register, Bind, Enlist
      <4> QED BY <3>1, <4>1, <4>2, <4>3 DEF AgentStep
    <3>2. ASSUME NEW w \in Actors, Step(w)
          PROVE  \/ UNCHANGED entry
                 \/ \E x \in Children : entry' = [entry EXCEPT ![x] = Ensure(entry[x])]
      <4>1. CASE Frame(w)
        BY <4>1, JobLemma DEF Frame, Working
      <4>2. CASE ~Frame(w)
        BY <2>1, <3>2, <4>2
           DEF Step, Enter, Mark, Finish, Write, WriteFails, Gate, Cut
      <4> QED BY <4>1, <4>2
    <3>3. ASSUME \/ \E x \in Children : Attach(x) \/ Streams(x) \/ Reports(x)
                 \/ \E t \in Turns : StartTurn(t) \/ TurnStep(t)
                 \/ \E s \in Stops : Press(s) \/ CarryOut(s)
          PROVE  UNCHANGED entry
      BY <3>3 DEF Attach, Streams, Reports, StartTurn, TurnStep, EndTurn, FinishChild,
                  ReturnTurn, Snapshot, DrainChild, Drained, Press, CarryOut
    <3> QED BY <3>1, <3>2, <3>3 DEF Next
  <2>2. \A id : Ensure(entry[c]).active /\ SetPending(entry[c], id).active
    BY <1>1, HubLamp
  <2> QED BY <1>1, <2>1, <2>2
<1>3. PICK a : a = Of(w)
  OBVIOUS
<1>4. /\ a \in Attachments /\ a[1] \in Turns /\ ChildOf(w) = a[2] /\ a[2] \in Children
      /\ a = <<a[1], a[2]>> /\ AtWork(w) /\ job[w].at = "clear" /\ job[w].then \in Thens
  <2>1. job[w].at = "clear" /\ AtWork(w)
    BY <1>2 DEF ClearPending, Working, AtWork
  <2> QED BY <1>3, <2>1, JobLemma DEF AtWork, Of, ChildOf, Jobs
<1>5. a[2] = c /\ TurnMatches(entry[c], job[w].id)
  <2>1. entry' = [entry EXCEPT ![a[2]] = Clear(entry[a[2]], job[w].id)]
    BY <1>2, <1>4 DEF ClearPending
  <2>2. a[2] = c
    BY <1>1, <2>1
  <2>3. entry'[c] = Clear(entry[c], job[w].id)
    BY <1>1, <2>1, <2>2
  <2> QED BY <2>2, <2>3 DEF Clear
<1>6. PICK l \in Turns : l = lit[c] /\ Id(l, c) # NoTurn /\ entry[c].turnId = Id(l, c)
                         /\ entry[c].exists
  BY DEF OwnInv, LampIsOf
<1>7. job[w].id = NoTurn \/ job[w].id = Id(l, c)
  BY <1>5, <1>6 DEF TurnMatches
<1>8. /\ Id(a[1], c) # NoTurn
      /\ job[w].id = Id(a[1], c) \/ (job[w].id = NoTurn /\ w \in Stops)
  <2>1. Carries(w, job[w])
    BY <1>4 DEF OwnInv, EndsCarryId
  <2> QED BY <1>3, <1>4, <1>5, <2>1 DEF OwnInv, WorkIsAttached, Carries, Id, Of
<1>9. a[1] = l \/ RowLate(w, c)
  <2> SUFFICES ASSUME ~RowLate(w, c) PROVE a[1] = l
    OBVIOUS
  <2>1. a[1] \in Nat /\ l \in Nat /\ Id(a[1], c) \in Nat /\ Id(l, c) \in Nat
    BY <1>4, <1>6, <1>8, Bystanders, ActorTypes DEF Id, TypeOK, AttStates, Ids
  <2>2. /\ a[1] < l => Unspoiled(<<a[1], c>>)
        /\ l < a[1] => Unspoiled(<<l, c>>)
    BY <1>3, <1>4, <1>6, <2>1 DEF RowLate, Unspoiled
  <2>3. CASE job[w].id = Id(a[1], c)
    <3>1. Id(a[1], c) = Id(l, c)
      BY <1>7, <1>8, <2>3
    <3> QED BY <1>4, <1>6, <1>8, <2>1, <2>2, <3>1 DEF OwnInv, IdsGrow
  (* A stop that came too early to know its turn: the earlier lamp would   *)
  (* still have to be put out by the reader, who is at the later child.    *)
  <2>4. CASE job[w].id = NoTurn /\ w \in Stops
    <3>1. ~(a[1] < l)
      BY <1>3, <1>4, <1>5, <2>2, <2>4 DEF OwnInv, StopsSpoil, Unspoiled
    <3>2. ASSUME l < a[1] PROVE FALSE
      <4>1. phase[l] \in Settled
        BY <1>3, <1>4, <3>2 DEF ReachInv, TurnsInOrder, WorkIsOwn
      <4>2. PICK b : b = <<l, c>>
        OBVIOUS
      <4>3. b \in Attachments /\ b[1] = l /\ b[2] = c /\ Unspoiled(b) /\ Lit(b)
        BY <1>6, <2>2, <3>2, <4>2, ActorTypes DEF Lit
      <4>4. LampSeen(b)
        BY <4>3 DEF OwnInv, LampsSeen
      <4>5. ReaderEnds(b)
        BY <4>1, <4>3, <4>4 DEF LampSeen, TurnOwes, TurnAt, Settled
      <4>6. AtWork(Agent) /\ Of(Agent)[1] = l /\ ChildOf(Agent) = c
        BY <4>3, <4>5 DEF ReaderEnds, ReaderAt, AtWork, Of, ChildOf
      <4> QED BY <1>4, <1>8, <3>2, <4>6 DEF ReachInv, ReaderIsNewest
    <3> QED BY <2>1, <3>1, <3>2
  <2> QED BY <1>8, <2>3, <2>4
<1>10. EndsFor(w, c)
  <2>1. After(w) \in Jobs \cup {Idle} /\ job'[w] = After(w)
    BY <1>2, <1>4, AfterLemma, BecomeLemma DEF ClearPending, AtWork
  <2>2. After(w).at # "clear"
    BY <1>4 DEF After, Thens, Idle, Task
  <2> QED BY <1>3, <1>4, <1>5, <2>1, <2>2 DEF EndsFor, Of
<1> QED BY <1>3, <1>6, <1>9, <1>10

(* The action of OnlyItsOwnTurnEnds.                                       *)
EndedByOwn ==
  \A c \in Children :
    entry[c].active /\ ~entry'[c].active =>
      \E w \in Actors : EndsFor(w, c) /\ (Of(w)[1] = lit[c] \/ RowLate(w, c))

(* If no child is attached after its turn began to end: a lamp is put out  *)
(* only by an end of the turn that lit it, however late the closes and     *)
(* drains of earlier turns come, unless the row of an earlier attachment   *)
(* is a stop's to write or was lost (subagentTurnID, EndSessionTurn).      *)
THEOREM OwnTurnEndsCorrect ==
  ASSUME LateAttach = FALSE
  PROVE  Spec => OnlyItsOwnTurnEnds
<1> DEFINE All == TypeOK /\ ReachInv /\ Rows /\ OwnInv
<1>1. Init => All
  <2>1. Init => Rows
    BY DEF Init, Rows, RowIsSent, WriterHasNotWritten, OneWriter, Working, Idle
  <2> QED BY InitTypes, ReachInit, OwnInit, <2>1
<1>2. All /\ [Next]_vars => All'
  BY TypeStep, ReachInductive, RowsStep, OwnInductive
<1>3. All /\ [Next]_vars => [EndedByOwn]_vars
  <2> SUFFICES ASSUME All, Next PROVE EndedByOwn
    OBVIOUS
  <2> QED BY OwnTurnEnds DEF EndedByOwn
<1>4. Spec => [][EndedByOwn]_vars
  BY <1>1, <1>2, <1>3, PTL DEF Spec
<1>5. [][EndedByOwn]_vars <=> OnlyItsOwnTurnEnds
  BY DEF EndedByOwn, OnlyItsOwnTurnEnds
<1> QED BY <1>4, <1>5
=============================================================================
