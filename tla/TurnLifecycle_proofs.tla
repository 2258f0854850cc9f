------------------------ MODULE TurnLifecycle_proofs ------------------------
(***************************************************************************)
(* Theorems of TurnLifecycle for every set of messages, background runs    *)
(* and requests, and of TurnRecovery, its "running" turn, for any number   *)
(* of recovery attempts and any set of stops.                              *)
(*                                                                         *)
(* QueueInv is inductive and holds for every mix of jobs.  LampInv adds    *)
(* the identities that goroutines carry and gives LampHasOwner.  UserInv   *)
(* is the strengthening for a session that only its users drive: the one   *)
(* live message owns the reservation and, once started, the identity of    *)
(* the entry.  TurnInv, at the end, is the invariant of the recovery of    *)
(* one turn.                                                               *)
(***************************************************************************)
EXTENDS TurnLifecycle, TurnRecovery, TLAPS

-----------------------------------------------------------------------------
(* What the operations of a hub entry return: their types, and what they   *)
(* do to the membership and the order of the queue.                        *)

(* Position names a place that holds the message.                          *)
LEMMA PositionIsPlace ==
  ASSUME NEW q, NEW m, Queued(q, m)
  PROVE  Position(q, m) \in 1..Len(q) /\ q[Position(q, m)] = m
  BY DEF Queued, Position

(* RemoveQueuedSessionMessage takes out exactly one message.               *)
LEMMA WithoutLemma ==
  ASSUME NEW S, NEW q \in Seq(S), NEW m, Queued(q, m), Distinct(q)
  PROVE  /\ Without(q, m) \in Seq(S)
         /\ Distinct(Without(q, m))
         /\ \A x : Queued(Without(q, m), x) <=> Queued(q, x) /\ x # m
<1> DEFINE P == Position(q, m)
           n == Len(q)
           w == [k \in 1..(n - 1) |-> IF k < P THEN q[k] ELSE q[k+1]]
<1>1. P \in 1..n /\ q[P] = m /\ n \in Nat
  BY PositionIsPlace
<1> HIDE DEF P
<1>2. Without(q, m) = w
  BY DEF Without, P
<1>3. w \in Seq(S) /\ Len(w) = n - 1
  BY <1>1
<1>4. Distinct(w)
  BY <1>1, <1>3 DEF Distinct
<1>5. ASSUME NEW x, Queued(w, x)
      PROVE  Queued(q, x) /\ x # m
  <2>1. PICK k \in 1..(n - 1) : w[k] = x
    BY <1>3, <1>5 DEF Queued
  <2>2. CASE k < P
    BY <1>1, <2>1, <2>2 DEF Queued, Distinct
  <2>3. CASE ~(k < P)
    BY <1>1, <2>1, <2>3 DEF Queued, Distinct
  <2> QED BY <2>2, <2>3
<1>6. ASSUME NEW x, Queued(q, x), x # m
      PROVE  Queued(w, x)
  <2>1. PICK i \in 1..n : q[i] = x
    BY <1>6 DEF Queued
  <2>2. CASE i < P
    <3>1. i \in 1..(n - 1) /\ w[i] = x
      BY <1>1, <2>1, <2>2
    <3> QED BY <3>1, <1>3 DEF Queued
  <2>3. CASE i > P
    <3>1. (i - 1) \in 1..(n - 1) /\ w[i - 1] = x
      BY <1>1, <2>1, <2>3
    <3> QED BY <3>1, <1>3 DEF Queued
  <2> QED BY <1>1, <1>6, <2>1, <2>2, <2>3
<1> QED BY <1>2, <1>3, <1>4, <1>5, <1>6

(* PromoteQueuedSessionMessage moves one message and keeps the others.     *)
LEMMA ToFrontLemma ==
  ASSUME NEW S, NEW q \in Seq(S), NEW m, Queued(q, m), Distinct(q)
  PROVE  /\ ToFront(q, m) \in Seq(S)
         /\ Distinct(ToFront(q, m))
         /\ \A x : Queued(ToFront(q, m), x) <=> Queued(q, x)
<1> DEFINE P == Position(q, m)
           n == Len(q)
           f == [k \in 1..n |-> IF k = 1 THEN m
                                ELSE IF k <= P THEN q[k-1] ELSE q[k]]
<1>1. P \in 1..n /\ q[P] = m /\ n \in Nat
  BY PositionIsPlace
<1> HIDE DEF P
<1>2. ToFront(q, m) = f
  BY DEF ToFront, P
<1>3. f \in Seq(S) /\ Len(f) = n
  BY <1>1
<1>4. Distinct(f)
  BY <1>1, <1>3 DEF Distinct
<1>5. ASSUME NEW x, Queued(f, x)
      PROVE  Queued(q, x)
  <2>1. PICK k \in 1..n : f[k] = x
    BY <1>3, <1>5 DEF Queued
  <2>2. CASE k = 1
    BY <1>1, <2>1, <2>2 DEF Queued
  <2>3. CASE k # 1 /\ k <= P
    <3>1. (k - 1) \in 1..n /\ q[k - 1] = x
      BY <1>1, <2>1, <2>3
    <3> QED BY <3>1 DEF Queued
  <2>4. CASE k # 1 /\ ~(k <= P)
    BY <1>1, <2>1, <2>4 DEF Queued
  <2> QED BY <2>2, <2>3, <2>4
<1>6. ASSUME NEW x, Queued(q, x)
      PROVE  Queued(f, x)
  <2>1. PICK i \in 1..n : q[i] = x
    BY <1>6 DEF Queued
  <2>2. CASE i = P
    <3>1. 1 \in 1..n /\ f[1] = x
      BY <1>1, <2>1, <2>2
    <3> QED BY <3>1, <1>3 DEF Queued
  <2>3. CASE i < P
    <3>1. (i + 1) \in 1..n /\ f[i + 1] = x
      BY <1>1, <2>1, <2>3
    <3> QED BY <3>1, <1>3 DEF Queued
  <2>4. CASE i > P
    <3>1. f[i] = x
      BY <1>1, <2>1, <2>4
    <3> QED BY <3>1, <2>1, <1>3 DEF Queued
  <2> QED BY <1>1, <2>1, <2>2, <2>3, <2>4
<1> QED BY <1>2, <1>3, <1>4, <1>5, <1>6

(* PopQueuedSessionMessage takes the head and nothing else.                *)
LEMMA TailLemma ==
  ASSUME NEW S, NEW q \in Seq(S), q # <<>>, Distinct(q)
  PROVE  /\ Tail(q) \in Seq(S)
         /\ Distinct(Tail(q))
         /\ Head(q) \in S /\ Queued(q, Head(q))
         /\ \A x : Queued(Tail(q), x) <=> Queued(q, x) /\ x # Head(q)
<1>1. /\ Len(q) \in Nat \ {0} /\ Head(q) = q[1] /\ Head(q) \in S
      /\ Tail(q) \in Seq(S) /\ Len(Tail(q)) = Len(q) - 1
      /\ \A k \in 1..(Len(q) - 1) : Tail(q)[k] = q[k + 1]
  OBVIOUS
<1>2. Distinct(Tail(q))
  BY <1>1 DEF Distinct
<1>3. ASSUME NEW x, Queued(Tail(q), x)
      PROVE  Queued(q, x) /\ x # Head(q)
  <2>1. PICK k \in 1..(Len(q) - 1) : q[k + 1] = x
    BY <1>1, <1>3 DEF Queued
  <2>2. (k + 1) \in 1..Len(q) /\ k + 1 # 1 /\ 1 \in 1..Len(q)
    BY <1>1, <2>1
  <2> QED BY <1>1, <2>1, <2>2 DEF Queued, Distinct
<1>4. ASSUME NEW x, Queued(q, x), x # Head(q)
      PROVE  Queued(Tail(q), x)
  <2>1. PICK i \in 1..Len(q) : q[i] = x
    BY <1>4 DEF Queued
  <2>2. (i - 1) \in 1..(Len(q) - 1) /\ Tail(q)[i - 1] = x
    BY <1>1, <1>4, <2>1
  <2> QED BY <1>1, <2>2 DEF Queued
<1>5. Queued(q, Head(q))
  BY <1>1 DEF Queued
<1> QED BY <1>1, <1>2, <1>3, <1>4, <1>5

(* EnqueueSessionMessage appends a message that does not wait yet.         *)
LEMMA AppendLemma ==
  ASSUME NEW S, NEW q \in Seq(S), NEW m \in S, ~Queued(q, m), Distinct(q)
  PROVE  /\ Append(q, m) \in Seq(S)
         /\ Distinct(Append(q, m))
         /\ \A x : Queued(Append(q, m), x) <=> Queued(q, x) \/ x = m
<1> DEFINE a == Append(q, m)
<1>1. /\ Len(q) \in Nat /\ a \in Seq(S) /\ Len(a) = Len(q) + 1
      /\ \A k \in 1..Len(q) : a[k] = q[k]
      /\ a[Len(q) + 1] = m
  OBVIOUS
<1> HIDE DEF a
<1>2. \A k \in 1..Len(a) : k \in 1..Len(q) \/ k = Len(q) + 1
  BY <1>1
<1>3. \A i \in 1..Len(q) : q[i] # m
  BY DEF Queued
<1>4. Distinct(a)
  BY <1>1, <1>2, <1>3 DEF Distinct
<1>5. ASSUME NEW x
      PROVE  Queued(a, x) <=> Queued(q, x) \/ x = m
  <2>1. (Len(q) + 1) \in 1..Len(a) /\ \A k \in 1..Len(q) : k \in 1..Len(a)
    BY <1>1
  <2> QED BY <1>1, <1>2, <2>1 DEF Queued
<1> QED BY <1>1, <1>4, <1>5 DEF a

(* Every other operation returns an entry and leaves the queue alone; the  *)
(* entry is only ever dropped when its queue is empty.                     *)
LEMMA AbsentLemma ==
  ASSUME NEW T, NEW M
  PROVE  Absent \in Entries(T, M) /\ Absent.queue = <<>>
  BY DEF Absent, Entries

LEMMA EntryLemma ==
  ASSUME NEW T, NEW M, NEW p \in Entries(T, M)
  PROVE  \A e \in {Ensure(p), Reserve(p), Unfreeze(p), Freeze(p),
                   AskOpened(p), AskClosed(p)} :
           e \in Entries(T, M) /\ e.queue = p.queue
<1>1. \A e \in {Ensure(p), Reserve(p), Unfreeze(p), Freeze(p), AskOpened(p)} :
         e \in Entries(T, M) /\ e.queue = p.queue
  BY DEF Entries, Ensure, Reserve, Unfreeze, Freeze, AskOpened
<1>2. AskClosed(p) \in Entries(T, M) /\ AskClosed(p).queue = p.queue
  BY AbsentLemma DEF Entries, AskClosed
<1> QED BY <1>1, <1>2

LEMMA SetPendingLemma ==
  ASSUME NEW T, NEW M, NEW p \in Entries(T, M), NEW t \in T
  PROVE  SetPending(p, t) \in Entries(T, M) /\ SetPending(p, t).queue = p.queue
  BY DEF Entries, SetPending, Ensure

LEMMA ClearLemma ==
  ASSUME NEW T, NEW M, NEW p \in Entries(T, M), NEW t
  PROVE  Clear(p, t) \in Entries(T, M) /\ Clear(p, t).queue = p.queue
  BY AbsentLemma DEF Entries, Clear

-----------------------------------------------------------------------------
(* An action that neither edits the queue nor moves a message into or out  *)
(* of "queued" keeps the queue exact.                                      *)
LEMMA KeepQueue ==
  ASSUME QueueIsExact, pending'.queue = pending.queue,
         \A m \in UserMsgs : pc'[m] = "queued" <=> pc[m] = "queued"
  PROVE  QueueIsExact'
  BY DEF QueueIsExact

(* Moving one job between places other than the queue.                     *)
LEMMA GotoLemma ==
  ASSUME TypeOK, NEW j \in Jobs, NEW l \in PCs \ {"queued"},
         pc[j] # "queued", Goto(j, l)
  PROVE  /\ pc' \in [Jobs -> PCs]
         /\ \A m \in UserMsgs : pc'[m] = "queued" <=> pc[m] = "queued"
  BY DEF TypeOK, Goto, Jobs

-----------------------------------------------------------------------------
QueueInv == TypeOK /\ QueueIsExact

LEMMA QueueInit == Init => QueueInv
<1> SUFFICES ASSUME Init PROVE QueueInv
  OBVIOUS
<1>1. TypeOK
  <2>1. pending \in Entries(Jobs, UserMsgs)
    BY AbsentLemma DEF Init
  <2>2. pc \in [Jobs -> PCs] /\ rpc \in [Requests -> RPCs]
    BY DEF Init, PCs, RPCs
  <2> QED BY <2>1, <2>2 DEF Init, TypeOK
<1>2. QueueIsExact
  BY DEF Init, QueueIsExact, Absent, Distinct, Queued, Jobs
<1> QED BY <1>1, <1>2 DEF QueueInv

(* Submitting keeps the queue exact.                                       *)
LEMMA QueueSubmit ==
  ASSUME QueueInv, NEW m \in UserMsgs, SubmitStep(m) \/ SubmitLaunches(m)
  PROVE  QueueInv'
<1> USE DEF QueueInv
<1>1. m \in Jobs /\ pending \in Entries(Jobs, UserMsgs)
  BY DEF TypeOK, Jobs
<1>2. CASE SubmitQueued(m)
  <2>1. pending.queue \in Seq(UserMsgs) /\ ~Queued(pending.queue, m)
        /\ Distinct(pending.queue)
    BY <1>1, <1>2 DEF SubmitQueued, QueueIsExact, Entries
  <2> DEFINE a == Append(pending.queue, m)
  <2>2. /\ a \in Seq(UserMsgs) /\ Distinct(a)
        /\ \A x : Queued(a, x) <=> Queued(pending.queue, x) \/ x = m
    BY <2>1, AppendLemma
  <2> HIDE DEF a
  <2>3. pending' = [Ensure(pending) EXCEPT !.queue = a]
    BY <1>2 DEF SubmitQueued, Enqueue, a
  <2>4. pending' \in Entries(Jobs, UserMsgs) /\ pending'.queue = a
    BY <1>1, <2>2, <2>3 DEF Entries, Ensure
  <2>5. pc' \in [Jobs -> PCs] /\ \A x \in UserMsgs :
          pc'[x] = "queued" <=> pc[x] = "queued" \/ x = m
    BY <1>1, <1>2 DEF SubmitQueued, Goto, TypeOK, PCs, Jobs
  <2>6. TypeOK'
    BY <1>2, <2>4, <2>5 DEF TypeOK, SubmitQueued, requestVars
  <2>7. QueueIsExact'
    BY <2>2, <2>4, <2>5 DEF QueueIsExact
  <2> QED BY <2>6, <2>7
<1>3. CASE SubmitReserved(m)
  <2>1. pending' \in Entries(Jobs, UserMsgs) /\ pending'.queue = pending.queue
    BY <1>1, <1>3, EntryLemma DEF SubmitReserved
  <2>2. pc' \in [Jobs -> PCs] /\ \A x \in UserMsgs : pc'[x] = "queued" <=> pc[x] = "queued"
    BY <1>1, <1>3, GotoLemma DEF SubmitReserved, PCs, Live
  <2> QED BY <1>3, <2>1, <2>2, KeepQueue DEF SubmitReserved, TypeOK, requestVars
<1>4. CASE SubmitCommand(m)
  <2>2. pc' \in [Jobs -> PCs] /\ \A x \in UserMsgs : pc'[x] = "queued" <=> pc[x] = "queued"
    BY <1>1, <1>4, GotoLemma DEF SubmitCommand, PCs, Live
  <2> QED BY <1>4, <2>2, KeepQueue DEF SubmitCommand, TypeOK, requestVars
<1>5. CASE SubmitLaunches(m)
  <2>1. pending' \in Entries(Jobs, UserMsgs) /\ pending'.queue = pending.queue
    BY <1>1, <1>5, EntryLemma DEF SubmitLaunches
  <2>2. pc' \in [Jobs -> PCs] /\ \A x \in UserMsgs : pc'[x] = "queued" <=> pc[x] = "queued"
    BY <1>1, <1>5, GotoLemma DEF SubmitLaunches, PCs, Live
  <2> QED BY <1>5, <2>1, <2>2, KeepQueue DEF SubmitLaunches, TypeOK, requestVars
<1> QED BY <1>2, <1>3, <1>4, <1>5 DEF SubmitStep

(* A running job moves between places outside the queue and changes the    *)
(* entry with operations that leave the queue alone.                       *)
LEMMA QueueRunner ==
  ASSUME QueueInv, NEW j \in Jobs, RunnerStep(j)
  PROVE  QueueInv'
<1> USE DEF QueueInv
<1>1. pending \in Entries(Jobs, UserMsgs) /\ ident[j] \in Jobs \cup {NoTurn}
  BY DEF TypeOK
<1>2. pending' \in Entries(Jobs, UserMsgs) /\ pending'.queue = pending.queue
  <2>1. CASE OnStart(j)
    <3> DEFINE p == AskClosed(pending)
    <3>1. p \in Entries(Jobs, UserMsgs) /\ p.queue = pending.queue
      BY <1>1, EntryLemma
    <3> HIDE DEF p
    <3>2. pending' = SetPending(p, j)
      BY <2>1 DEF OnStart, p
    <3> QED BY <3>1, <3>2, SetPendingLemma
  <2>2. CASE ReportError(j)
    BY <1>1, <2>2, EntryLemma DEF ReportError
  <2>3. CASE ClearPending(j)
    BY <1>1, <2>3, ClearLemma DEF ClearPending
  <2>4. ASSUME ~OnStart(j), ~ReportError(j), ~ClearPending(j)
        PROVE  pending' = pending
    BY <2>4 DEF RunnerStep, TakeSendLock, Announce, AttachRuntime, FailsEarly,
                Fails, Finishes, Return, EndGate, BroadcastDone
  <2> QED BY <1>1, <2>1, <2>2, <2>3, <2>4
<1>3. PICK l \in PCs \ {"queued"} : pc[j] # "queued" /\ Goto(j, l)
  BY DEF RunnerStep, TakeSendLock, OnStart, Announce, AttachRuntime, FailsEarly,
         Fails, Finishes, Return, ReportError, EndGate, BroadcastDone,
         ClearPending, AfterEnd, PCs, Live, Holding, Ending
<1>4. pc' \in [Jobs -> PCs] /\ \A x \in UserMsgs : pc'[x] = "queued" <=> pc[x] = "queued"
  BY <1>3, GotoLemma
<1>5. /\ ident' \in [Jobs -> Jobs \cup {NoTurn}]
      /\ activeTurn' \in Jobs \cup {NoTurn}
      /\ handler' \in Jobs \cup {NoTurn}
      /\ lamp' \in BOOLEAN
      /\ UNCHANGED requestVars
  BY DEF TypeOK, RunnerStep, TakeSendLock, OnStart, Announce, AttachRuntime,
         FailsEarly, Fails, Finishes, Return, ReportError, EndGate,
         BroadcastDone, ClearPending
<1>6. TypeOK'
  BY <1>2, <1>4, <1>5 DEF TypeOK, requestVars
<1> QED BY <1>2, <1>4, <1>6, KeepQueue

(* The hub's pop hands the head of the queue to a new goroutine.           *)
LEMMA PopLemma ==
  ASSUME QueueInv, CanPop(pending)
  PROVE  LET h == Head(pending.queue) IN
         /\ h \in UserMsgs /\ pc[h] = "queued"
         /\ Pop(pending) \in Entries(Jobs, UserMsgs)
         /\ Distinct(Pop(pending).queue)
         /\ \A x : Queued(Pop(pending).queue, x) <=> Queued(pending.queue, x) /\ x # h
<1>1. /\ pending \in Entries(Jobs, UserMsgs) /\ pending.queue \in Seq(UserMsgs)
      /\ pending.queue # <<>> /\ Distinct(pending.queue)
  BY DEF QueueInv, TypeOK, QueueIsExact, CanPop, Entries
<1> DEFINE q == pending.queue
<1>2. /\ Tail(q) \in Seq(UserMsgs) /\ Distinct(Tail(q))
      /\ Head(q) \in UserMsgs /\ Queued(q, Head(q))
      /\ \A x : Queued(Tail(q), x) <=> Queued(q, x) /\ x # Head(q)
  BY <1>1, TailLemma
<1>3. Pop(pending) \in Entries(Jobs, UserMsgs) /\ Pop(pending).queue = Tail(q)
  BY <1>1, <1>2 DEF Pop, Entries
<1>4. pc[Head(q)] = "queued"
  BY <1>2 DEF QueueInv, QueueIsExact
<1> QED BY <1>2, <1>3, <1>4

(* Starting the next message, and a user's edits of the queue.             *)
LEMMA QueueNextUp ==
  ASSUME QueueInv, NEW m \in UserMsgs, StartNext(m)
  PROVE  QueueInv'
<1> USE DEF QueueInv
<1>1. m \in Jobs /\ UserMsgs \subseteq Jobs
  BY DEF Jobs
<1>2. CASE CanPop(pending)
  <2> DEFINE h == Head(pending.queue)
  <2>1. /\ h \in UserMsgs /\ pc[h] = "queued"
        /\ Pop(pending) \in Entries(Jobs, UserMsgs)
        /\ Distinct(Pop(pending).queue)
        /\ \A x : Queued(Pop(pending).queue, x) <=> Queued(pending.queue, x) /\ x # h
    BY <1>2, PopLemma
  <2> HIDE DEF h
  <2>2. pending' = Pop(pending) /\ pc' = [pc EXCEPT ![m] = "over", ![h] = "launched"]
    BY <1>2 DEF StartNext, h
  <2>3. pc' \in [Jobs -> PCs] /\ \A x \in UserMsgs :
          pc'[x] = "queued" <=> pc[x] = "queued" /\ x # h
    BY <1>1, <2>1, <2>2 DEF TypeOK, StartNext, PCs, Live
  <2>4. TypeOK'
    BY <2>1, <2>2, <2>3 DEF TypeOK, StartNext, requestVars
  <2> QED BY <2>1, <2>2, <2>3, <2>4 DEF QueueIsExact
<1>3. CASE ~CanPop(pending)
  <2>1. pending' = pending /\ Goto(m, "over") /\ pc[m] = "cleared"
    BY <1>3 DEF StartNext
  <2>2. pc' \in [Jobs -> PCs] /\ \A x \in UserMsgs : pc'[x] = "queued" <=> pc[x] = "queued"
    BY <1>1, <2>1, GotoLemma DEF PCs
  <2> QED BY <2>1, <2>2, KeepQueue DEF TypeOK, StartNext, requestVars
<1> QED BY <1>2, <1>3

LEMMA QueueRemove ==
  ASSUME QueueInv, NEW m \in UserMsgs, RemoveQueued(m)
  PROVE  QueueInv'
<1> USE DEF QueueInv
<1> DEFINE w == Without(pending.queue, m)
<1>1. /\ pending \in Entries(Jobs, UserMsgs) /\ pending.queue \in Seq(UserMsgs)
      /\ Queued(pending.queue, m) /\ Distinct(pending.queue)
  BY DEF TypeOK, QueueIsExact, Entries, RemoveQueued
<1>2. /\ w \in Seq(UserMsgs) /\ Distinct(w)
      /\ \A x : Queued(w, x) <=> Queued(pending.queue, x) /\ x # m
  BY <1>1, WithoutLemma
<1> HIDE DEF w
<1>3. pending' \in Entries(Jobs, UserMsgs) /\ pending'.queue = w
  BY <1>1, <1>2 DEF RemoveQueued, Remove, Entries, w
<1>4. pc' \in [Jobs -> PCs] /\ \A x \in UserMsgs :
        pc'[x] = "queued" <=> pc[x] = "queued" /\ x # m
  BY DEF RemoveQueued, Goto, TypeOK, PCs, Jobs
<1>5. TypeOK'
  BY <1>3, <1>4 DEF TypeOK, RemoveQueued, requestVars
<1> QED BY <1>2, <1>3, <1>4, <1>5 DEF QueueIsExact

LEMMA QueueSendNow ==
  ASSUME QueueInv, NEW s \in SendNows, SendNowStep(s)
  PROVE  QueueInv'
<1> USE DEF QueueInv
<1>1. s \in Requests /\ UserMsgs \subseteq Jobs
  BY DEF Requests, Jobs
<1>2. rpc' \in [Requests -> RPCs]
  BY <1>1 DEF SendNowStep, SendNowPromotes, SendNowDispatches, SendNowPops,
              RGoto, TypeOK, RPCs
<1>3. ASSUME NEW m \in UserMsgs, SendNowPromotes(s, m)
      PROVE  QueueInv'
  <2> DEFINE f == ToFront(pending.queue, m)
  <2>1. /\ pending \in Entries(Jobs, UserMsgs) /\ pending.queue \in Seq(UserMsgs)
        /\ Queued(pending.queue, m) /\ Distinct(pending.queue)
    BY <1>3 DEF TypeOK, QueueIsExact, Entries, SendNowPromotes
  <2>2. /\ f \in Seq(UserMsgs) /\ Distinct(f)
        /\ \A x : Queued(f, x) <=> Queued(pending.queue, x)
    BY <2>1, ToFrontLemma
  <2> HIDE DEF f
  <2>3. pending' \in Entries(Jobs, UserMsgs) /\ pending'.queue = f
    BY <1>3, <2>1, <2>2 DEF SendNowPromotes, Promote, Entries, f
  <2>4. TypeOK'
    BY <1>2, <1>3, <2>3 DEF TypeOK, SendNowPromotes
  <2> QED BY <1>3, <2>2, <2>3, <2>4 DEF QueueIsExact, SendNowPromotes
<1>4. CASE SendNowDispatches(s)
  BY <1>2, <1>4 DEF TypeOK, SendNowDispatches, QueueIsExact
<1>5. CASE SendNowPops(s) /\ CanPop(pending)
  <2> DEFINE h == Head(pending.queue)
  <2>1. /\ h \in UserMsgs /\ pc[h] = "queued"
        /\ Pop(pending) \in Entries(Jobs, UserMsgs)
        /\ Distinct(Pop(pending).queue)
        /\ \A x : Queued(Pop(pending).queue, x) <=> Queued(pending.queue, x) /\ x # h
    BY <1>5, PopLemma
  <2> HIDE DEF h
  <2>2. pending' = Pop(pending) /\ Goto(h, "launched")
    BY <1>5 DEF SendNowPops, h
  <2>3. pc' \in [Jobs -> PCs] /\ \A x \in UserMsgs :
          pc'[x] = "queued" <=> pc[x] = "queued" /\ x # h
    BY <1>1, <2>1, <2>2 DEF TypeOK, Goto, PCs, Live
  <2>4. TypeOK'
    BY <1>2, <1>5, <2>1, <2>2, <2>3 DEF TypeOK, SendNowPops
  <2> QED BY <2>1, <2>2, <2>3, <2>4 DEF QueueIsExact
<1>6. CASE SendNowPops(s) /\ ~CanPop(pending)
  BY <1>2, <1>6 DEF TypeOK, SendNowPops, QueueIsExact
<1> QED BY <1>3, <1>4, <1>5, <1>6 DEF SendNowStep

(* Cancels, interrupts, updates and answers never touch the queue.         *)
LEMMA QueueOthers ==
  ASSUME QueueInv,
         \/ \E b \in BgRuns : BackgroundLaunches(b)
         \/ \E c \in Cancels : CancelStep(c)
         \/ \E r \in Requests : InterruptStep(r)
         \/ AgentStep
         \/ UserAnswers
         \/ UNCHANGED vars
  PROVE  QueueInv'
<1> USE DEF QueueInv
<1>0. pending \in Entries(Jobs, UserMsgs)
  BY DEF TypeOK
<1>1. ASSUME NEW b \in BgRuns, BackgroundLaunches(b)
      PROVE  QueueInv'
  <2>1. b \in Jobs /\ pc[b] = "fresh" /\ Goto(b, "launched")
    BY <1>1 DEF Jobs, BackgroundLaunches
  <2>2. pc' \in [Jobs -> PCs] /\ \A x \in UserMsgs : pc'[x] = "queued" <=> pc[x] = "queued"
    BY <2>1, GotoLemma DEF PCs, Live
  <2> QED BY <1>1, <2>2, KeepQueue DEF BackgroundLaunches, TypeOK, requestVars
<1>2. ASSUME NEW c \in Cancels, CancelStep(c)
      PROVE  QueueInv'
  <2>1. c \in Requests
    BY DEF Requests
  <2>2. pending' \in Entries(Jobs, UserMsgs) /\ pending'.queue = pending.queue
    BY <1>0, <1>2, EntryLemma
       DEF CancelStep, CancelReceived, CancelFreezes, CancelUnfreezes
  <2>3. rpc' \in [Requests -> RPCs] /\ target' \in [Requests -> Jobs \cup {NoTurn}]
    BY <1>2, <2>1
       DEF CancelStep, CancelReceived, CancelFreezes, CancelUnfreezes, RGoto, TypeOK, RPCs
  <2>4. UNCHANGED <<pc, ident, activeTurn, handler, lamp, found, hit>>
    BY <1>2 DEF CancelStep, CancelReceived, CancelFreezes, CancelUnfreezes
  <2> QED BY <2>2, <2>3, <2>4, KeepQueue DEF TypeOK
<1>3. ASSUME NEW r \in Requests, InterruptStep(r)
      PROVE  QueueInv'
  <2>1. rpc' \in [Requests -> RPCs] /\ found' \in [Requests -> Jobs \cup {NoTurn}]
    BY <1>3 DEF InterruptStep, CancelLookup, InterruptRuntime, InterruptRefused,
                CancelContext, RGoto, TypeOK, RPCs
  <2>2. hit' \subseteq Requests \X Jobs
    BY <1>3 DEF InterruptStep, CancelLookup, InterruptRuntime, InterruptRefused,
                CancelContext, TypeOK, OnRuntime
  <2>3. UNCHANGED <<pending, pc, ident, activeTurn, handler, lamp, target>>
    BY <1>3 DEF InterruptStep, CancelLookup, InterruptRuntime, InterruptRefused,
                CancelContext
  <2> QED BY <2>1, <2>2, <2>3, KeepQueue DEF TypeOK
<1>4. CASE AgentStep
  <2>1. AskClosed(pending) \in Entries(Jobs, UserMsgs)
        /\ AskClosed(pending).queue = pending.queue
    BY <1>0, EntryLemma
  <2>2. pending' \in Entries(Jobs, UserMsgs) /\ pending'.queue = pending.queue
    BY <1>0, <1>4, <2>1, EntryLemma
       DEF AgentStep, AgentAsks, AgentGotAnswer, UpdateStreams
  <2>3. UNCHANGED <<pc, ident, activeTurn, handler, lamp, requestVars>>
    BY <1>4 DEF AgentStep, AgentAsks, AgentGotAnswer, UpdateStreams
  <2> QED BY <2>2, <2>3, KeepQueue DEF TypeOK, requestVars
<1>5. CASE UserAnswers
  BY <1>0, <1>5, EntryLemma, KeepQueue DEF UserAnswers, TypeOK, requestVars
<1>6. CASE UNCHANGED vars
  BY <1>6, KeepQueue DEF vars, TypeOK, requestVars
<1> QED BY <1>1, <1>2, <1>3, <1>4, <1>5, <1>6

LEMMA QueueStep == QueueInv /\ [Next]_vars => QueueInv'
  BY QueueSubmit, QueueRunner, QueueNextUp, QueueRemove, QueueSendNow,
     QueueOthers DEF Next

(* Every reachable state is well-typed.                                    *)
THEOREM TypeCorrect == Spec => []TypeOK
<1>1. QueueInv => TypeOK
  BY DEF QueueInv
<1> QED BY <1>1, QueueInit, QueueStep, PTL DEF Spec

(* The queue is exact whatever mix of jobs shares the session: no accepted *)
(* message is lost, doubled or resurrected by any interleaving.            *)
THEOREM QueueCorrect == Spec => []QueueIsExact
<1>1. QueueInv => QueueIsExact
  BY DEF QueueInv
<1> QED BY <1>1, QueueInit, QueueStep, PTL DEF Spec

-----------------------------------------------------------------------------
(* The lamp has an owner.  A goroutine has no identity before its OnStart  *)
(* and its own from there on; no done can then be refused while nobody     *)
(* else is left to put the lamp out.                                       *)
Before == {"fresh", "queued", "removed", "reserved", "launched", "preflight"}

IdentInv ==
  \A j \in Jobs : /\ ident[j] \in {NoTurn, j}
                  /\ pc[j] \in Before => ident[j] = NoTurn

LampInv == QueueInv /\ IdentInv /\ LampHasOwner

LEMMA LampInit == Init => LampInv
  BY QueueInit DEF Init, LampInv, IdentInv, LampHasOwner, Absent

(* An action that changes no identity, no lit lamp, and ends no goroutine. *)
LEMMA LampKept ==
  ASSUME LampInv, UNCHANGED ident,
         pending'.active => pending.active /\ pending'.turnId = pending.turnId,
         \A j \in Jobs : /\ pc'[j] \in Before => pc[j] \in Before
                         /\ pc[j] \in Live => pc'[j] \in Live
  PROVE  IdentInv' /\ LampHasOwner'
  BY DEF LampInv, IdentInv, LampHasOwner

(* Updates and answers light no solid lamp and change no identity.         *)
LEMMA AskLemma ==
  ASSUME NEW p \in Entries(Jobs, UserMsgs),
         NEW e, \/ e = AskOpened(p)
                \/ e = Ensure(p)
                \/ e = AskClosed(p)
                \/ e = Ensure(AskClosed(p))
  PROVE  e.active => p.active /\ e.turnId = p.turnId
<1>1. CASE e = AskOpened(p) \/ e = Ensure(p)
  BY <1>1 DEF AskOpened, Ensure, Entries
<1>2. CASE ~(p.active \/ p.queue # <<>>)
  <2>1. ~AskClosed(p).active /\ ~Ensure(AskClosed(p)).active
    BY <1>2 DEF AskClosed, Ensure, Absent
  <2> QED BY <1>1, <2>1
<1>3. CASE p.active \/ p.queue # <<>>
  <2>1. AskClosed(p) = [p EXCEPT !.awaiting = FALSE]
    BY <1>3 DEF AskClosed
  <2>2. AskClosed(p).active = p.active /\ AskClosed(p).turnId = p.turnId
        /\ Ensure(AskClosed(p)).active = p.active
        /\ Ensure(AskClosed(p)).turnId = p.turnId
    BY <2>1 DEF Ensure, Entries
  <2> QED BY <1>1, <2>2
<1> QED BY <1>2, <1>3

LEMMA LampRunner ==
  ASSUME LampInv, NEW j \in Jobs, RunnerStep(j)
  PROVE  IdentInv' /\ LampHasOwner'
<1>1. /\ pc \in [Jobs -> PCs] /\ pending \in Entries(Jobs, UserMsgs)
      /\ ident \in [Jobs -> Jobs \cup {NoTurn}]
  BY DEF LampInv, QueueInv, TypeOK
<1>2. CASE OnStart(j)
  <2>1. pc' = [pc EXCEPT ![j] = "announcing"] /\ ident' = [ident EXCEPT ![j] = j]
        /\ pending' = SetPending(AskClosed(pending), j)
    BY <1>2 DEF OnStart, Goto
  <2>2. IdentInv'
    BY <1>1, <2>1 DEF LampInv, IdentInv, Before
  <2>3. pending'.turnId = j
    <3>1. AskClosed(pending) \in Entries(Jobs, UserMsgs)
      BY <1>1, EntryLemma
    <3> HIDE DEF AskClosed
    <3> QED BY <2>1, <3>1 DEF SetPending, Ensure, Entries
  <2>4. pc'[j] \in Live /\ ident'[j] = j
    BY <1>1, <2>1 DEF Live, Holding
  <2> QED BY <2>2, <2>3, <2>4 DEF LampHasOwner
<1>3. CASE EndGate(j) \/ ClearPending(j)
  <2>1. UNCHANGED ident /\ pc' = [pc EXCEPT ![j] = pc'[j]]
        /\ pc[j] \in Ending
        /\ pc'[j] \in {"gated", "cleared", "over"}
    BY <1>1, <1>3 DEF EndGate, ClearPending, Goto, AfterEnd, Ending
  <2>2. IdentInv'
    BY <1>1, <2>1 DEF LampInv, IdentInv, Before
  <2>3. CASE TurnMatches(pending, ident[j]) /\ ClearPending(j)
    <3>1. ~pending'.active
      BY <1>1, <2>3 DEF ClearPending, Clear, Absent, Entries
    <3> QED BY <2>2, <3>1 DEF LampHasOwner
  <2>4. CASE TurnMatches(pending, ident[j]) /\ EndGate(j)
    <3>1. pc' = [pc EXCEPT ![j] = "gated"] /\ pending' = pending
      BY <2>4 DEF EndGate, Goto
    <3> QED BY <1>1, <2>1, <3>1, LampKept DEF Before, Live, Ending
  <2>5. CASE ~TurnMatches(pending, ident[j])
    <3>1. pending' = pending
      BY <1>3, <2>5 DEF EndGate, ClearPending, Clear
    <3>2. ident[j] \notin {NoTurn, pending.turnId}
      BY <2>5 DEF TurnMatches
    <3>3. \A k \in Jobs : k # j => pc'[k] = pc[k]
      BY <1>1, <2>1
    <3> QED BY <2>1, <2>2, <3>1, <3>2, <3>3 DEF LampInv, LampHasOwner
  <2> QED BY <1>3, <2>3, <2>4, <2>5
<1>4. ASSUME ~OnStart(j), ~EndGate(j), ~ClearPending(j)
      PROVE  IdentInv' /\ LampHasOwner'
  <2>1. UNCHANGED ident /\ pending'.active = pending.active
        /\ pending'.turnId = pending.turnId
    BY <1>1, <1>4 DEF RunnerStep, TakeSendLock, Announce, AttachRuntime,
       FailsEarly, Fails, Finishes, Return, ReportError, BroadcastDone,
       Ensure, Entries
  <2>2. PICK l \in Live : /\ pc' = [pc EXCEPT ![j] = l] /\ pc[j] \in Live
                          /\ l \in Before => pc[j] \in Before
    BY <1>4 DEF RunnerStep, TakeSendLock, Announce, AttachRuntime,
       FailsEarly, Fails, Finishes, Return, ReportError, BroadcastDone,
       Goto, Live, Holding, Ending, Before
  <2> QED BY <1>1, <2>1, <2>2, LampKept
<1> QED BY <1>2, <1>3, <1>4

(* A popped message lights the lamp and is the goroutine that owns it.     *)
LEMMA LampPop ==
  ASSUME LampInv, UNCHANGED ident, pc' \in [Jobs -> PCs],
         NEW h \in UserMsgs, pc[h] = "queued", pc'[h] = "launched",
         \A j \in Jobs : pc'[j] \in Before => pc[j] \in Before
  PROVE  IdentInv' /\ LampHasOwner'
<1>1. h \in Jobs /\ ident[h] = NoTurn
  BY DEF LampInv, IdentInv, Before, Jobs
<1>2. IdentInv'
  BY DEF LampInv, IdentInv
<1> QED BY <1>1, <1>2 DEF LampHasOwner, Live

LEMMA LampUsers ==
  ASSUME LampInv, NEW m \in UserMsgs,
         SubmitStep(m) \/ SubmitLaunches(m) \/ StartNext(m) \/ RemoveQueued(m)
  PROVE  IdentInv' /\ LampHasOwner'
<1>1. /\ pc \in [Jobs -> PCs] /\ pending \in Entries(Jobs, UserMsgs)
      /\ m \in Jobs
  BY DEF LampInv, QueueInv, TypeOK, Jobs
<1>2. CASE SubmitReserved(m)
  <2>1. pc' = [pc EXCEPT ![m] = "reserved"] /\ pc[m] = "fresh" /\ ident' = ident
    BY <1>2 DEF SubmitReserved, Goto
  <2>2. IdentInv'
    BY <1>1, <2>1 DEF LampInv, IdentInv, Before
  <2>3. pc'[m] \in Live /\ ident'[m] = NoTurn
    BY <1>1, <2>1 DEF LampInv, IdentInv, Before, Live
  <2> QED BY <1>1, <2>2, <2>3 DEF LampHasOwner
<1>3. CASE StartNext(m) /\ CanPop(pending)
  <2> DEFINE h == Head(pending.queue)
  <2>1. h \in UserMsgs /\ pc[h] = "queued"
    BY <1>3, PopLemma DEF LampInv
  <2> HIDE DEF h
  <2>2. /\ pc' = [pc EXCEPT ![m] = "over", ![h] = "launched"]
        /\ pc[m] = "cleared" /\ ident' = ident
    BY <1>3 DEF StartNext, h
  <2>3. h \in Jobs /\ h # m
    BY <2>1, <2>2 DEF Jobs
  <2>4. pc' \in [Jobs -> PCs] /\ pc'[h] = "launched"
        /\ \A j \in Jobs : pc'[j] \in Before => pc[j] \in Before
    BY <1>1, <2>1, <2>2, <2>3 DEF Before, PCs, Live
  <2> QED BY <2>1, <2>2, <2>4, LampPop
<1>4. ASSUME ~SubmitReserved(m), ~(StartNext(m) /\ CanPop(pending))
      PROVE  IdentInv' /\ LampHasOwner'
  <2>1. UNCHANGED ident /\ pending'.active = pending.active
        /\ pending'.turnId = pending.turnId
    BY <1>1, <1>4 DEF SubmitStep, SubmitQueued, SubmitCommand, SubmitLaunches,
       StartNext, RemoveQueued, Enqueue, Ensure, Unfreeze, Remove, Entries
  <2>2. PICK l : /\ pc' = [pc EXCEPT ![m] = l]
                 /\ l \in Before => pc[m] \in Before
                 /\ pc[m] \in Live => l \in Live
    BY <1>4 DEF SubmitStep, SubmitQueued, SubmitCommand, SubmitLaunches,
       StartNext, RemoveQueued, Goto, Before, Live, Holding, Ending
  <2> QED BY <1>1, <2>1, <2>2, LampKept
<1> QED BY <1>2, <1>3, <1>4

LEMMA LampOthers ==
  ASSUME LampInv,
         \/ \E b \in BgRuns : BackgroundLaunches(b)
         \/ \E c \in Cancels : CancelStep(c)
         \/ \E s \in SendNows : SendNowStep(s)
         \/ \E r \in Requests : InterruptStep(r)
         \/ AgentStep
         \/ UserAnswers
         \/ UNCHANGED vars
  PROVE  IdentInv' /\ LampHasOwner'
<1>1. pc \in [Jobs -> PCs] /\ pending \in Entries(Jobs, UserMsgs)
  BY DEF LampInv, QueueInv, TypeOK
<1>2. ASSUME NEW b \in BgRuns, BackgroundLaunches(b)
      PROVE  IdentInv' /\ LampHasOwner'
  <2>1. b \in Jobs /\ pc[b] = "fresh" /\ pc' = [pc EXCEPT ![b] = "launched"]
        /\ UNCHANGED <<ident, pending>>
    BY <1>2 DEF Jobs, BackgroundLaunches, Goto
  <2> QED BY <1>1, <2>1, LampKept DEF Before, Live, Holding, Ending
<1>3. ASSUME NEW c \in Cancels, CancelStep(c)
      PROVE  IdentInv' /\ LampHasOwner'
  <2>1. UNCHANGED <<pc, ident>> /\ pending'.active = pending.active
        /\ pending'.turnId = pending.turnId
    BY <1>1, <1>3 DEF CancelStep, CancelReceived, CancelFreezes, CancelUnfreezes,
                      Freeze, Unfreeze, Entries
  <2> QED BY <2>1, LampKept
<1>4. ASSUME NEW s \in SendNows, SendNowStep(s)
      PROVE  IdentInv' /\ LampHasOwner'
  <2>1. CASE SendNowPops(s) /\ CanPop(pending)
    <3> DEFINE h == Head(pending.queue)
    <3>1. h \in UserMsgs /\ pc[h] = "queued" /\ h \in Jobs
      BY <2>1, PopLemma DEF LampInv, Jobs
    <3> HIDE DEF h
    <3>2. pc' = [pc EXCEPT ![h] = "launched"] /\ ident' = ident
      BY <2>1 DEF SendNowPops, Goto, h
    <3>3. pc' \in [Jobs -> PCs] /\ pc'[h] = "launched"
          /\ \A j \in Jobs : pc'[j] \in Before => pc[j] \in Before
      BY <1>1, <3>1, <3>2 DEF Before, PCs, Live
    <3> QED BY <3>1, <3>2, <3>3, LampPop
  <2>2. ASSUME ~(SendNowPops(s) /\ CanPop(pending))
        PROVE  UNCHANGED <<pc, ident>> /\ pending'.active = pending.active
               /\ pending'.turnId = pending.turnId
    BY <1>1, <1>4, <2>2 DEF SendNowStep, SendNowPromotes, SendNowDispatches,
                            SendNowPops, Promote, Entries
  <2> QED BY <2>1, <2>2, LampKept
<1>5. ASSUME NEW r \in Requests, InterruptStep(r)
      PROVE  IdentInv' /\ LampHasOwner'
  <2>1. UNCHANGED <<pc, ident, pending>>
    BY <1>5 DEF InterruptStep, CancelLookup, InterruptRuntime, InterruptRefused,
                CancelContext
  <2> QED BY <2>1, LampKept
<1>6. CASE AgentStep \/ UserAnswers
  <2>1. /\ UNCHANGED <<pc, ident>>
        /\ \/ pending' = AskOpened(pending)
           \/ pending' = Ensure(pending)
           \/ pending' = AskClosed(pending)
           \/ pending' = Ensure(AskClosed(pending))
    BY <1>6 DEF AgentStep, AgentAsks, AgentGotAnswer, UpdateStreams, UserAnswers
  <2>2. pending'.active => pending.active /\ pending'.turnId = pending.turnId
    BY <1>1, <2>1, AskLemma
  <2> QED BY <2>1, <2>2, LampKept
<1>7. CASE UNCHANGED vars
  BY <1>7, LampKept DEF vars
<1> QED BY <1>2, <1>3, <1>4, <1>5, <1>6, <1>7

LEMMA LampStep == LampInv /\ [Next]_vars => LampInv'
<1> SUFFICES ASSUME LampInv, [Next]_vars PROVE LampInv'
  OBVIOUS
<1>1. QueueInv'
  BY QueueStep DEF LampInv
<1>2. IdentInv' /\ LampHasOwner'
  BY LampRunner, LampUsers, LampOthers DEF Next
<1> QED BY <1>1, <1>2 DEF LampInv

(* Whatever shares the session, a lit entry always has a live goroutine    *)
(* whose done cannot be refused.                                           *)
THEOREM LampCorrect == Spec => []LampHasOwner
<1>1. LampInv => LampHasOwner
  BY DEF LampInv
<1> QED BY <1>1, LampInit, LampStep, PTL DEF Spec

-----------------------------------------------------------------------------
(* A session only its users drive.  OneConversation alone is not           *)
(* inductive: a second submission is turned away because the live message  *)
(* keeps the entry active, and only its own OnStart and done write to the  *)
(* entry's identity and to the clients' lamp.                              *)
LiveIsActive == \A m \in UserMsgs : pc[m] \in Live => pending.active
StartedIsCurrent == \A m \in UserMsgs : pc[m] \in Started => pending.turnId = m
RunningIsShown == \A m \in UserMsgs : pc[m] \in {"opening", "running"} => lamp

UserInv == /\ QueueInv
           /\ OneConversation
           /\ LiveIsActive
           /\ StartedIsCurrent
           /\ RunningIsShown

LEMMA UserInit == Init => UserInv
  BY QueueInit DEF Init, UserInv, OneConversation, LiveIsActive,
     StartedIsCurrent, RunningIsShown, Live, Started, Holding, Ending, Jobs

(* An action that starts no goroutine and leaves lit entry and lamp alone. *)
LEMMA UserKept ==
  ASSUME UserInv, UNCHANGED lamp,
         pending.active => pending'.active /\ pending'.turnId = pending.turnId,
         \A m \in UserMsgs : pc'[m] = pc[m] \/ pc'[m] \notin Live
  PROVE  OneConversation' /\ LiveIsActive' /\ StartedIsCurrent' /\ RunningIsShown'
  BY DEF UserInv, OneConversation, LiveIsActive, StartedIsCurrent,
         RunningIsShown, Live, Holding, Started

(* An action that starts the only goroutine.                               *)
LEMMA UserStarts ==
  ASSUME UserInv, ~pending.active, pending'.active, NEW h,
         pc'[h] \in {"reserved", "launched"},
         \A m \in UserMsgs : m # h => pc'[m] = pc[m] \/ pc'[m] \notin Live
  PROVE  OneConversation' /\ LiveIsActive' /\ StartedIsCurrent' /\ RunningIsShown'
<1>1. \A m \in UserMsgs : m # h => pc'[m] \notin Live
  BY DEF UserInv, LiveIsActive
<1>2. \A m \in UserMsgs : pc'[m] \in Live => m = h
  BY <1>1
<1> QED BY <1>2 DEF OneConversation, LiveIsActive, StartedIsCurrent,
           RunningIsShown, Live, Holding, Started

LEMMA UserRunner ==
  ASSUME UserDriven, UserInv, NEW j \in Jobs, RunnerStep(j)
  PROVE  OneConversation' /\ LiveIsActive' /\ StartedIsCurrent' /\ RunningIsShown'
<1>1. /\ pc \in [Jobs -> PCs] /\ pending \in Entries(Jobs, UserMsgs)
      /\ ident \in [Jobs -> Jobs \cup {NoTurn}]
      /\ j \in UserMsgs /\ UserMsgs = Jobs
  BY DEF UserInv, QueueInv, TypeOK, UserDriven, Jobs
<1>2. pc[j] \in Live /\ pc' = [pc EXCEPT ![j] = pc'[j]]
  BY <1>1 DEF RunnerStep, TakeSendLock, OnStart, Announce, AttachRuntime,
     FailsEarly, Fails, Finishes, Return, ReportError, EndGate, BroadcastDone,
     ClearPending, Goto, Live, Holding, Ending
<1>3. pending.active /\ \A m \in UserMsgs : m # j => pc'[m] \notin Live
  BY <1>1, <1>2 DEF UserInv, OneConversation, LiveIsActive
<1>4. OneConversation'
  BY <1>3 DEF OneConversation
<1>5. CASE OnStart(j)
  <2>1. pc'[j] = "announcing" /\ pending' = SetPending(AskClosed(pending), j)
    BY <1>1, <1>5 DEF OnStart, Goto
  <2>2. pending'.turnId = j /\ pending'.active
    <3>1. AskClosed(pending) \in Entries(Jobs, UserMsgs)
      BY <1>1, EntryLemma
    <3> HIDE DEF AskClosed
    <3> QED BY <2>1, <3>1 DEF SetPending, Ensure, Entries
  <2> QED BY <1>3, <1>4, <2>1, <2>2 DEF LiveIsActive, StartedIsCurrent,
             RunningIsShown, Live, Holding, Started
<1>6. CASE Announce(j)
  <2>1. pc[j] = "announcing" /\ pc'[j] = "opening" /\ lamp' = TRUE /\ pending' = pending
    BY <1>1, <1>6 DEF Announce, Goto
  <2>2. pending.turnId = j
    BY <1>1, <2>1 DEF UserInv, StartedIsCurrent, Started
  <2> QED BY <1>3, <1>4, <2>1, <2>2 DEF LiveIsActive, StartedIsCurrent,
             RunningIsShown, Live, Holding, Started
<1>7. CASE AttachRuntime(j)
  <2>1. pc[j] = "opening" /\ pc'[j] = "running" /\ lamp' = lamp /\ pending' = pending
    BY <1>1, <1>7 DEF AttachRuntime, Goto
  <2>2. pending.turnId = j /\ lamp
    BY <1>1, <2>1 DEF UserInv, StartedIsCurrent, RunningIsShown, Started
  <2> QED BY <1>3, <1>4, <2>1, <2>2 DEF LiveIsActive, StartedIsCurrent,
             RunningIsShown, Live, Holding, Started
<1>8. CASE ClearPending(j)
  <2>1. pc'[j] \notin Live
    BY <1>1, <1>8 DEF ClearPending, Goto, AfterEnd, Live, Holding, Ending
  <2> QED BY <1>3, <1>4, <2>1 DEF LiveIsActive, StartedIsCurrent,
             RunningIsShown, Live, Holding, Started
<1>9. ASSUME ~OnStart(j), ~Announce(j), ~AttachRuntime(j), ~ClearPending(j)
      PROVE  LiveIsActive' /\ StartedIsCurrent' /\ RunningIsShown'
  <2>1. pending'.active = pending.active
    BY <1>1, <1>9 DEF RunnerStep, TakeSendLock, FailsEarly, Fails, Finishes,
       Return, ReportError, EndGate, BroadcastDone, Ensure, Entries
  <2>2. pc'[j] \notin Started
    BY <1>1, <1>9 DEF RunnerStep, TakeSendLock, FailsEarly, Fails, Finishes,
       Return, ReportError, EndGate, BroadcastDone, AfterEnd, Goto, Started
  <2> QED BY <1>3, <2>1, <2>2 DEF LiveIsActive, StartedIsCurrent,
             RunningIsShown, Live, Holding, Started
<1> QED BY <1>4, <1>5, <1>6, <1>7, <1>8, <1>9

LEMMA UserSubmits ==
  ASSUME UserDriven, UserInv, NEW m \in UserMsgs,
         SubmitStep(m) \/ SubmitLaunches(m) \/ StartNext(m) \/ RemoveQueued(m)
  PROVE  OneConversation' /\ LiveIsActive' /\ StartedIsCurrent' /\ RunningIsShown'
<1>1. /\ pc \in [Jobs -> PCs] /\ pending \in Entries(Jobs, UserMsgs)
      /\ m \in Jobs /\ m \notin Commands /\ UserMsgs = Jobs
  BY DEF UserInv, QueueInv, TypeOK, UserDriven, Jobs
<1>2. CASE SubmitReserved(m)
  <2>1. pc' = [pc EXCEPT ![m] = "reserved"] /\ ~pending.active /\ pending'.active
    BY <1>1, <1>2 DEF SubmitReserved, Goto, Reserve, Ensure, Entries
  <2>2. pc'[m] = "reserved" /\ \A n \in UserMsgs : n # m => pc'[n] = pc[n]
    BY <1>1, <2>1
  <2> QED BY <2>1, <2>2, UserStarts
<1>3. CASE StartNext(m) /\ CanPop(pending)
  <2>1. PICK h \in UserMsgs : h = Head(pending.queue) /\ pc[h] = "queued"
    BY <1>3, PopLemma DEF UserInv
  <2>2. /\ pc' = [pc EXCEPT ![m] = "over", ![h] = "launched"]
        /\ pc[m] = "cleared" /\ ~pending.active /\ pending'.active
    BY <1>1, <1>3, <2>1 DEF StartNext, CanPop, Pop, Entries
  <2>3. pc'[h] = "launched"
        /\ \A n \in UserMsgs : n # h => pc'[n] = pc[n] \/ pc'[n] \notin Live
    BY <1>1, <2>1, <2>2 DEF Live, Holding, Ending
  <2>4. ~pending.active /\ pending'.active /\ pc'[h] \in {"reserved", "launched"}
    BY <2>2, <2>3
  <2> QED BY <2>3, <2>4, UserStarts
<1>4. CASE SubmitLaunches(m)
  <2>1. pc[m] = "reserved" /\ pc' = [pc EXCEPT ![m] = "launched"] /\ lamp' = lamp
        /\ pending'.active = pending.active /\ pending'.turnId = pending.turnId
    BY <1>1, <1>4 DEF SubmitLaunches, Goto, Unfreeze, Entries
  <2>2. pending'.active /\ \A n \in UserMsgs : n # m => pc'[n] \notin Live
    BY <1>1, <2>1 DEF UserInv, OneConversation, LiveIsActive, Live
  <2>3. pc'[m] = "launched"
    BY <1>1, <2>1
  <2> QED BY <2>2, <2>3 DEF OneConversation, LiveIsActive, StartedIsCurrent,
             RunningIsShown, Live, Holding, Started
<1>5. ASSUME ~SubmitReserved(m), ~(StartNext(m) /\ CanPop(pending)),
             ~SubmitLaunches(m)
      PROVE  OneConversation' /\ LiveIsActive' /\ StartedIsCurrent' /\ RunningIsShown'
  <2>1. lamp' = lamp /\ pending'.active = pending.active
        /\ pending'.turnId = pending.turnId
    BY <1>1, <1>5 DEF SubmitStep, SubmitQueued, SubmitCommand,
       StartNext, RemoveQueued, Enqueue, Ensure, Remove, Entries
  <2>2. PICK l \in {"queued", "over", "removed"} : pc' = [pc EXCEPT ![m] = l]
    BY <1>1, <1>5 DEF SubmitStep, SubmitQueued, SubmitCommand, StartNext,
       RemoveQueued, Goto
  <2>3. \A n \in UserMsgs : pc'[n] = pc[n] \/ pc'[n] \notin Live
    BY <1>1, <2>2 DEF Live, Holding, Ending
  <2> QED BY <2>1, <2>3, UserKept
<1> QED BY <1>2, <1>3, <1>4, <1>5

LEMMA UserOthers ==
  ASSUME UserDriven, UserInv,
         \/ \E b \in BgRuns : BackgroundLaunches(b)
         \/ \E c \in Cancels : CancelStep(c)
         \/ \E s \in SendNows : SendNowStep(s)
         \/ \E r \in Requests : InterruptStep(r)
         \/ AgentStep
         \/ UserAnswers
         \/ UNCHANGED vars
  PROVE  OneConversation' /\ LiveIsActive' /\ StartedIsCurrent' /\ RunningIsShown'
<1>1. /\ pc \in [Jobs -> PCs] /\ pending \in Entries(Jobs, UserMsgs)
      /\ UserMsgs = Jobs /\ BgRuns = {}
  BY DEF UserInv, QueueInv, TypeOK, UserDriven, Jobs
<1>2. ASSUME NEW c \in Cancels, CancelStep(c)
      PROVE  OneConversation' /\ LiveIsActive' /\ StartedIsCurrent' /\ RunningIsShown'
  <2>1. UNCHANGED <<pc, lamp>> /\ pending'.active = pending.active
        /\ pending'.turnId = pending.turnId
    BY <1>1, <1>2 DEF CancelStep, CancelReceived, CancelFreezes,
                      CancelUnfreezes, Freeze, Unfreeze, Entries
  <2> QED BY <2>1, UserKept
<1>3. ASSUME NEW r \in Requests, InterruptStep(r)
      PROVE  OneConversation' /\ LiveIsActive' /\ StartedIsCurrent' /\ RunningIsShown'
  <2>1. UNCHANGED <<pc, lamp, pending>>
    BY <1>3 DEF InterruptStep, CancelLookup, InterruptRuntime,
                InterruptRefused, CancelContext
  <2> QED BY <2>1, UserKept
<1>4. ASSUME NEW s \in SendNows, SendNowStep(s)
      PROVE  OneConversation' /\ LiveIsActive' /\ StartedIsCurrent' /\ RunningIsShown'
  <2>1. CASE SendNowPops(s) /\ CanPop(pending)
    <3>1. PICK h \in UserMsgs : h = Head(pending.queue)
      BY <2>1, PopLemma DEF UserInv
    <3>2. pc' = [pc EXCEPT ![h] = "launched"] /\ ~pending.active /\ pending'.active
      BY <1>1, <2>1, <3>1 DEF SendNowPops, Goto, CanPop, Pop, Entries
    <3>3. pc'[h] = "launched" /\ \A n \in UserMsgs : n # h => pc'[n] = pc[n]
      BY <1>1, <3>1, <3>2
    <3> QED BY <3>2, <3>3, UserStarts
  <2>2. ASSUME ~(SendNowPops(s) /\ CanPop(pending))
        PROVE  UNCHANGED <<pc, lamp>> /\ pending'.active = pending.active
               /\ pending'.turnId = pending.turnId
    BY <1>1, <1>4, <2>2 DEF SendNowStep, SendNowPromotes, SendNowDispatches,
                            SendNowPops, Promote, Entries
  <2> QED BY <2>1, <2>2, UserKept
<1>5. CASE AgentStep \/ UserAnswers
  <2>1. /\ UNCHANGED <<pc, lamp>>
        /\ \/ pending' = AskOpened(pending)
           \/ pending' = Ensure(pending)
           \/ pending' = AskClosed(pending)
           \/ pending' = Ensure(AskClosed(pending))
    BY <1>5 DEF AgentStep, AgentAsks, AgentGotAnswer, UpdateStreams, UserAnswers
  <2>2. ASSUME pending.active
        PROVE  pending'.active /\ pending'.turnId = pending.turnId
    BY <1>1, <2>1, <2>2 DEF AskOpened, AskClosed, Ensure, Entries
  <2> QED BY <2>1, <2>2, UserKept
<1>6. CASE UNCHANGED vars
  BY <1>6, UserKept DEF vars
<1> QED BY <1>1, <1>2, <1>3, <1>4, <1>5, <1>6

LEMMA UserStep == UserDriven /\ UserInv /\ [Next]_vars => UserInv'
<1> SUFFICES ASSUME UserDriven, UserInv, [Next]_vars PROVE UserInv'
  OBVIOUS
<1>1. QueueInv'
  BY QueueStep DEF UserInv
<1>2. OneConversation' /\ LiveIsActive' /\ StartedIsCurrent' /\ RunningIsShown'
  BY UserRunner, UserSubmits, UserOthers DEF Next
<1> QED BY <1>1, <1>2 DEF UserInv

(* The strengthening behind the next three theorems: in a session only its *)
(* users drive, the one live message owns the reservation, and once        *)
(* started the identity of the entry and the clients' lamp.                *)
THEOREM UserCorrect == ASSUME UserDriven PROVE Spec => []UserInv
<1>1. UserInv /\ [Next]_vars => UserInv'
  BY UserDriven, UserStep
<1> QED BY <1>1, UserInit, PTL DEF Spec

(* In a session only its users drive, one message at a time holds the      *)
(* conversation, from its reservation to the clearing of its entry.        *)
THEOREM ConversationCorrect == ASSUME UserDriven PROVE Spec => []OneConversation
<1>1. UserInv => OneConversation
  BY DEF UserInv
<1> QED BY <1>1, UserDriven, UserCorrect, PTL

(* There, the entry and the clients' lamp belong to the turn that runs.    *)
THEOREM RunningCorrect == ASSUME UserDriven PROVE Spec => []RunningTurnIsLit
<1>1. UserInv => RunningTurnIsLit
  <2> SUFFICES ASSUME UserInv, NEW j \in Jobs, pc[j] \in {"opening", "running"}
               PROVE  pending.active /\ pending.turnId = j /\ lamp
    BY DEF RunningTurnIsLit
  <2>1. j \in UserMsgs
    BY UserDriven DEF UserDriven, Jobs
  <2>2. pc[j] \in Live /\ pc[j] \in Started
    BY DEF Live, Holding, Started
  <2> QED BY <2>1, <2>2 DEF UserInv, LiveIsActive, StartedIsCurrent, RunningIsShown
<1> QED BY <1>1, UserDriven, UserCorrect, PTL

(* There, no turn starts before the done of the turn before it was sent.   *)
THEOREM OverlapCorrect == ASSUME UserDriven PROVE Spec => []TurnsDoNotOverlap
<1>1. UserInv => TurnsDoNotOverlap
  <2>1. Jobs = UserMsgs
    BY UserDriven DEF UserDriven, Jobs
  <2> QED BY <2>1 DEF UserInv, OneConversation, TurnsDoNotOverlap, Live,
             Holding, Started, Ending
<1> QED BY <1>1, UserDriven, UserCorrect, PTL

-----------------------------------------------------------------------------
(* A cancel without a target.  Its handler can leave the lookup only with  *)
(* a target that still runs, so the two interrupts are out of its reach.   *)
IdleInv ==
  /\ IdleCancelIsHarmless
  /\ \A c \in Cancels :
       /\ rpc[c] \in {"runtime", "context"} => target[c] # NoTurn
       /\ rpc[c] = "new" => \A j \in Jobs : <<c, j>> \notin hit

CancelInv == QueueInv /\ IdleInv

LEMMA IdleInit == Init => CancelInv
  BY QueueInit DEF Init, CancelInv, IdleInv, IdleCancelIsHarmless, Requests

LEMMA IdleStep == CancelInv /\ [Next]_vars => CancelInv'
<1> SUFFICES ASSUME CancelInv, [Next]_vars PROVE CancelInv'
  OBVIOUS
<1>1. QueueInv'
  BY QueueStep DEF CancelInv
<1>2. /\ rpc \in [Requests -> RPCs] /\ Cancels \subseteq Requests
      /\ target \in [Requests -> Jobs \cup {NoTurn}]
      /\ SendNows \subseteq Requests /\ Cancels \cap SendNows = {}
  BY JobsAssumption DEF CancelInv, QueueInv, TypeOK, Requests
<1>3. ASSUME NEW d \in Cancels, CancelStep(d)
      PROVE  IdleInv'
  <2>1. CASE CancelReceived(d)
    <3>1. rpc[d] = "new" /\ rpc' = [rpc EXCEPT ![d] = "received"]
          /\ target' = [target EXCEPT ![d] = activeTurn] /\ hit' = hit
      BY <2>1 DEF CancelReceived, RGoto
    <3> QED BY <1>2, <3>1 DEF CancelInv, IdleInv, IdleCancelIsHarmless
  <2>2. CASE CancelFreezes(d) \/ CancelUnfreezes(d)
    <3>1. PICK l \in {"lookup", "done"} : rpc' = [rpc EXCEPT ![d] = l]
      BY <2>2 DEF CancelFreezes, CancelUnfreezes, RGoto
    <3>2. target' = target /\ hit' = hit
      BY <2>2 DEF CancelFreezes, CancelUnfreezes
    <3> QED BY <1>2, <3>1, <3>2 DEF CancelInv, IdleInv, IdleCancelIsHarmless
  <2> QED BY <1>3, <2>1, <2>2 DEF CancelStep
<1>4. ASSUME NEW s \in SendNows, SendNowStep(s)
      PROVE  IdleInv'
  <2>1. target' = target /\ hit' = hit
    BY <1>4 DEF SendNowStep, SendNowPromotes, SendNowDispatches, SendNowPops
  <2>2. \A c \in Cancels : rpc'[c] = rpc[c]
    BY <1>2, <1>4 DEF SendNowStep, SendNowPromotes, SendNowDispatches,
       SendNowPops, RGoto
  <2> QED BY <2>1, <2>2 DEF CancelInv, IdleInv, IdleCancelIsHarmless
<1>5. ASSUME NEW r \in Requests, InterruptStep(r)
      PROVE  IdleInv'
  <2>1. CASE CancelLookup(r)
    <3>1. PICK l : rpc' = [rpc EXCEPT ![r] = l] /\ rpc[r] = "lookup" /\ hit' = hit
                   /\ l # "new"
      BY <2>1 DEF CancelLookup, RGoto
    <3>2. CASE r \in Cancels
      <4>1. /\ target' = target
            /\ l = "done" \/ target[r] # NoTurn
        BY <1>2, <2>1, <3>1, <3>2 DEF CancelLookup, RGoto, StaleTarget
      <4> QED BY <1>2, <3>1, <4>1 DEF CancelInv, IdleInv, IdleCancelIsHarmless
    <3>3. CASE r \notin Cancels
      <4>1. \A c \in Cancels : target'[c] = target[c] /\ rpc'[c] = rpc[c]
        BY <1>2, <2>1, <3>1, <3>3 DEF CancelLookup
      <4> QED BY <3>1, <4>1 DEF CancelInv, IdleInv, IdleCancelIsHarmless
    <3> QED BY <3>2, <3>3
  <2>2. CASE InterruptRuntime(r) \/ InterruptRefused(r) \/ CancelContext(r)
    <3>1. /\ target' = target /\ rpc[r] \in {"runtime", "context"}
          /\ \A x \in hit' : x \in hit \/ x[1] = r
          /\ \E l \in {"done", "failed"} : rpc' = [rpc EXCEPT ![r] = l]
      BY <2>2 DEF InterruptRuntime, InterruptRefused, CancelContext, RGoto
    <3>2. \A c \in Cancels : \A j \in Jobs :
            <<c, j>> \in hit' => <<c, j>> \in hit \/ c = r
      BY <3>1
    <3> QED BY <1>2, <3>1, <3>2 DEF CancelInv, IdleInv, IdleCancelIsHarmless
  <2> QED BY <1>5, <2>1, <2>2 DEF InterruptStep
<1>6. ASSUME UNCHANGED requestVars
      PROVE  IdleInv'
  BY <1>6 DEF requestVars, CancelInv, IdleInv, IdleCancelIsHarmless
<1>7. ASSUME NEW m \in UserMsgs,
             SubmitStep(m) \/ SubmitLaunches(m) \/ StartNext(m) \/ RemoveQueued(m)
      PROVE  UNCHANGED requestVars
  BY <1>7 DEF SubmitStep, SubmitQueued, SubmitReserved, SubmitCommand,
     SubmitLaunches, StartNext, RemoveQueued
<1>8. ASSUME NEW j \in Jobs, RunnerStep(j)
      PROVE  UNCHANGED requestVars
  BY <1>8 DEF RunnerStep, TakeSendLock, OnStart, Announce, AttachRuntime,
     FailsEarly, Fails, Finishes, Return, ReportError, EndGate, BroadcastDone,
     ClearPending
<1>9. ASSUME \/ \E b \in BgRuns : BackgroundLaunches(b)
             \/ AgentStep
             \/ UserAnswers
             \/ UNCHANGED vars
      PROVE  UNCHANGED requestVars
  BY <1>9 DEF BackgroundLaunches, AgentStep, AgentAsks, AgentGotAnswer,
     UpdateStreams, UserAnswers, vars, requestVars
<1>10. IdleInv'
  BY <1>3, <1>4, <1>5, <1>6, <1>7, <1>8, <1>9 DEF Next
<1> QED BY <1>1, <1>10 DEF CancelInv

(* A cancel that was read while nothing ran interrupts nothing, however    *)
(* late its handler runs and whatever started meanwhile.                   *)
THEOREM IdleCancelCorrect == Spec => []IdleCancelIsHarmless
<1>1. CancelInv => IdleCancelIsHarmless
  BY DEF CancelInv, IdleInv
<1> QED BY <1>1, IdleInit, IdleStep, PTL DEF Spec

-----------------------------------------------------------------------------
(* A session that only its users drive implements Conversation.            *)
(* OneConversation makes the speaker unique, LampHasOwner and LiveIsActive *)
(* make "somebody speaks" the same as an active entry, QueueIsExact makes  *)
(* the line the messages that wait.                                        *)
PromiseInv == UserDriven /\ UserInv /\ LampInv

(* The speaker is the live message, if there is one.                       *)
LEMMA SpeakerIsLive ==
  ASSUME OneConversation, NEW m \in UserMsgs, pc[m] \in Live
  PROVE  Speaker = m
  BY DEF OneConversation, Speaker

LEMMA SpeakerIsLivePrimed ==
  ASSUME OneConversation', NEW m \in UserMsgs, pc'[m] \in Live
  PROVE  Speaker' = m
  BY DEF OneConversation, Speaker

LEMMA SpeakerIsNobody ==
  ASSUME \A m \in UserMsgs : pc[m] \notin Live
  PROVE  Speaker = NoTurn
  BY DEF Speaker

LEMMA SpeakerIsNobodyPrimed ==
  ASSUME \A m \in UserMsgs : pc'[m] \notin Live
  PROVE  Speaker' = NoTurn
  BY DEF Speaker

(* An active entry and a speaker come together.                            *)
LEMMA ActiveMeansSpeaker ==
  ASSUME PromiseInv
  PROVE  /\ pending.active => \E m \in UserMsgs : pc[m] \in Live
         /\ pending.active <=> Speaker # NoTurn
<1>1. UserMsgs = Jobs /\ NoTurn \notin UserMsgs
  BY JobsAssumption DEF PromiseInv, UserDriven, Jobs
<1>2. ASSUME pending.active PROVE \E m \in UserMsgs : pc[m] \in Live
  BY <1>1, <1>2 DEF PromiseInv, LampInv, LampHasOwner
<1>3. ASSUME NEW m \in UserMsgs, pc[m] \in Live
      PROVE  pending.active /\ Speaker = m /\ Speaker # NoTurn
  BY <1>1, <1>3, SpeakerIsLive DEF PromiseInv, UserInv, LiveIsActive
<1> QED BY <1>2, <1>3, SpeakerIsNobody

Spoken == {m \in UserMsgs : pc[m] \in {"cleared", "over"}}
Gone == {m \in UserMsgs : pc[m] = "removed"}

(* A message that was not submitted yet is unknown to the conversation.    *)
LEMMA FreshIsUnknown ==
  ASSUME PromiseInv, NEW m \in UserMsgs, pc[m] = "fresh"
  PROVE  Promise!Unknown(m)
<1>1. ~Promise!Waits(m)
  BY DEF PromiseInv, UserInv, QueueInv, QueueIsExact, Promise!Waits, Queued
<1>2. m # Speaker
  <2>1. CASE \E n \in UserMsgs : pc[n] \in Live
    BY <2>1, SpeakerIsLive DEF PromiseInv, UserInv, Live, Holding, Ending
  <2>2. CASE ~\E n \in UserMsgs : pc[n] \in Live
    BY <2>2, SpeakerIsNobody, JobsAssumption
  <2> QED BY <2>1, <2>2
<1> QED BY <1>1, <1>2 DEF Promise!Unknown

(* A step that shows nothing of itself.                                    *)
LEMMA Stutters ==
  ASSUME PromiseInv, OneConversation', pending'.queue = pending.queue,
         \A m \in UserMsgs : \/ pc'[m] = pc[m]
                             \/ {pc[m], pc'[m]} \subseteq Live
                             \/ {pc[m], pc'[m]} \subseteq {"cleared", "over"}
  PROVE  UNCHANGED Promise!vars
<1>1. Speaker' = Speaker
  <2>1. \A m \in UserMsgs : pc'[m] \in Live <=> pc[m] \in Live
    BY DEF Live, Holding, Ending
  <2>2. CASE \E m \in UserMsgs : pc[m] \in Live
    BY <2>1, <2>2, SpeakerIsLive, SpeakerIsLivePrimed DEF PromiseInv, UserInv
  <2>3. CASE ~\E m \in UserMsgs : pc[m] \in Live
    BY <2>1, <2>3, SpeakerIsNobody, SpeakerIsNobodyPrimed
  <2> QED BY <2>2, <2>3
<1>2. Spoken' = Spoken /\ Gone' = Gone
  BY DEF Spoken, Gone, Live, Holding, Ending
<1> QED BY <1>1, <1>2 DEF Promise!vars, Spoken, Gone

LEMMA SubmitRefines ==
  ASSUME PromiseInv, OneConversation', NEW m \in UserMsgs,
         SubmitStep(m) \/ SubmitLaunches(m)
  PROVE  [Promise!Next]_(Promise!vars)
<1>1. pc \in [Jobs -> PCs] /\ m \in Jobs /\ UserMsgs = Jobs /\ m \notin Commands
      /\ pending \in Entries(Jobs, UserMsgs)
  BY DEF PromiseInv, UserInv, QueueInv, TypeOK, UserDriven, Jobs
<1>2. CASE SubmitQueued(m)
  <2>1. Promise!Unknown(m) /\ Speaker # NoTurn
    BY <1>2, FreshIsUnknown, ActiveMeansSpeaker DEF SubmitQueued
  <2>2. pending'.queue = Append(pending.queue, m)
    BY <1>1, <1>2 DEF SubmitQueued, Enqueue, Ensure, Entries
  <2>3. pc[m] = "fresh" /\ pc' = [pc EXCEPT ![m] = "queued"]
    BY <1>2 DEF SubmitQueued, Goto
  <2>4. \A n \in UserMsgs : /\ pc'[n] \in Live <=> pc[n] \in Live
                            /\ pc'[n] \in {"cleared", "over"} <=> pc[n] \in {"cleared", "over"}
                            /\ pc'[n] = "removed" <=> pc[n] = "removed"
    BY <1>1, <2>3 DEF Live, Holding, Ending
  <2>5. Speaker' = Speaker
    BY <2>4, <1>2, ActiveMeansSpeaker, SpeakerIsLive, SpeakerIsLivePrimed
       DEF SubmitQueued, PromiseInv, UserInv
  <2>6. Spoken' = Spoken /\ Gone' = Gone
    BY <2>4 DEF Spoken, Gone
  <2>7. Promise!Join(m)
    BY <2>1, <2>2, <2>5, <2>6 DEF Promise!Join, Spoken, Gone
  <2> QED BY <2>7 DEF Promise!Next
<1>3. CASE SubmitReserved(m)
  <2>1. Promise!Unknown(m) /\ Speaker = NoTurn
    BY <1>3, FreshIsUnknown, ActiveMeansSpeaker DEF SubmitReserved
  <2>2. pending'.queue = pending.queue
    BY <1>1, <1>3 DEF SubmitReserved, Reserve, Ensure, Entries
  <2>3. pc[m] = "fresh" /\ pc' = [pc EXCEPT ![m] = "reserved"]
    BY <1>3 DEF SubmitReserved, Goto
  <2>4. Speaker' = m
    BY <1>1, <2>3, SpeakerIsLivePrimed DEF Live
  <2>5. Spoken' = Spoken /\ Gone' = Gone
    BY <1>1, <2>3 DEF Spoken, Gone
  <2>6. Promise!SpeakAtOnce(m)
    BY <2>1, <2>2, <2>4, <2>5 DEF Promise!SpeakAtOnce, Spoken, Gone
  <2> QED BY <2>6 DEF Promise!Next
<1>4. CASE SubmitLaunches(m)
  <2>1. pending'.queue = pending.queue
    BY <1>1, <1>4 DEF SubmitLaunches, Unfreeze, Entries
  <2>2. pc[m] = "reserved" /\ pc' = [pc EXCEPT ![m] = "launched"]
    BY <1>4 DEF SubmitLaunches, Goto
  <2>3. \A n \in UserMsgs : pc'[n] = pc[n] \/ {pc[n], pc'[n]} \subseteq Live
    BY <1>1, <2>2 DEF Live
  <2> QED BY <2>1, <2>3, Stutters
<1> QED BY <1>1, <1>2, <1>3, <1>4 DEF SubmitStep, SubmitCommand

(* A pop, by the runner that ended or by "send now".                       *)
LEMMA PopRefines ==
  ASSUME PromiseInv, OneConversation', CanPop(pending), pending' = Pop(pending),
         NEW h \in UserMsgs, h = Head(pending.queue), pc'[h] = "launched",
         \A n \in UserMsgs : n # h => \/ pc'[n] = pc[n]
                                      \/ {pc[n], pc'[n]} \subseteq {"cleared", "over"}
  PROVE  Promise!SpeakNext
<1>1. Speaker = NoTurn /\ Speaker' = h
  BY ActiveMeansSpeaker, SpeakerIsLivePrimed DEF CanPop, Live
<1>2. pc[h] = "queued"
  BY PopLemma DEF PromiseInv, UserInv
<1>3. pending.queue # <<>> /\ pending'.queue = Tail(pending.queue)
  BY DEF CanPop, Pop, PromiseInv, UserInv, QueueInv, TypeOK, Entries
<1>4. Spoken' = Spoken /\ Gone' = Gone
  BY <1>2 DEF Spoken, Gone
<1> QED BY <1>1, <1>3, <1>4 DEF Promise!SpeakNext, Spoken, Gone

LEMMA StartNextRefines ==
  ASSUME PromiseInv, OneConversation', NEW m \in UserMsgs, StartNext(m)
  PROVE  [Promise!Next]_(Promise!vars)
<1>1. pc \in [Jobs -> PCs] /\ m \in Jobs /\ UserMsgs = Jobs
  BY DEF PromiseInv, UserInv, QueueInv, TypeOK, UserDriven, Jobs
<1>2. CASE CanPop(pending)
  <2>1. PICK h \in UserMsgs : h = Head(pending.queue) /\ pc[h] = "queued"
    BY <1>2, PopLemma DEF PromiseInv, UserInv
  <2>2. /\ pending' = Pop(pending) /\ pc[m] = "cleared"
        /\ pc' = [pc EXCEPT ![m] = "over", ![h] = "launched"]
    BY <1>2, <2>1 DEF StartNext
  <2>3. pc'[h] = "launched"
        /\ \A n \in UserMsgs : n # h => \/ pc'[n] = pc[n]
                                        \/ {pc[n], pc'[n]} \subseteq {"cleared", "over"}
    BY <1>1, <2>1, <2>2
  <2>4. Promise!SpeakNext
    BY <1>2, <2>1, <2>2, <2>3, PopRefines
  <2> QED BY <2>4 DEF Promise!Next
<1>3. CASE ~CanPop(pending)
  <2>1. pending' = pending /\ pc[m] = "cleared" /\ pc' = [pc EXCEPT ![m] = "over"]
    BY <1>3 DEF StartNext, Goto
  <2>2. \A n \in UserMsgs : pc'[n] = pc[n] \/ {pc[n], pc'[n]} \subseteq {"cleared", "over"}
    BY <1>1, <2>1
  <2> QED BY <2>1, <2>2, Stutters
<1> QED BY <1>2, <1>3

LEMMA RemoveRefines ==
  ASSUME PromiseInv, OneConversation', NEW m \in UserMsgs, RemoveQueued(m)
  PROVE  Promise!Withdraw(m)
<1>1. pc \in [Jobs -> PCs] /\ m \in Jobs /\ UserMsgs = Jobs
      /\ pending \in Entries(Jobs, UserMsgs)
  BY DEF PromiseInv, UserInv, QueueInv, TypeOK, UserDriven, Jobs
<1>2. pc[m] = "queued" /\ pc' = [pc EXCEPT ![m] = "removed"]
  BY DEF RemoveQueued, Goto
<1>3. pending'.queue = Without(pending.queue, m)
  BY <1>1 DEF RemoveQueued, Remove, Entries
<1>4. Promise!Waits(m)
  BY <1>2 DEF PromiseInv, UserInv, QueueInv, QueueIsExact, Queued, Promise!Waits
<1>5. \A n \in UserMsgs : pc'[n] \in Live <=> pc[n] \in Live
  BY <1>1, <1>2 DEF Live, Holding, Ending
<1>6. Speaker' = Speaker
  <2>1. CASE \E n \in UserMsgs : pc[n] \in Live
    BY <1>5, <2>1, SpeakerIsLive, SpeakerIsLivePrimed DEF PromiseInv, UserInv
  <2>2. CASE ~\E n \in UserMsgs : pc[n] \in Live
    BY <1>5, <2>2, SpeakerIsNobody, SpeakerIsNobodyPrimed
  <2> QED BY <2>1, <2>2
<1>7. Spoken' = Spoken /\ Gone' = Gone \cup {m}
  BY <1>1, <1>2 DEF Spoken, Gone
<1> QED BY <1>3, <1>4, <1>6, <1>7 DEF Promise!Withdraw, Spoken, Gone

LEMMA RunnerRefines ==
  ASSUME PromiseInv, OneConversation', QueueInv', NEW j \in Jobs, RunnerStep(j)
  PROVE  [Promise!Next]_(Promise!vars)
<1>1. pc \in [Jobs -> PCs] /\ UserMsgs = Jobs
      /\ pending \in Entries(Jobs, UserMsgs)
  BY DEF PromiseInv, UserInv, QueueInv, TypeOK, UserDriven, Jobs
<1>2. pc[j] \in Live /\ pc' = [pc EXCEPT ![j] = pc'[j]]
      /\ pc'[j] \in Live \cup {"cleared"}
  BY <1>1 DEF RunnerStep, TakeSendLock, OnStart, Announce, AttachRuntime,
     FailsEarly, Fails, Finishes, Return, ReportError, EndGate, BroadcastDone,
     ClearPending, Goto, AfterEnd, Live, Holding, Ending
<1>3. pending'.queue = pending.queue
  <2>1. CASE OnStart(j)
    <3>1. AskClosed(pending) \in Entries(Jobs, UserMsgs)
          /\ AskClosed(pending).queue = pending.queue
      BY <1>1, EntryLemma
    <3> HIDE DEF AskClosed
    <3> QED BY <2>1, <3>1, SetPendingLemma DEF OnStart
  <2>2. CASE ReportError(j)
    BY <1>1, <2>2, EntryLemma DEF ReportError
  <2>3. CASE ClearPending(j)
    BY <1>1, <2>3, ClearLemma DEF ClearPending
  <2>4. ASSUME ~OnStart(j), ~ReportError(j), ~ClearPending(j)
        PROVE  pending' = pending
    BY <2>4 DEF RunnerStep, TakeSendLock, Announce, AttachRuntime, FailsEarly,
                Fails, Finishes, Return, EndGate, BroadcastDone
  <2> QED BY <2>1, <2>2, <2>3, <2>4
<1>4. CASE pc'[j] \in Live
  <2>1. \A n \in UserMsgs : pc'[n] = pc[n] \/ {pc[n], pc'[n]} \subseteq Live
    BY <1>1, <1>2, <1>4
  <2> QED BY <1>3, <2>1, Stutters
<1>5. CASE pc'[j] = "cleared"
  <2>1. Speaker = j /\ j # NoTurn
    BY <1>1, <1>2, SpeakerIsLive, JobsAssumption DEF PromiseInv, UserInv
  <2>2. \A n \in UserMsgs : pc'[n] \notin Live
    BY <1>1, <1>2, <1>5 DEF PromiseInv, UserInv, OneConversation, Live, Holding, Ending
  <2>3. Speaker' = NoTurn
    BY <2>2, SpeakerIsNobodyPrimed
  <2>4. Spoken' = Spoken \cup {j} /\ Gone' = Gone
    BY <1>1, <1>2, <1>5 DEF Spoken, Gone, Live, Holding, Ending
  <2>5. Promise!Finish
    BY <1>3, <2>1, <2>3, <2>4 DEF Promise!Finish, Spoken, Gone
  <2> QED BY <2>5 DEF Promise!Next
<1> QED BY <1>2, <1>4, <1>5

LEMMA SendNowRefines ==
  ASSUME PromiseInv, OneConversation', NEW s \in SendNows, SendNowStep(s)
  PROVE  [Promise!Next]_(Promise!vars)
<1>1. pc \in [Jobs -> PCs] /\ UserMsgs = Jobs
      /\ pending \in Entries(Jobs, UserMsgs)
  BY DEF PromiseInv, UserInv, QueueInv, TypeOK, UserDriven, Jobs
<1>2. ASSUME NEW m \in UserMsgs, SendNowPromotes(s, m)
      PROVE  Promise!PutFirst(m)
  <2>1. pc' = pc /\ pending'.queue = ToFront(pending.queue, m)
    BY <1>1, <1>2 DEF SendNowPromotes, Promote, Entries
  <2>2. Promise!Waits(m)
    BY <1>2 DEF SendNowPromotes, Queued, Promise!Waits
  <2>3. Speaker' = Speaker /\ Spoken' = Spoken /\ Gone' = Gone
    BY <2>1 DEF Speaker, Spoken, Gone
  <2> QED BY <2>1, <2>2, <2>3 DEF Promise!PutFirst, Spoken, Gone
<1>3. CASE SendNowPops(s) /\ CanPop(pending)
  <2>1. PICK h \in UserMsgs : h = Head(pending.queue) /\ pc[h] = "queued"
    BY <1>3, PopLemma DEF PromiseInv, UserInv
  <2>2. pending' = Pop(pending) /\ pc' = [pc EXCEPT ![h] = "launched"]
    BY <1>3, <2>1 DEF SendNowPops, Goto
  <2>3. pc'[h] = "launched" /\ \A n \in UserMsgs : n # h => pc'[n] = pc[n]
    BY <1>1, <2>1, <2>2
  <2>4. Promise!SpeakNext
    BY <1>3, <2>1, <2>2, <2>3, PopRefines
  <2> QED BY <2>4 DEF Promise!Next
<1>4. CASE SendNowDispatches(s) \/ (SendNowPops(s) /\ ~CanPop(pending))
  BY <1>4, Stutters DEF SendNowDispatches, SendNowPops
<1> QED BY <1>2, <1>3, <1>4 DEF SendNowStep, Promise!Next

LEMMA OthersRefine ==
  ASSUME PromiseInv, OneConversation',
         \/ \E b \in BgRuns : BackgroundLaunches(b)
         \/ \E c \in Cancels : CancelStep(c)
         \/ \E r \in Requests : InterruptStep(r)
         \/ AgentStep
         \/ UserAnswers
         \/ UNCHANGED vars
  PROVE  UNCHANGED Promise!vars
<1>1. BgRuns = {} /\ pending \in Entries(Jobs, UserMsgs)
  BY DEF PromiseInv, UserDriven, UserInv, QueueInv, TypeOK
<1>2. AskClosed(pending) \in Entries(Jobs, UserMsgs)
      /\ AskClosed(pending).queue = pending.queue
  BY <1>1, EntryLemma
<1>3. ASSUME NEW c \in Cancels, CancelStep(c)
      PROVE  pc' = pc /\ pending'.queue = pending.queue
  BY <1>1, <1>3, EntryLemma
     DEF CancelStep, CancelReceived, CancelFreezes, CancelUnfreezes
<1>4. ASSUME NEW r \in Requests, InterruptStep(r)
      PROVE  pc' = pc /\ pending'.queue = pending.queue
  BY <1>4 DEF InterruptStep, CancelLookup, InterruptRuntime, InterruptRefused,
              CancelContext
<1>5. ASSUME AgentStep \/ UserAnswers
      PROVE  pc' = pc /\ pending'.queue = pending.queue
  BY <1>1, <1>2, <1>5, EntryLemma
     DEF AgentStep, AgentAsks, AgentGotAnswer, UpdateStreams, UserAnswers
<1>6. pc' = pc /\ pending'.queue = pending.queue
  BY <1>1, <1>3, <1>4, <1>5 DEF vars
<1> QED BY <1>6, Stutters

LEMMA StepRefines ==
  ASSUME PromiseInv, [Next]_vars, UserInv', QueueInv'
  PROVE  [Promise!Next]_(Promise!vars)
<1>1. OneConversation'
  BY DEF UserInv
<1>2. ASSUME NEW m \in UserMsgs, RemoveQueued(m)
      PROVE  [Promise!Next]_(Promise!vars)
  BY <1>1, <1>2, RemoveRefines DEF Promise!Next
<1> QED BY <1>1, <1>2, SubmitRefines, StartNextRefines, RunnerRefines,
           SendNowRefines, OthersRefine DEF Next

(* A session its users drive is a Conversation: every step of submitting,  *)
(* running, ending, queue editing, cancelling and answering is a step of   *)
(* the abstract specification or invisible to it.                          *)
THEOREM Refinement == ASSUME UserDriven PROVE Spec => KeepsPromise
<1>1. Init => Promise!Init
  <2> SUFFICES ASSUME Init PROVE Promise!Init
    OBVIOUS
  <2>1. \A m \in UserMsgs : pc[m] = "fresh"
    BY DEF Init, Jobs
  <2>2. Speaker = NoTurn
    BY <2>1, SpeakerIsNobody DEF Live, Holding, Ending
  <2> QED BY <2>1, <2>2 DEF Init, Absent, Promise!Init
<1>2. Spec => []UserInv
  BY UserDriven, UserCorrect
<1>3. Spec => []LampInv
  BY LampInit, LampStep, PTL DEF Spec
<1>4. UserInv /\ LampInv /\ [Next]_vars /\ UserInv' => [Promise!Next]_(Promise!vars)
  BY UserDriven, StepRefines DEF PromiseInv, UserInv
<1> QED BY <1>1, <1>2, <1>3, <1>4, PTL DEF Spec, KeepsPromise, Promise!Spec

-----------------------------------------------------------------------------
(* The recovery of one running turn (TurnRecovery).                        *)

(* Every send is the first one or a counted attempt.                       *)
SendsAreCounted == sends = attempt + (IF at = "ready" THEN 0 ELSE 1)

(* A turn that waits is in its recovery and has an attempt left.           *)
AttemptLeft == at = "waiting" => 0 < attempt /\ attempt < MaxAttempts

(* Recovery began only after the agent spoke, so no recovery attempt       *)
(* carries the prompt.                                                     *)
RecoveryFollowsSpeech == attempt > 0 => spoke

PromptIsFirstSend == prompts = IF sends = 0 THEN 0 ELSE 1

(* The counts matter while the turn lives; afterwards nothing sends.       *)
TurnInv ==
  /\ RecoveryTypeOK
  /\ at # "over" => SendsAreCounted
  /\ AttemptLeft
  /\ RecoveryFollowsSpeech
  /\ PromptIsFirstSend
  /\ sends > 1 => attempt > 0

LEMMA TurnInit == RecoveryInit => TurnInv
<1> SUFFICES ASSUME RecoveryInit PROVE TurnInv
  OBVIOUS
<1>1. MaxAttempts \in Nat /\ MaxAttempts > 0
  BY RecoveryAssumption
<1>2. RecoveryTypeOK
  <2>1. /\ attempt \in 0..MaxAttempts
        /\ sends \in 0..(MaxAttempts + 1) /\ prompts \in 0..(MaxAttempts + 1)
    BY <1>1 DEF RecoveryInit
  <2>2. stop \in [Stops -> {"new", "found", "done"}]
    BY DEF RecoveryInit
  <2> QED BY <2>1, <2>2 DEF RecoveryInit, RecoveryTypeOK
<1> QED BY <1>2 DEF RecoveryInit, TurnInv, SendsAreCounted, AttemptLeft,
                    RecoveryFollowsSpeech, PromptIsFirstSend

(* One case per action; only the four that touch the counters need more    *)
(* than the definitions.                                                   *)
LEMMA TurnStep == TurnInv /\ [RecoveryNext]_recoveryVars => TurnInv'
<1> SUFFICES ASSUME TurnInv, [RecoveryNext]_recoveryVars PROVE TurnInv'
  OBVIOUS
<1> USE RecoveryAssumption
    DEF TurnInv, RecoveryTypeOK, SendsAreCounted, AttemptLeft, RecoveryFollowsSpeech,
        PromptIsFirstSend
<1>1. CASE BeginSend
  BY <1>1 DEF BeginSend
<1>2. CASE AgentSpeaks
  BY <1>2 DEF AgentSpeaks, sendVars
<1>3. CASE SendSucceeds \/ SendCanceled \/ SendFailsForGood \/ DelayCanceled
  BY <1>3 DEF SendSucceeds, SendCanceled, SendFailsForGood, DelayCanceled, End,
              sendVars
<1>4. CASE SendFails
  <2>1. CASE GivesUp
    BY <1>4, <2>1 DEF SendFails, End, sendVars
  <2>2. CASE ~GivesUp
    BY <1>4, <2>2 DEF SendFails, GivesUp, sendVars
  <2> QED BY <2>1, <2>2
<1>5. CASE DelayEnds
  BY <1>5 DEF DelayEnds, sendVars
<1>6. ASSUME NEW s \in Stops, StopStep(s)
      PROVE  TurnInv'
  BY <1>6 DEF StopStep, StopFinds, StopInterrupts, StopRefused, sendVars
<1>7. CASE UNCHANGED recoveryVars
  BY <1>7 DEF recoveryVars
<1> QED BY <1>1, <1>2, <1>3, <1>4, <1>5, <1>6, <1>7 DEF RecoveryNext, SendStep

(* Every reachable state is well-typed: the sends and the attempts stay    *)
(* within the bound of the recovery loop.                                  *)
THEOREM RecoveryTypeCorrect == RecoverySpec => []RecoveryTypeOK
<1>1. TurnInv => RecoveryTypeOK
  BY DEF TurnInv
<1> QED BY <1>1, TurnInit, TurnStep, PTL DEF RecoverySpec

(* The user's message reaches the agent at most once, and a second send    *)
(* happens only after the agent spoke.                                     *)
THEOREM PromptCorrect == RecoverySpec => []PromptSentOnce
<1>1. TurnInv => PromptSentOnce
  BY DEF TurnInv, PromptSentOnce, PromptIsFirstSend, RecoveryFollowsSpeech, RecoveryTypeOK
<1> QED BY <1>1, TurnInit, TurnStep, PTL DEF RecoverySpec
=============================================================================
