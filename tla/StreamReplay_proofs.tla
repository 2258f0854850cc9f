------------------------ MODULE StreamReplay_proofs ------------------------
(* Theorems of StreamReplay for every set of clients and requests.         *)
EXTENDS StreamReplay, SequenceTheorems, TLAPS

(* Events of the current buffer are events, in a sequence.                 *)
LEMMA SliceType ==
  ASSUME epoch \in Nat, NEW i \in Nat, NEW j \in Nat
  PROVE  Slice(i + 1, j) \in Seq(Event)
<1> DEFINE n == IF j < i + 1 THEN 0 ELSE j + 1 - (i + 1)
<1>1. n \in Nat
  OBVIOUS
<1>2. \A k \in 1..n : <<epoch, (i + 1) + k - 1>> \in Event
  BY <1>1 DEF Event
<1> QED BY <1>1, <1>2 DEF Slice

-----------------------------------------------------------------------------
LEMMA TypeInit == Init => TypeOK
<1> SUFFICES ASSUME Init PROVE TypeOK
  OBVIOUS
<1>1. epoch \in Nat /\ count \in Nat /\ turns \in 1..MaxTurns
      /\ emitted \in 0..MaxEvents /\ queueOps \in 0..MaxQueueOps
  BY ReplayAssumption DEF Init
<1>2. replay \in [Clients -> ReplayState]
  BY DEF Init, NoReplays, NoReplay, ReplayState
<1>3. ready \in [Readies -> ReadyState]
  BY DEF Init, ReadyState
<1>4. emitter \in [Emitters -> EmitterState]
  BY DEF Init, Event, EmitterState
<1>5. tail \in [Clients -> Seq(Event)]
  BY DEF Init
<1> QED BY <1>1, <1>2, <1>3, <1>4, <1>5 DEF Init, TypeOK

(* A step of one emitter.                                                  *)
LEMMA TypeEmitter ==
  ASSUME TypeOK, NEW e \in Emitters, AppendReplyEvent(e) \/ EmitStep(e)
  PROVE  TypeOK'
<1> USE DEF TypeOK
<1>1. emitter[e] \in EmitterState
  OBVIOUS
<1>2. CASE AppendReplyEvent(e)
  <2> DEFINE x == [at |-> "stored", event |-> <<epoch, count + 1>>, to |-> {}]
  <2>1. x \in EmitterState
    BY DEF EmitterState, Event
  <2> HIDE DEF x
  <2>2. emitter' \in [Emitters -> EmitterState]
    BY <1>2, <2>1 DEF AppendReplyEvent, x
  <2>3. emitted' \in 0..MaxEvents /\ count' \in Nat
    BY <1>2, ReplayAssumption DEF AppendReplyEvent
  <2> QED BY <1>2, <2>2, <2>3 DEF AppendReplyEvent
<1>3. ASSUME NEW to \in SUBSET Clients, Address(e, to)
      PROVE  emitter' \in [Emitters -> EmitterState]
  <2> DEFINE x == [at |-> IF to = {} THEN "idle" ELSE "sending",
                   event |-> emitter[e].event, to |-> to]
  <2>1. x \in EmitterState
    BY <1>1 DEF EmitterState
  <2> HIDE DEF x
  <2> QED BY <1>3, <2>1 DEF Address, x
<1>4. CASE GetSessionClientIDs(e)
  <2>1. emitter' \in [Emitters -> EmitterState]
    BY <1>3, <1>4 DEF GetSessionClientIDs
  <2> QED BY <1>4, <2>1 DEF GetSessionClientIDs
<1>5. ASSUME NEW c \in Clients, SendEvent(e, c)
      PROVE  TypeOK'
  <2>1. emitter[e].to \ {c} \in SUBSET Clients
    BY <1>1 DEF EmitterState
  <2>2. emitter' \in [Emitters -> EmitterState]
    BY <1>3, <1>5, <2>1 DEF SendEvent
  <2>3. Append(tail[c], emitter[e].event) \in Seq(Event)
    BY <1>1 DEF EmitterState
  <2>4. tail' \in [Clients -> Seq(Event)]
    BY <1>5, <2>3 DEF SendEvent
  <2> QED BY <1>5, <2>2, <2>4 DEF SendEvent
<1> QED BY <1>2, <1>4, <1>5 DEF EmitStep

(* A step of one session.ready handler.                                    *)
LEMMA TypeReady ==
  ASSUME TypeOK, NEW r \in Readies, BindSessionClient(r) \/ ReadyStep(r)
  PROVE  TypeOK'
<1> USE DEF TypeOK
<1> DEFINE c == ReadyClient[r]
<1>1. ready[r] \in ReadyState /\ c \in Clients /\ replay[c] \in ReplayState
  BY ReplayAssumption
<1>2. CASE BindSessionClient(r)
  <2> DEFINE x == [ready[r] EXCEPT !.at = "bound"]
  <2>1. x \in ReadyState /\ ready' = [ready EXCEPT ![r] = x]
    BY <1>1, <1>2 DEF BindSessionClient, ReadyState
  <2> HIDE DEF x
  <2>2. ready' \in [Readies -> ReadyState]
    BY <2>1
  <2> QED BY <1>1, <1>2, <2>2 DEF BindSessionClient
<1>3. CASE EnterReplay(r)
  <2> DEFINE x == [ready[r] EXCEPT !.at = "collect"]
  <2>1. x \in ReadyState /\ ready' = [ready EXCEPT ![r] = x]
    BY <1>1, <1>3 DEF EnterReplay, ReadyState
  <2> HIDE DEF x
  <2>2. ready' \in [Readies -> ReadyState]
    BY <2>1
  <2>3. replay' \in [Clients -> ReplayState]
    BY <1>1, <1>3 DEF EnterReplay, ReplayState
  <2> QED BY <1>3, <2>2, <2>3 DEF EnterReplay
<1>4. CASE CollectNothing(r)
  <2> DEFINE x == [ready[r] EXCEPT !.at = "send", !.live = TRUE, !.batch = <<>>]
             y == IF replay[c].status = "none" THEN replay[c]
                  ELSE [replay[c] EXCEPT !.status = "live"]
  <2>0. <<>> \in Seq(Event)
    OBVIOUS
  <2>1. x \in ReadyState /\ ready' = [ready EXCEPT ![r] = x]
    <3>1. x \in ReadyState
      BY <1>1, <2>0 DEF ReadyState
    <3> QED BY <3>1, <1>4 DEF CollectNothing
  <2>2. y \in ReplayState /\ replay' = [replay EXCEPT ![c] = y]
    BY <1>1, <1>4 DEF CollectNothing, ReplayState
  <2> HIDE DEF x, y
  <2>3. ready' \in [Readies -> ReadyState] /\ replay' \in [Clients -> ReplayState]
    BY <1>1, <2>1, <2>2
  <2> QED BY <1>4, <2>3 DEF CollectNothing
<1>5. CASE CollectBatch(r)
  <2> DEFINE b == Slice(replay[c].last + 1, count)
             x == [ready[r] EXCEPT !.at = "send", !.batch = b]
             y == [replay[c] EXCEPT !.last = count]
  <2>1. b \in Seq(Event)
    BY <1>1, SliceType DEF ReplayState
  <2> HIDE DEF b
  <2>2. x \in ReadyState /\ ready' = [ready EXCEPT ![r] = x]
    BY <1>1, <1>5, <2>1 DEF CollectBatch, ReadyState, b
  <2>3. y \in ReplayState /\ replay' = [replay EXCEPT ![c] = y]
    BY <1>1, <1>5 DEF CollectBatch, ReplayState
  <2> HIDE DEF x, y
  <2>4. ready' \in [Readies -> ReadyState] /\ replay' \in [Clients -> ReplayState]
    BY <1>1, <2>2, <2>3
  <2> QED BY <1>5, <2>4 DEF CollectBatch
<1>6. CASE SendReplayStep(r)
  <2> DEFINE x == [ready[r] EXCEPT !.at = IF ready[r].live THEN "over" ELSE "collect",
                                   !.first = FALSE]
             t == (IF ready[r].first THEN <<>> ELSE tail[c]) \o ready[r].batch
  <2>1. x \in ReadyState /\ ready' = [ready EXCEPT ![r] = x]
    BY <1>1, <1>6 DEF SendReplayStep, ReadyState
  <2>2. t \in Seq(Event) /\ tail' = [tail EXCEPT ![c] = t]
    BY <1>1, <1>6 DEF SendReplayStep, ReadyState
  <2> HIDE DEF x, t
  <2>3. ready' \in [Readies -> ReadyState] /\ tail' \in [Clients -> Seq(Event)]
    BY <1>1, <2>1, <2>2
  <2> QED BY <1>6, <2>3 DEF SendReplayStep
<1> QED BY <1>2, <1>3, <1>4, <1>5, <1>6 DEF ReadyStep

LEMMA TypeStep == TypeOK /\ [Next]_vars => TypeOK'
<1> SUFFICES ASSUME TypeOK, [Next]_vars PROVE TypeOK'
  OBVIOUS
<1> USE DEF TypeOK
<1>1. NoReplays \in [Clients -> ReplayState]
  BY DEF NoReplays, NoReplay, ReplayState
<1>2. CASE EditQueue
  BY <1>1, <1>2, ReplayAssumption DEF EditQueue
<1>3. CASE BroadcastSessionDone
  <2>1. tail' \in [Clients -> Seq(Event)]
    BY <1>3 DEF BroadcastSessionDone
  <2> QED BY <1>3, <2>1 DEF BroadcastSessionDone
<1>4. CASE ClearSessionPending
  BY <1>1, <1>4 DEF ClearSessionPending
<1>5. CASE StartTurn
  BY <1>1, <1>5, ReplayAssumption DEF StartTurn
<1>6. CASE UNCHANGED vars
  BY <1>6 DEF vars
<1> QED BY <1>2, <1>3, <1>4, <1>5, <1>6, TypeEmitter, TypeReady DEF Next

(* Every reachable state is well-typed, whatever the bounds.               *)
THEOREM ReplayTypeCorrect == Spec => []TypeOK
  BY TypeInit, TypeStep, PTL DEF Spec

-----------------------------------------------------------------------------
(* A goroutine that has not collected its last step is not marked live.    *)
EarlyInv == \A r \in Readies : ready[r].at \in {"new", "bound", "collect"} => ~ready[r].live

RunnerInv == TypeOK /\ EarlyInv /\ ReplayHasRunner

LEMMA RunnerKept ==
  ASSUME RunnerInv, UNCHANGED ready, replay' \in {replay, NoReplays}
  PROVE  EarlyInv' /\ ReplayHasRunner'
  BY DEF RunnerInv, EarlyInv, ReplayHasRunner, NoReplays, NoReplay

LEMMA RunnerStep ==
  ASSUME RunnerInv, NEW r \in Readies, BindSessionClient(r) \/ ReadyStep(r)
  PROVE  EarlyInv' /\ ReplayHasRunner'
<1> DEFINE c == ReadyClient[r]
<1>1. /\ c \in Clients
      /\ ready \in [Readies -> ReadyState] /\ ready[r] \in ReadyState
      /\ replay \in [Clients -> ReplayState] /\ replay[c] \in ReplayState
  BY ReplayAssumption DEF RunnerInv, TypeOK
<1>2. CASE BindSessionClient(r)
  BY <1>1, <1>2 DEF BindSessionClient, RunnerInv, EarlyInv, ReplayHasRunner
<1>3. CASE EnterReplay(r)
  BY <1>1, <1>3 DEF EnterReplay, RunnerInv, EarlyInv, ReplayHasRunner
<1>4. CASE CollectNothing(r)
  <2>1. replay'[c] = IF replay[c].status = "none" THEN replay[c]
                     ELSE [replay[c] EXCEPT !.status = "live"]
    BY <1>1, <1>4 DEF CollectNothing
  <2>2. replay'[c].status # "replay"
        /\ \A d \in Clients : d # c => replay'[d] = replay[d]
    BY <1>1, <1>4, <2>1 DEF CollectNothing, ReplayState
  <2>3. ready'[r] = [ready[r] EXCEPT !.at = "send", !.live = TRUE, !.batch = <<>>]
    BY <1>1, <1>4 DEF CollectNothing
  <2>4. ready'[r].at = "send" /\ \A s \in Readies : s # r => ready'[s] = ready[s]
    BY <1>1, <1>4, <2>3 DEF CollectNothing, ReadyState
  <2> QED BY <2>2, <2>4 DEF RunnerInv, EarlyInv, ReplayHasRunner
<1>5. CASE CollectBatch(r)
  <2>1. replay'[c] = [replay[c] EXCEPT !.last = count]
        /\ \A d \in Clients : d # c => replay'[d] = replay[d]
    BY <1>1, <1>5 DEF CollectBatch
  <2>2. \A d \in Clients : replay'[d].status = replay[d].status
    BY <1>1, <2>1 DEF ReplayState
  <2>3. ready[r].at = "collect" /\ \E b : ready'[r] = [ready[r] EXCEPT !.at = "send", !.batch = b]
    BY <1>1, <1>5 DEF CollectBatch
  <2>4. /\ ready'[r].at = "send" /\ ready'[r].live = ready[r].live
        /\ \A s \in Readies : s # r => ready'[s] = ready[s]
    BY <1>1, <1>5, <2>3 DEF CollectBatch, ReadyState
  <2>5. ~ready'[r].live
    BY <2>3, <2>4 DEF RunnerInv, EarlyInv
  <2>6. EarlyInv'
    BY <2>4 DEF RunnerInv, EarlyInv
  <2>7. ASSUME NEW d \in Clients, replay'[d].status = "replay"
        PROVE  \E s \in Readies : ReadyClient[s] = d /\ ready'[s].at \in {"collect", "send"}
                                  /\ ~ready'[s].live
    <3>1. PICK s \in Readies : ReadyClient[s] = d /\ ready[s].at \in {"collect", "send"}
                               /\ ~ready[s].live
      BY <2>2, <2>7 DEF RunnerInv, ReplayHasRunner
    <3>2. CASE s = r
      BY <2>4, <2>5, <3>1, <3>2
    <3>3. CASE s # r
      BY <2>4, <3>1, <3>3
    <3> QED BY <3>2, <3>3
  <2> QED BY <2>6, <2>7 DEF ReplayHasRunner
<1>6. CASE SendReplayStep(r)
  <2>1. /\ replay' = replay /\ ready[r].at = "send"
        /\ ready'[r].live = ready[r].live
        /\ ready'[r].at = IF ready[r].live THEN "over" ELSE "collect"
        /\ \A s \in Readies : s # r => ready'[s] = ready[s]
    BY <1>1, <1>6 DEF SendReplayStep
  <2> QED BY <2>1 DEF RunnerInv, EarlyInv, ReplayHasRunner
<1> QED BY <1>2, <1>3, <1>4, <1>5, <1>6 DEF ReadyStep

LEMMA RunnerInductive == RunnerInv /\ [Next]_vars => RunnerInv'
<1> SUFFICES ASSUME RunnerInv, [Next]_vars PROVE RunnerInv'
  OBVIOUS
<1>1. TypeOK'
  BY TypeStep DEF RunnerInv
<1>2. ASSUME NEW e \in Emitters, AppendReplyEvent(e) \/ EmitStep(e)
      PROVE  UNCHANGED <<ready, replay>>
  BY <1>2 DEF AppendReplyEvent, EmitStep, GetSessionClientIDs, SendEvent
<1>3. ASSUME EditQueue \/ BroadcastSessionDone \/ ClearSessionPending
             \/ StartTurn \/ UNCHANGED vars
      PROVE  UNCHANGED ready /\ replay' \in {replay, NoReplays}
  BY <1>3 DEF EditQueue, BroadcastSessionDone, ClearSessionPending, StartTurn, vars
<1>4. EarlyInv' /\ ReplayHasRunner'
  BY <1>2, <1>3, RunnerKept, RunnerStep DEF Next
<1> QED BY <1>1, <1>4 DEF RunnerInv

(* No interleaving of replays, queue edits and turns leaves a client       *)
(* skipped by the live broadcasts with nobody left to make it live.        *)
THEOREM RunnerCorrect == Spec => []ReplayHasRunner
<1>1. Init => RunnerInv
  BY TypeInit DEF Init, RunnerInv, EarlyInv, ReplayHasRunner, NoReplays, NoReplay
<1>2. RunnerInv => ReplayHasRunner
  BY DEF RunnerInv
<1> QED BY <1>1, <1>2, RunnerInductive, PTL DEF Spec

-----------------------------------------------------------------------------
(* NoEventLost.  A client is watched while the first turn runs and nothing *)
(* has disturbed its replay; CaughtInv says at each place of its replay    *)
(* which events it has been shown, which are in the batch to be sent, and  *)
(* which are on their way from an emitter.                                 *)
Watched(c) == phase = "running" /\ Undisturbed(c)

Elements(s) == {s[i] : i \in 1..Len(s)}

(* Event i is stored and its recipients are not read yet, or c is one.     *)
ToCome(c, i) ==
  \E e \in Emitters : /\ emitter[e].event = <<epoch, i>>
                      /\ emitter[e].at = "stored" \/ c \in emitter[e].to

Up(c) == \A i \in 1..count : <<epoch, i>> \in Shown(c) \/ ToCome(c, i)

(* The place of one replay r of client c.                                  *)
Place(c, r) ==
  /\ ready[r].at # "new" => c \in bound
  /\ ready[r].at \in {"new", "bound"} => ready[r].first /\ ~ready[r].live
  /\ ready[r].at = "bound" => replay[c] = NoReplay
  /\ ready[r].at = "collect" =>
       /\ replay[c].status = "replay" /\ ~ready[r].live
       /\ ready[r].first => replay[c].last = 0
       /\ \A i \in 1..replay[c].last : <<epoch, i>> \in Shown(c)
  /\ ready[r].at = "send" /\ ~ready[r].live =>
       /\ replay[c].status = "replay"
       /\ \A i \in 1..replay[c].last :
            \/ ~ready[r].first /\ <<epoch, i>> \in Shown(c)
            \/ <<epoch, i>> \in Elements(ready[r].batch)
  /\ ready[r].at = "send" /\ ready[r].live =>
       ~ready[r].first /\ ready[r].batch = <<>>
  /\ ready[r].at = "over" \/ (ready[r].at = "send" /\ ready[r].live) =>
       replay[c].status = "live" /\ Up(c)

NotYet(c) == \A r \in Readies : ReadyClient[r] = c => ready[r].at = "new"

Caught(c) ==
  /\ replay[c].last <= count
  /\ NotYet(c) => c \notin bound /\ replay[c] = NoReplay
  /\ \A r \in Readies : ReadyClient[r] = c => Place(c, r)

(* An emitter that has no event in hand has nobody to send it to.          *)
EmittersInv == \A e \in Emitters : emitter[e].at \in {"idle", "stored"} => emitter[e].to = {}

CaughtInv ==
  /\ TypeOK /\ EmittersInv
  /\ count = 0 => turns # 1 \/ phase # "running"
  /\ \A c \in Clients : Watched(c) => Caught(c)

LEMMA ElementsAppend ==
  ASSUME NEW S, NEW s \in Seq(S), NEW x \in S
  PROVE  Elements(Append(s, x)) = Elements(s) \cup {x}
<1>1. /\ Len(s) \in Nat /\ Len(Append(s, x)) = Len(s) + 1
      /\ \A i \in 1..Len(s) : Append(s, x)[i] = s[i]
      /\ Append(s, x)[Len(s) + 1] = x
  OBVIOUS
<1> DEFINE t == Append(s, x)
<1>2. Len(t) = Len(s) + 1 /\ (\A i \in 1..Len(s) : t[i] = s[i]) /\ t[Len(s) + 1] = x
  BY <1>1
<1> HIDE DEF t
<1>3. Elements(t) = Elements(s) \cup {x}
  <2>1. ASSUME NEW i \in 1..Len(t) PROVE t[i] \in Elements(s) \cup {x}
    <3>1. CASE i = Len(s) + 1
      BY <1>2, <3>1
    <3>2. CASE i \in 1..Len(s)
      BY <1>2, <3>2 DEF Elements
    <3> QED BY <1>1, <1>2, <3>1, <3>2
  <2>2. ASSUME NEW i \in 1..Len(s) PROVE s[i] \in Elements(t)
    <3>1. i \in 1..Len(t) /\ t[i] = s[i]
      BY <1>1, <1>2
    <3> QED BY <3>1, Zenon DEF Elements
  <2>3. x \in Elements(t)
    <3>1. Len(s) + 1 \in 1..Len(t)
      BY <1>1, <1>2
    <3> QED BY <1>2, <3>1, Zenon DEF Elements
  <2> QED BY <2>1, <2>2, <2>3, Zenon DEF Elements
<1> QED BY <1>3 DEF t

LEMMA ElementsConcat ==
  ASSUME NEW S, NEW s \in Seq(S), NEW u \in Seq(S)
  PROVE  Elements(s \o u) = Elements(s) \cup Elements(u)
<1> DEFINE t == s \o u
<1>1. /\ Len(s) \in Nat /\ Len(u) \in Nat /\ Len(t) = Len(s) + Len(u)
      /\ \A i \in 1..Len(t) : t[i] = IF i <= Len(s) THEN s[i] ELSE u[i - Len(s)]
  BY ConcatProperties
<1> HIDE DEF t
<1>2. ASSUME NEW i \in 1..Len(t) PROVE t[i] \in Elements(s) \cup Elements(u)
  <2>1. CASE i <= Len(s)
    <3>1. i \in 1..Len(s) /\ t[i] = s[i]
      BY <1>1, <2>1
    <3> QED BY <3>1, Zenon DEF Elements
  <2>2. CASE ~(i <= Len(s))
    <3>1. i - Len(s) \in 1..Len(u) /\ t[i] = u[i - Len(s)]
      BY <1>1, <2>2
    <3> QED BY <3>1, Zenon DEF Elements
  <2> QED BY <2>1, <2>2
<1>3. ASSUME NEW i \in 1..Len(s) PROVE s[i] \in Elements(t)
  <2>1. i \in 1..Len(t) /\ t[i] = s[i]
    BY <1>1
  <2> QED BY <2>1, Zenon DEF Elements
<1>4. ASSUME NEW i \in 1..Len(u) PROVE u[i] \in Elements(t)
  <2>1. Len(s) + i \in 1..Len(t) /\ t[Len(s) + i] = u[i]
    BY <1>1
  <2> QED BY <2>1, Zenon DEF Elements
<1>5. Elements(t) = Elements(s) \cup Elements(u)
  BY <1>2, <1>3, <1>4, Zenon DEF Elements
<1> QED BY <1>5 DEF t

LEMMA SliceElements ==
  ASSUME epoch \in Nat, NEW a \in Nat, NEW n \in Nat, a <= n
  PROVE  /\ Len(Slice(a + 1, n)) = n - a
         /\ \A k \in 1..(n - a) : Slice(a + 1, n)[k] = <<epoch, a + k>>
         /\ \A i \in (a + 1)..n : <<epoch, i>> \in Elements(Slice(a + 1, n))
<1> DEFINE b == Slice(a + 1, n)
<1>1. b = [k \in 1..(n - a) |-> <<epoch, a + k>>]
  <2>1. (IF n < a + 1 THEN 0 ELSE n + 1 - (a + 1)) = n - a
    OBVIOUS
  <2>2. \A k \in 1..(n - a) : (a + 1) + k - 1 = a + k
    OBVIOUS
  <2> QED BY <2>1, <2>2 DEF Slice
<1>2. n - a \in Nat
  OBVIOUS
<1>3. b \in Seq(Event)
  BY SliceType
<1> HIDE DEF b
<1>4. Len(b) = n - a /\ \A k \in 1..(n - a) : b[k] = <<epoch, a + k>>
  BY <1>1, <1>2, <1>3, LenProperties
<1>5. ASSUME NEW i \in (a + 1)..n PROVE <<epoch, i>> \in Elements(b)
  <2>1. i - a \in 1..Len(b) /\ b[i - a] = <<epoch, i>>
    BY <1>4
  <2> QED BY <2>1, Zenon DEF Elements
<1> QED BY <1>4, <1>5 DEF b

-----------------------------------------------------------------------------
(* What the steps of a replay do, field by field.                          *)
Others(r) == \A s \in Readies : s # r => ready'[s] = ready[s]
OtherClients(c) == \A d \in Clients : d # c => /\ replay'[d] = replay[d]
                                              /\ tail'[d] = tail[d]

LEMMA ReadyTypes ==
  ASSUME TypeOK, NEW r \in Readies
  PROVE  /\ ReadyClient[r] \in Clients /\ ready \in [Readies -> ReadyState]
         /\ ready[r].at \in {"new", "bound", "collect", "send", "over"}
         /\ ready[r].first \in BOOLEAN /\ ready[r].live \in BOOLEAN
         /\ ready[r].batch \in Seq(Event)
         /\ replay[ReadyClient[r]].status \in {"none", "replay", "live"}
         /\ replay[ReadyClient[r]].last \in Nat /\ count \in Nat /\ epoch \in Nat
         /\ tail[ReadyClient[r]] \in Seq(Event)
<1>1. ReadyClient[r] \in Clients /\ ready[r] \in ReadyState
      /\ replay[ReadyClient[r]] \in ReplayState
  BY ReplayAssumption DEF TypeOK
<1> QED BY <1>1 DEF TypeOK, ReadyState, ReplayState

LEMMA BindDoes ==
  ASSUME TypeOK, NEW r \in Readies, BindSessionClient(r)
  PROVE  /\ ready[r].at = "new" /\ ready'[r].at = "bound"
         /\ ready'[r].first = ready[r].first /\ ready'[r].live = ready[r].live
         /\ Others(r) /\ OtherClients(ReadyClient[r])
         /\ bound' = bound \cup {ReadyClient[r]}
         /\ UNCHANGED <<epoch, count, phase, turns, replay, emitter, queueOps, tail>>
  BY DEF TypeOK, ReadyState, BindSessionClient, Others, OtherClients

LEMMA EnterDoes ==
  ASSUME TypeOK, NEW r \in Readies, EnterReplay(r)
  PROVE  /\ ready[r].at = "bound" /\ ready'[r].at = "collect"
         /\ ready'[r].first = ready[r].first /\ ready'[r].live = ready[r].live
         /\ Others(r) /\ OtherClients(ReadyClient[r])
         /\ replay'[ReadyClient[r]] = [status |-> "replay", last |-> 0]
         /\ UNCHANGED <<epoch, count, phase, turns, bound, emitter, queueOps, tail>>
  BY ReplayAssumption DEF TypeOK, ReadyState, EnterReplay, Others, OtherClients

LEMMA NothingDoes ==
  ASSUME TypeOK, NEW r \in Readies, CollectNothing(r)
  PROVE  /\ ready[r].at = "collect" /\ ready'[r].at = "send"
         /\ NothingNew(ReadyClient[r])
         /\ ready'[r].first = ready[r].first /\ ready'[r].live
         /\ ready'[r].batch = <<>>
         /\ Others(r) /\ OtherClients(ReadyClient[r])
         /\ replay[ReadyClient[r]].status # "none" =>
              replay'[ReadyClient[r]].status = "live"
         /\ replay'[ReadyClient[r]].last = replay[ReadyClient[r]].last
         /\ UNCHANGED <<epoch, count, phase, turns, bound, emitter, queueOps, tail>>
<1> DEFINE c == ReadyClient[r]
<1>1. c \in Clients /\ ready[r] \in ReadyState /\ replay[c] \in ReplayState
  BY ReplayAssumption DEF TypeOK
<1>2. /\ replay' = [replay EXCEPT ![c] = IF @.status = "none" THEN @
                                         ELSE [@ EXCEPT !.status = "live"]]
      /\ ready' = [ready EXCEPT ![r] =
                     [@ EXCEPT !.at = "send", !.live = TRUE, !.batch = <<>>]]
      /\ replay \in [Clients -> ReplayState] /\ ready \in [Readies -> ReadyState]
  BY DEF CollectNothing, TypeOK
<1>3. /\ replay'[c] = IF replay[c].status = "none" THEN replay[c]
                      ELSE [replay[c] EXCEPT !.status = "live"]
      /\ \A d \in Clients : d # c => replay'[d] = replay[d]
  BY <1>1, <1>2
<1>4. /\ ready'[r] = [ready[r] EXCEPT !.at = "send", !.live = TRUE, !.batch = <<>>]
      /\ Others(r)
  BY <1>2 DEF Others
<1>5. /\ ready'[r].at = "send" /\ ready'[r].first = ready[r].first
      /\ ready'[r].live /\ ready'[r].batch = <<>>
  BY <1>1, <1>4 DEF ReadyState
<1>6. /\ replay[c].status # "none" => replay'[c].status = "live"
      /\ replay'[c].last = replay[c].last
  BY <1>1, <1>3 DEF ReplayState
<1> QED BY <1>3, <1>4, <1>5, <1>6 DEF CollectNothing, OtherClients

LEMMA BatchDoes ==
  ASSUME TypeOK, NEW r \in Readies, CollectBatch(r)
  PROVE  /\ ready[r].at = "collect" /\ ready'[r].at = "send"
         /\ ~NothingNew(ReadyClient[r])
         /\ ready'[r].first = ready[r].first /\ ready'[r].live = ready[r].live
         /\ ready'[r].batch = Slice(replay[ReadyClient[r]].last + 1, count)
         /\ Others(r) /\ OtherClients(ReadyClient[r])
         /\ replay'[ReadyClient[r]].status = replay[ReadyClient[r]].status
         /\ replay'[ReadyClient[r]].last = count
         /\ UNCHANGED <<epoch, count, phase, turns, bound, emitter, queueOps, tail>>
<1> DEFINE c == ReadyClient[r]
           b == Slice(replay[c].last + 1, count)
<1>1. c \in Clients /\ ready[r] \in ReadyState /\ replay[c] \in ReplayState
  BY ReplayAssumption DEF TypeOK
<1> HIDE DEF b
<1>2. /\ replay' = [replay EXCEPT ![c] = [@ EXCEPT !.last = count]]
      /\ ready' = [ready EXCEPT ![r] = [@ EXCEPT !.at = "send", !.batch = b]]
      /\ replay \in [Clients -> ReplayState] /\ ready \in [Readies -> ReadyState]
  BY DEF CollectBatch, TypeOK, b
<1>3. /\ replay'[c] = [replay[c] EXCEPT !.last = count]
      /\ \A d \in Clients : d # c => replay'[d] = replay[d]
  BY <1>1, <1>2
<1>4. /\ ready'[r] = [ready[r] EXCEPT !.at = "send", !.batch = b]
      /\ Others(r)
  BY <1>2 DEF Others
<1>5. /\ ready'[r].at = "send" /\ ready'[r].first = ready[r].first
      /\ ready'[r].live = ready[r].live /\ ready'[r].batch = b
  BY <1>1, <1>4 DEF ReadyState
<1>6. replay'[c].status = replay[c].status /\ replay'[c].last = count
  BY <1>1, <1>3 DEF ReplayState
<1> QED BY <1>3, <1>4, <1>5, <1>6 DEF CollectBatch, OtherClients, b

LEMMA SendDoes ==
  ASSUME TypeOK, NEW r \in Readies, SendReplayStep(r)
  PROVE  /\ ready[r].at = "send"
         /\ ready'[r].at = IF ready[r].live THEN "over" ELSE "collect"
         /\ ~ready'[r].first /\ ready'[r].live = ready[r].live
         /\ tail'[ReadyClient[r]] =
              (IF ready[r].first THEN <<>> ELSE tail[ReadyClient[r]]) \o ready[r].batch
         /\ Others(r) /\ OtherClients(ReadyClient[r])
         /\ UNCHANGED <<epoch, count, phase, turns, bound, replay, emitter, queueOps>>
<1> DEFINE c == ReadyClient[r]
           t == (IF ready[r].first THEN <<>> ELSE tail[c]) \o ready[r].batch
<1>1. c \in Clients /\ ready[r] \in ReadyState
  BY ReplayAssumption DEF TypeOK
<1>2. tail' = [tail EXCEPT ![c] = t] /\ tail \in [Clients -> Seq(Event)]
  BY DEF SendReplayStep, TypeOK
<1> HIDE DEF t
<1>3. tail'[c] = t /\ \A d \in Clients : d # c => tail'[d] = tail[d]
  BY <1>1, <1>2
<1>4. /\ ready'[r].at = IF ready[r].live THEN "over" ELSE "collect"
      /\ ~ready'[r].first /\ ready'[r].live = ready[r].live /\ Others(r)
  BY <1>1 DEF SendReplayStep, TypeOK, ReadyState, Others
<1> QED BY <1>3, <1>4 DEF SendReplayStep, OtherClients, t

-----------------------------------------------------------------------------
(* Who is watched after a step was watched before it, and the step is one  *)
(* of an emitter or of a replay.                                           *)
LEMMA ReadyMoves ==
  ASSUME TypeOK, NEW r \in Readies, BindSessionClient(r) \/ ReadyStep(r)
  PROVE  /\ Others(r) /\ OtherClients(ReadyClient[r])
         /\ ready'[r].at # "new"
         /\ bound' \in {bound, bound \cup {ReadyClient[r]}}
         /\ UNCHANGED <<epoch, count, phase, turns, emitter, queueOps>>
<1>1. CASE BindSessionClient(r)
  BY <1>1, BindDoes
<1>2. CASE EnterReplay(r)
  BY <1>2, EnterDoes
<1>3. CASE CollectNothing(r)
  BY <1>3, NothingDoes
<1>4. CASE CollectBatch(r)
  BY <1>4, BatchDoes
<1>5. CASE SendReplayStep(r)
  BY <1>5, SendDoes
<1> QED BY <1>1, <1>2, <1>3, <1>4, <1>5 DEF ReadyStep

LEMMA WatchedReady ==
  ASSUME TypeOK, NEW c \in Clients, Watched(c)',
         NEW r \in Readies, BindSessionClient(r) \/ ReadyStep(r)
  PROVE  /\ Watched(c)
         /\ ReadyClient[r] = c =>
              \A s \in Readies : ReadyClient[s] = c /\ s # r => ready[s].at = "new"
<1>1. /\ Others(r) /\ ready'[r].at # "new"
      /\ UNCHANGED <<phase, turns, queueOps>>
  BY ReadyMoves
<1>2. \A s \in Readies : ready'[s].at = "new" => ready[s].at = "new"
  BY <1>1 DEF Others
<1>3. Undisturbed(c)
  BY <1>1, <1>2 DEF Watched, Undisturbed
<1>4. ASSUME ReadyClient[r] = c, NEW s \in Readies, ReadyClient[s] = c, s # r
      PROVE  ready[s].at = "new"
  BY <1>1, <1>2, <1>4 DEF Watched, Undisturbed
<1> QED BY <1>1, <1>3, <1>4 DEF Watched

LEMMA EmitterMoves ==
  ASSUME NEW e \in Emitters, AppendReplyEvent(e) \/ EmitStep(e)
  PROVE  UNCHANGED <<epoch, phase, turns, bound, replay, ready, queueOps>>
  BY DEF AppendReplyEvent, EmitStep, GetSessionClientIDs, SendEvent

LEMMA WatchedEmitter ==
  ASSUME NEW c \in Clients, Watched(c)',
         NEW e \in Emitters, AppendReplyEvent(e) \/ EmitStep(e)
  PROVE  Watched(c)
  BY EmitterMoves DEF Watched, Undisturbed

LEMMA UnwatchedStep ==
  ASSUME TypeOK, EditQueue \/ BroadcastSessionDone \/ ClearSessionPending \/ StartTurn,
         NEW c \in Clients
  PROVE  ~Watched(c)'
<1>1. CASE EditQueue
  BY <1>1 DEF EditQueue, Watched, Undisturbed, TypeOK
<1>2. CASE BroadcastSessionDone
  BY <1>2 DEF BroadcastSessionDone, Watched
<1>3. CASE ClearSessionPending
  BY <1>3 DEF ClearSessionPending, Watched
<1>4. CASE StartTurn
  BY <1>4 DEF StartTurn, Watched, Undisturbed, TypeOK
<1> QED BY <1>1, <1>2, <1>3, <1>4

-----------------------------------------------------------------------------
(* Steps of replays.                                                       *)
LEMMA PlaceSame ==
  ASSUME NEW c \in Clients, NEW s \in Readies, Place(c, s),
         ready'[s] = ready[s], replay'[c] = replay[c], tail'[c] = tail[c],
         c \in bound => c \in bound', UNCHANGED <<epoch, count, emitter>>
  PROVE  Place(c, s)'
<1>1. Shown(c)' = Shown(c) /\ (Up(c) => Up(c)')
  BY DEF Shown, Up, ToCome
<1> QED BY <1>1 DEF Place, NoReplay

LEMMA PlaceNew ==
  ASSUME NEW c \in Clients, NEW s \in Readies, Place(c, s),
         ready'[s] = ready[s], ready[s].at = "new"
  PROVE  Place(c, s)'
  BY DEF Place

LEMMA CaughtOther ==
  ASSUME CaughtInv, NEW c \in Clients, Caught(c),
         NEW r \in Readies, BindSessionClient(r) \/ ReadyStep(r), ReadyClient[r] # c
  PROVE  Caught(c)'
<1>1. TypeOK
  BY DEF CaughtInv
<1>2. /\ Others(r) /\ OtherClients(ReadyClient[r])
      /\ c \in bound <=> c \in bound'
      /\ UNCHANGED <<epoch, count, emitter>>
  BY <1>1, ReadyMoves
<1>3. replay'[c] = replay[c] /\ tail'[c] = tail[c]
  BY <1>2 DEF OtherClients
<1>4. \A s \in Readies : ReadyClient[s] = c => ready'[s] = ready[s]
  BY <1>2 DEF Others
<1>5. ASSUME NEW s \in Readies, ReadyClient[s] = c PROVE Place(c, s)'
  <2>1. Place(c, s)
    BY <1>5 DEF Caught
  <2> QED BY <1>2, <1>3, <1>4, <1>5, <2>1, PlaceSame
<1> QED BY <1>2, <1>3, <1>4, <1>5 DEF Caught, NotYet, NoReplay

LEMMA UpKept ==
  ASSUME NEW c \in Clients, UNCHANGED <<epoch, count, emitter>>, Up(c),
         Shown(c) \subseteq Shown(c)'
  PROVE  Up(c)'
  BY DEF Up, ToCome

LEMMA CaughtOwn ==
  ASSUME CaughtInv, NEW r \in Readies, BindSessionClient(r) \/ ReadyStep(r),
         Watched(ReadyClient[r])'
  PROVE  Caught(ReadyClient[r])'
<1> DEFINE c == ReadyClient[r]
<1>1. TypeOK /\ c \in Clients
  BY ReplayAssumption DEF CaughtInv
<1>2. Watched(c) /\ \A s \in Readies : ReadyClient[s] = c /\ s # r => ready[s].at = "new"
  BY <1>1, WatchedReady
<1>3. /\ replay[c].last <= count
      /\ NotYet(c) => replay[c] = NoReplay
      /\ \A s \in Readies : ReadyClient[s] = c => Place(c, s)
      /\ count # 0
  BY <1>1, <1>2 DEF CaughtInv, Caught, Watched, Undisturbed
<1>4. /\ ready[r].first \in BOOLEAN /\ ready[r].live \in BOOLEAN
      /\ ready[r].batch \in Seq(Event) /\ tail[c] \in Seq(Event)
      /\ replay[c].last \in Nat /\ count \in Nat /\ epoch \in Nat
  BY <1>1, ReadyTypes
<1>5. /\ Others(r) /\ ready'[r].at # "new" /\ UNCHANGED <<epoch, count, emitter>>
  BY <1>1, ReadyMoves
<1>6. ASSUME NEW s \in Readies, ReadyClient[s] = c, s # r PROVE Place(c, s)'
  BY <1>1, <1>2, <1>3, <1>5, <1>6, PlaceNew DEF Others
<1>7. Place(c, r)
  BY <1>3
<1>8. Place(c, r)' /\ replay'[c].last <= count
  <2>1. CASE BindSessionClient(r)
    <3>1. /\ ready[r].at = "new" /\ ready'[r].at = "bound" /\ c \in bound'
          /\ ready'[r].first = ready[r].first /\ ready'[r].live = ready[r].live
          /\ UNCHANGED replay
      BY <1>1, <2>1, BindDoes
    <3>2. NotYet(c)
      BY <1>2, <3>1 DEF NotYet
    <3> QED BY <1>3, <1>7, <3>1, <3>2 DEF Place, NoReplay
  <2>2. CASE EnterReplay(r)
    <3>1. /\ ready[r].at = "bound" /\ ready'[r].at = "collect" /\ UNCHANGED bound
          /\ ready'[r].first = ready[r].first /\ ready'[r].live = ready[r].live
          /\ replay'[c].status = "replay" /\ replay'[c].last = 0
      BY <1>1, <2>2, EnterDoes
    <3> QED BY <1>4, <1>7, <3>1 DEF Place
  <2>3. CASE CollectNothing(r)
    <3>1. /\ ready[r].at = "collect" /\ ready'[r].at = "send" /\ NothingNew(c)
          /\ ready'[r].first = ready[r].first /\ ready'[r].live
          /\ ready'[r].batch = <<>>
          /\ replay[c].status # "none" => replay'[c].status = "live"
          /\ replay'[c].last = replay[c].last /\ UNCHANGED <<bound, tail>>
      BY <1>1, <2>3, NothingDoes
    <3>2. replay[c].status = "replay" /\ replay[c].last = count /\ ~ready[r].first
      BY <1>3, <1>4, <1>7, <3>1 DEF Place, NothingNew
    <3>3. Up(c)'
      <4>1. \A i \in 1..count : <<epoch, i>> \in Shown(c)
        BY <1>7, <3>1, <3>2 DEF Place
      <4> QED BY <1>5, <3>1, <4>1 DEF Up, Shown
    <3> QED BY <1>3, <1>7, <3>1, <3>2, <3>3 DEF Place
  <2>4. CASE CollectBatch(r)
    <3>1. /\ ready[r].at = "collect" /\ ready'[r].at = "send"
          /\ ready'[r].first = ready[r].first /\ ready'[r].live = ready[r].live
          /\ ready'[r].batch = Slice(replay[c].last + 1, count)
          /\ replay'[c].status = replay[c].status /\ replay'[c].last = count
          /\ UNCHANGED <<bound, tail>>
      BY <1>1, <2>4, BatchDoes
    <3>2. /\ replay[c].status = "replay" /\ ~ready[r].live
          /\ ready[r].first => replay[c].last = 0
          /\ \A i \in 1..replay[c].last : <<epoch, i>> \in Shown(c)
      BY <1>7, <3>1 DEF Place
    <3>3. \A i \in (replay[c].last + 1)..count : <<epoch, i>> \in Elements(ready'[r].batch)
      BY <1>3, <1>4, <3>1, SliceElements
    <3>4. ASSUME NEW i \in 1..count
          PROVE  \/ ~ready'[r].first /\ <<epoch, i>> \in Shown(c)'
                 \/ <<epoch, i>> \in Elements(ready'[r].batch)
      <4>1. Shown(c)' = Shown(c)
        BY <3>1 DEF Shown
      <4>2. CASE i <= replay[c].last
        <5>1. i \in 1..replay[c].last /\ ~ready[r].first
          BY <1>4, <3>2, <4>2
        <5> QED BY <3>1, <3>2, <4>1, <5>1
      <4>3. CASE i > replay[c].last
        BY <1>4, <3>3, <4>3
      <4> QED BY <1>4, <4>2, <4>3
    <3>5. \A i \in 1..replay'[c].last :
            \/ ~ready'[r].first /\ <<epoch', i>> \in Shown(c)'
            \/ <<epoch', i>> \in Elements(ready'[r].batch)
      BY <1>5, <3>1, <3>4
    <3>6. Elements(ready[r].batch)' = Elements(ready'[r].batch)
      BY DEF Elements
    <3>7. c \in bound'
      BY <1>7, <3>1 DEF Place
    <3> QED BY <1>4, <3>1, <3>2, <3>5, <3>6, <3>7 DEF Place
  <2>5. CASE SendReplayStep(r)
    <3>1. /\ ready[r].at = "send"
          /\ ready'[r].at = IF ready[r].live THEN "over" ELSE "collect"
          /\ ~ready'[r].first /\ ready'[r].live = ready[r].live
          /\ tail'[c] = (IF ready[r].first THEN <<>> ELSE tail[c]) \o ready[r].batch
          /\ UNCHANGED <<bound, replay>>
      BY <1>1, <2>5, SendDoes
    <3>2. /\ Elements(ready[r].batch) \subseteq Shown(c)'
          /\ ~ready[r].first => Shown(c) \subseteq Shown(c)'
      <4> DEFINE t == IF ready[r].first THEN <<>> ELSE tail[c]
      <4>1. t \in Seq(Event)
        BY <1>4
      <4>2. ~ready[r].first => t = tail[c]
        OBVIOUS
      <4>3. tail'[c] = t \o ready[r].batch
        BY <3>1
      <4> HIDE DEF t
      <4>4. Elements(tail'[c]) = Elements(t) \cup Elements(ready[r].batch)
        BY <1>4, <4>1, <4>3, ElementsConcat
      <4>5. Shown(c)' = Elements(tail'[c]) /\ Shown(c) = Elements(tail[c])
        BY DEF Shown, Elements
      <4> QED BY <4>2, <4>4, <4>5
    <3>3. CASE ready[r].live
      <4>1. Up(c) /\ ~ready[r].first /\ replay[c].status = "live" /\ c \in bound
        BY <1>7, <3>1, <3>3 DEF Place
      <4>2. Up(c)'
        BY <1>1, <1>5, <3>2, <4>1, UpKept
      <4> QED BY <1>3, <3>1, <3>3, <4>1, <4>2 DEF Place
    <3>4. CASE ~ready[r].live
      <4>1. /\ replay[c].status = "replay" /\ c \in bound
            /\ \A i \in 1..replay[c].last :
                 \/ ~ready[r].first /\ <<epoch, i>> \in Shown(c)
                 \/ <<epoch, i>> \in Elements(ready[r].batch)
        BY <1>7, <3>1, <3>4 DEF Place
      <4>2. \A i \in 1..replay[c].last : <<epoch, i>> \in Shown(c)'
        BY <3>2, <4>1
      <4>3. \A i \in 1..replay'[c].last : <<epoch', i>> \in Shown(c)'
        BY <1>5, <3>1, <4>2
      <4> QED BY <1>3, <3>1, <3>4, <4>1, <4>3 DEF Place
    <3> QED BY <1>4, <3>3, <3>4
  <2> QED BY <2>1, <2>2, <2>3, <2>4, <2>5 DEF ReadyStep
<1>9. \A s \in Readies : ReadyClient[s] = c => Place(c, s)'
  BY <1>6, <1>8
<1>10. ~NotYet(c)'
  BY <1>5 DEF NotYet
<1> QED BY <1>5, <1>8, <1>9, <1>10 DEF Caught

-----------------------------------------------------------------------------
(* Steps of emitters.                                                      *)
LEMMA EmitterTypes ==
  ASSUME TypeOK, NEW e \in Emitters
  PROVE  /\ emitter[e].at \in {"idle", "stored", "sending"}
         /\ emitter[e].event \in Event /\ emitter[e].to \subseteq Clients
  BY DEF TypeOK, EmitterState

LEMMA AppendDoes ==
  ASSUME TypeOK, NEW e \in Emitters, AppendReplyEvent(e)
  PROVE  /\ emitter[e].at = "idle" /\ count' = count + 1
         /\ emitter'[e].at = "stored" /\ emitter'[e].to = {}
         /\ emitter'[e].event = <<epoch, count + 1>>
         /\ \A f \in Emitters : f # e => emitter'[f] = emitter[f]
         /\ UNCHANGED <<epoch, replay, ready, bound, tail>>
  BY DEF AppendReplyEvent, TypeOK

LEMMA AddressDoes ==
  ASSUME TypeOK, NEW e \in Emitters, NEW to, Address(e, to)
  PROVE  /\ emitter'[e].at = IF to = {} THEN "idle" ELSE "sending"
         /\ emitter'[e].to = to /\ emitter'[e].event = emitter[e].event
         /\ \A f \in Emitters : f # e => emitter'[f] = emitter[f]
  BY DEF Address, TypeOK

LEMMA EmitterHands ==
  ASSUME TypeOK, EmittersInv, NEW e \in Emitters, AppendReplyEvent(e) \/ EmitStep(e)
  PROVE  EmittersInv'
<1>1. CASE AppendReplyEvent(e)
  BY <1>1, AppendDoes DEF EmittersInv
<1>2. ASSUME NEW to, Address(e, to) PROVE EmittersInv'
  <2>1. /\ emitter'[e].at = IF to = {} THEN "idle" ELSE "sending"
        /\ emitter'[e].to = to
        /\ \A f \in Emitters : f # e => emitter'[f] = emitter[f]
    BY <1>2, AddressDoes
  <2> QED BY <2>1 DEF EmittersInv
<1>3. CASE EmitStep(e)
  BY <1>2, <1>3 DEF EmitStep, GetSessionClientIDs, SendEvent
<1> QED BY <1>1, <1>3

LEMMA PlaceEmitted ==
  ASSUME NEW c \in Clients, NEW s \in Readies, Place(c, s),
         UNCHANGED <<epoch, ready, replay, bound>>,
         Shown(c) \subseteq Shown(c)', Up(c) /\ s \in Readies /\ c \in bound /\
           replay[c].status = "live" => Up(c)'
  PROVE  Place(c, s)'
<1>1. Elements(ready[s].batch)' = Elements(ready[s].batch)
  BY DEF Elements
<1> QED BY <1>1 DEF Place, NoReplay

LEMMA CaughtEmitter ==
  ASSUME CaughtInv, NEW e \in Emitters, AppendReplyEvent(e) \/ EmitStep(e)
  PROVE  \A c \in Clients : Caught(c) => Caught(c)'
<1>1. TypeOK /\ count \in Nat /\ EmittersInv
  BY DEF CaughtInv, TypeOK
<1>2. UNCHANGED <<epoch, bound, replay, ready>>
  BY EmitterMoves
<1>3. ASSUME NEW c \in Clients, Caught(c), count' \in {count, count + 1},
             Shown(c) \subseteq Shown(c)',
             Up(c) /\ c \in bound /\ replay[c].status = "live" => Up(c)'
      PROVE  Caught(c)'
  <2>1. \A s \in Readies : ReadyClient[s] = c => Place(c, s)'
    BY <1>2, <1>3, PlaceEmitted DEF Caught
  <2>2. replay[c].last \in Nat
    BY <1>1, <1>3 DEF TypeOK, ReplayState
  <2> QED BY <1>1, <1>2, <1>3, <2>1, <2>2 DEF Caught, NotYet, NoReplay
<1>4. CASE AppendReplyEvent(e)
  <2>1. /\ emitter[e].at = "idle" /\ count' = count + 1
        /\ emitter'[e].at = "stored" /\ emitter'[e].to = {}
        /\ emitter'[e].event = <<epoch, count + 1>>
        /\ \A f \in Emitters : f # e => emitter'[f] = emitter[f]
        /\ UNCHANGED tail
    BY <1>1, <1>4, AppendDoes
  <2>3. ASSUME NEW c \in Clients, Up(c) PROVE Up(c)'
    <3>1. emitter[e].to = {}
      BY <1>1, <2>1 DEF EmittersInv
    <3>2. \A i : ToCome(c, i) => ToCome(c, i)'
      BY <1>2, <2>1, <3>1 DEF ToCome
    <3>3. \A i : i = count + 1 => ToCome(c, i)'
      BY <1>2, <2>1 DEF ToCome
    <3>4. Shown(c)' = Shown(c)
      BY <2>1 DEF Shown
    <3>5. ASSUME NEW i \in 1..(count + 1)
          PROVE  <<epoch', i>> \in Shown(c)' \/ ToCome(c, i)'
      <4>1. CASE i = count + 1
        BY <3>3, <4>1
      <4>2. CASE i \in 1..count
        BY <1>2, <2>3, <3>2, <3>4, <4>2 DEF Up
      <4> QED BY <1>1, <4>1, <4>2
    <3> QED BY <2>1, <3>5 DEF Up
  <2>4. \A c \in Clients : Shown(c)' = Shown(c)
    BY <2>1 DEF Shown
  <2> QED BY <1>3, <2>1, <2>3, <2>4
<1>5. CASE GetSessionClientIDs(e)
  <2> DEFINE to == {c \in Clients : IsLive(c)}
  <2>1. /\ emitter[e].at = "stored" /\ count' = count /\ UNCHANGED tail
        /\ Address(e, to)
    BY <1>5 DEF GetSessionClientIDs
  <2>2. \A c \in Clients : c \in to <=> (c \in bound /\ replay[c].status # "replay")
    BY DEF IsLive
  <2> HIDE DEF to
  <2>3. /\ emitter'[e].at = IF to = {} THEN "idle" ELSE "sending"
        /\ emitter'[e].to = to /\ emitter'[e].event = emitter[e].event
        /\ \A f \in Emitters : f # e => emitter'[f] = emitter[f]
    BY <1>1, <2>1, AddressDoes
  <2>5. ASSUME NEW c \in Clients, Up(c), c \in bound, replay[c].status = "live"
        PROVE  Up(c)'
    <3>1. \A i : ToCome(c, i) => ToCome(c, i)'
      BY <1>2, <2>2, <2>3, <2>5 DEF ToCome
    <3> QED BY <1>2, <2>1, <2>5, <3>1 DEF Up, Shown
  <2>6. \A c \in Clients : Shown(c)' = Shown(c)
    BY <2>1 DEF Shown
  <2> QED BY <1>3, <2>1, <2>5, <2>6
<1>6. ASSUME NEW d \in Clients, SendEvent(e, d)
      PROVE  \A c \in Clients : Caught(c) => Caught(c)'
  <2>1. /\ emitter[e].at = "sending" /\ d \in emitter[e].to /\ count' = count
        /\ tail' = [tail EXCEPT ![d] = Append(@, emitter[e].event)]
        /\ Address(e, emitter[e].to \ {d})
    BY <1>6 DEF SendEvent
  <2>2. /\ emitter'[e].at = IF emitter[e].to \ {d} = {} THEN "idle" ELSE "sending"
        /\ emitter'[e].to = emitter[e].to \ {d} /\ emitter'[e].event = emitter[e].event
        /\ \A f \in Emitters : f # e => emitter'[f] = emitter[f]
    BY <1>1, <2>1, AddressDoes
  <2>4. /\ tail[d] \in Seq(Event) /\ emitter[e].event \in Event
        /\ tail'[d] = Append(tail[d], emitter[e].event)
        /\ \A c \in Clients : c # d => tail'[c] = tail[c]
    BY <1>1, <2>1, EmitterTypes DEF TypeOK
  <2>5. Shown(d)' = Shown(d) \cup {emitter[e].event}
    <3>1. Elements(tail'[d]) = Elements(tail[d]) \cup {emitter[e].event}
      BY <2>4, ElementsAppend
    <3> QED BY <3>1 DEF Shown, Elements
  <2>6. \A c \in Clients : c # d => Shown(c)' = Shown(c)
    BY <2>4 DEF Shown
  <2>7. ASSUME NEW c \in Clients, Up(c) PROVE Up(c)'
    <3>1. ASSUME NEW i \in 1..count
          PROVE  <<epoch', i>> \in Shown(c)' \/ ToCome(c, i)'
      <4>1. CASE <<epoch, i>> \in Shown(c)
        BY <1>2, <2>5, <2>6, <4>1
      <4>2. CASE ToCome(c, i)
        <5>1. PICK f \in Emitters : /\ emitter[f].event = <<epoch, i>>
                                    /\ emitter[f].at = "stored" \/ c \in emitter[f].to
          BY <4>2 DEF ToCome
        <5>2. CASE f # e
          BY <1>2, <2>2, <5>1, <5>2 DEF ToCome
        <5>3. CASE f = e /\ c # d
          <6>1. c \in emitter'[e].to
            BY <2>1, <2>2, <5>1, <5>3
          <6> QED BY <1>2, <2>2, <5>1, <5>3, <6>1 DEF ToCome
        <5>4. CASE f = e /\ c = d
          BY <1>2, <2>5, <5>1, <5>4
        <5> QED BY <5>2, <5>3, <5>4
      <4> QED BY <2>7, <4>1, <4>2 DEF Up
    <3> QED BY <2>1, <3>1 DEF Up
  <2> QED BY <1>3, <2>1, <2>5, <2>6, <2>7
<1> QED BY <1>4, <1>5, <1>6 DEF EmitStep

LEMMA CaughtInit == InitialEvents # 0 /\ Init => CaughtInv
<1> SUFFICES ASSUME InitialEvents # 0, Init PROVE CaughtInv
  OBVIOUS
<1>1. ASSUME NEW c \in Clients PROVE Caught(c)
  <2>1. /\ replay[c] = NoReplay /\ count \in Nat /\ bound = {}
        /\ \A r \in Readies : /\ ready[r].at = "new" /\ ready[r].first
                              /\ ~ready[r].live
    BY ReplayAssumption DEF Init, NoReplays
  <2> QED BY <2>1 DEF Caught, Place, NoReplay
<1>2. EmittersInv /\ count # 0
  BY DEF Init, EmittersInv
<1> QED BY <1>1, <1>2, TypeInit DEF CaughtInv

LEMMA CaughtInductive == CaughtInv /\ [Next]_vars => CaughtInv'
<1> SUFFICES ASSUME CaughtInv, [Next]_vars PROVE CaughtInv'
  OBVIOUS
<1>1. TypeOK /\ TypeOK'
  BY TypeStep DEF CaughtInv
<1>2. ASSUME NEW e \in Emitters, AppendReplyEvent(e) \/ EmitStep(e) PROVE CaughtInv'
  <2>1. count' # 0 \/ count' = count
    <3>1. count \in Nat /\ count' \in {count, count + 1}
      BY <1>1, <1>2 DEF AppendReplyEvent, EmitStep, GetSessionClientIDs, SendEvent, TypeOK
    <3> QED BY <3>1
  <2> QED BY <1>1, <1>2, <2>1, CaughtEmitter, EmitterHands, EmitterMoves, WatchedEmitter
        DEF CaughtInv
<1>3. ASSUME NEW r \in Readies, BindSessionClient(r) \/ ReadyStep(r) PROVE CaughtInv'
  <2>1. UNCHANGED <<count, turns, phase, emitter>>
    BY <1>1, <1>3, ReadyMoves
  <2>2. ASSUME NEW c \in Clients, Watched(c)' PROVE Caught(c)'
    <3>1. Caught(c)
      BY <1>1, <1>3, <2>2, WatchedReady DEF CaughtInv
    <3> QED BY <1>3, <2>2, <3>1, CaughtOwn, CaughtOther
  <2> QED BY <1>1, <2>1, <2>2 DEF CaughtInv, EmittersInv
<1>4. CASE EditQueue \/ BroadcastSessionDone \/ ClearSessionPending \/ StartTurn
  <2>1. EmittersInv'
    BY <1>4 DEF CaughtInv, EmittersInv, EditQueue, BroadcastSessionDone,
                ClearSessionPending, StartTurn
  <2>2. count' = 0 => turns' # 1 \/ phase' # "running"
    BY <1>1, <1>4 DEF CaughtInv, EditQueue, BroadcastSessionDone, ClearSessionPending,
                      StartTurn, TypeOK
  <2> QED BY <1>1, <1>4, <2>1, <2>2, UnwatchedStep DEF CaughtInv
<1>5. CASE UNCHANGED vars
  <2>1. EmittersInv' /\ (count' = 0 => turns' # 1 \/ phase' # "running")
    BY <1>5 DEF CaughtInv, EmittersInv, vars
  <2>2. ASSUME NEW c \in Clients, Watched(c)' PROVE Caught(c)'
    <3>1. Watched(c)
      BY <1>5, <2>2 DEF Watched, Undisturbed, vars
    <3>2. Caught(c)
      BY <3>1 DEF CaughtInv
    <3>3. \A s \in Readies : ReadyClient[s] = c => Place(c, s)'
      BY <1>5, <3>2, PlaceSame DEF Caught, vars
    <3> QED BY <1>5, <3>2, <3>3 DEF Caught, NotYet, NoReplay, vars
  <2> QED BY <1>1, <2>1, <2>2 DEF CaughtInv
<1> QED BY <1>2, <1>3, <1>4, <1>5 DEF Next

LEMMA CaughtSettled == CaughtInv => NoEventLost
<1> SUFFICES ASSUME CaughtInv, NEW c \in Clients, phase = "running", Settled(c),
                    Undisturbed(c)
             PROVE  HasAll(c)
  BY DEF NoEventLost
<1>1. Caught(c)
  BY DEF CaughtInv, Watched
<1>2. PICK r \in Readies : ReadyClient[r] = c /\ ready[r].at = "over"
  BY <1>1 DEF Caught, NotYet, Settled
<1>3. Up(c)
  BY <1>1, <1>2 DEF Caught, Place
<1>4. \A i : ~ToCome(c, i)
  BY DEF ToCome, Settled
<1> QED BY <1>3, <1>4 DEF Up, HasAll

(* A client that opens a session in mid-turn, with events already in the   *)
(* buffer, misses none: however collecting, sending and the broadcasts of  *)
(* any number of emitters interleave, a settled client shows every event   *)
(* of the turn (ReplayPending against BroadcastSessionStream).  With an    *)
(* empty buffer the statement is false: the first frame, which resets the  *)
(* client, then comes after it was made live.                              *)
THEOREM NoEventLostCorrect ==
  ASSUME InitialEvents # 0
  PROVE  Spec => []NoEventLost
<1>1. Init => CaughtInv
  BY CaughtInit
<1> QED BY <1>1, CaughtInductive, CaughtSettled, PTL DEF Spec

-----------------------------------------------------------------------------
(* TailInOrder, for one emitter: what it has in hand is the newest event,  *)
(* so a client's tail ends at or before it; a batch begins after what the  *)
(* client shows, and no event is on its way to a client that is between a  *)
(* later batch and its sending.                                            *)
OneEmitter == \A e, f \in Emitters : e = f

Ascending(s) == \A i, k \in 1..Len(s) : i < k => s[i][2] <= s[k][2]
UpTo(s, n) == \A i \in 1..Len(s) : s[i][1] = 1 /\ s[i][2] <= n
Before(s, t) == \A i \in 1..Len(s), k \in 1..Len(t) : s[i][2] <= t[k][2]

Addressed(c) == \E e \in Emitters : c \in emitter[e].to

InStep(c, r) ==
  /\ ready[r].at \in {"new", "bound"} => ready[r].first
  /\ ready[r].at = "send" /\ ready[r].live => ready[r].batch = <<>>
  /\ ready[r].at = "collect" => replay[c].status = "replay"
  /\ ready[r].at = "collect" /\ ~ready[r].first =>
       /\ UpTo(tail[c], replay[c].last)
       /\ Addressed(c) => replay[c].last = count
  /\ ready[r].at = "send" /\ ~ready[r].live =>
       /\ replay[c].status = "replay"
       /\ Ascending(ready[r].batch) /\ UpTo(ready[r].batch, replay[c].last)
       /\ ready[r].first => (Addressed(c) => replay[c].last = count)
       /\ ~ready[r].first => /\ Before(tail[c], ready[r].batch)
                             /\ UpTo(tail[c], replay[c].last) /\ ~Addressed(c)

Ordered(c) ==
  /\ replay[c].last <= count
  /\ Ascending(tail[c]) /\ UpTo(tail[c], count)
  /\ \A r \in Readies : ReadyClient[r] = c => InStep(c, r)

FirstTurn == turns = 1 /\ phase = "running"

OrderInv ==
  /\ TypeOK /\ EarlyInv /\ EmittersInv
  /\ FirstTurn => /\ epoch = 1
                  /\ \A e \in Emitters : emitter[e].at # "idle" =>
                                           emitter[e].event = <<1, count>>
  /\ \A c \in Clients : Watched(c) => Ordered(c)

LEMMA AscendingAppend ==
  ASSUME NEW s \in Seq(Event), NEW n \in Nat, NEW x \in Event,
         Ascending(s), UpTo(s, n), x = <<1, n>>
  PROVE  Ascending(Append(s, x)) /\ UpTo(Append(s, x), n)
<1> DEFINE t == Append(s, x)
<1>1. /\ Len(s) \in Nat /\ Len(t) = Len(s) + 1
      /\ \A i \in 1..Len(s) : t[i] = s[i]
      /\ t[Len(s) + 1] = x
  OBVIOUS
<1> HIDE DEF t
<1>2. ASSUME NEW i \in 1..Len(t) PROVE i \in 1..Len(s) \/ i = Len(s) + 1
  BY <1>1
<1>3. ASSUME NEW i \in 1..Len(t) PROVE t[i][1] = 1 /\ t[i][2] <= n
  BY <1>1, <1>2 DEF UpTo
<1>4. ASSUME NEW i \in 1..Len(t), NEW k \in 1..Len(t), i < k PROVE t[i][2] <= t[k][2]
  <2>1. i \in 1..Len(s)
    BY <1>1, <1>4
  <2>2. CASE k \in 1..Len(s)
    BY <1>1, <1>4, <2>1, <2>2 DEF Ascending
  <2>3. CASE k = Len(s) + 1
    BY <1>1, <1>3, <2>3
  <2> QED BY <1>2, <2>2, <2>3
<1>5. Ascending(t) /\ UpTo(t, n)
  BY <1>3, <1>4 DEF Ascending, UpTo
<1> QED BY <1>5 DEF t

LEMMA AscendingConcat ==
  ASSUME NEW s \in Seq(Event), NEW u \in Seq(Event), NEW n \in Nat,
         Ascending(s), UpTo(s, n), Ascending(u), UpTo(u, n), Before(s, u)
  PROVE  Ascending(s \o u) /\ UpTo(s \o u, n)
<1> DEFINE t == s \o u
<1>1. /\ Len(s) \in Nat /\ Len(u) \in Nat /\ Len(t) = Len(s) + Len(u)
      /\ \A i \in 1..Len(t) : t[i] = IF i <= Len(s) THEN s[i] ELSE u[i - Len(s)]
  BY ConcatProperties
<1> HIDE DEF t
<1>2. ASSUME NEW i \in 1..Len(t)
      PROVE  \/ i \in 1..Len(s) /\ t[i] = s[i]
             \/ i - Len(s) \in 1..Len(u) /\ t[i] = u[i - Len(s)] /\ ~(i <= Len(s))
  BY <1>1
<1>3. ASSUME NEW i \in 1..Len(t) PROVE t[i][1] = 1 /\ t[i][2] <= n
  BY <1>2 DEF UpTo
<1>4. ASSUME NEW i \in 1..Len(t), NEW k \in 1..Len(t), i < k PROVE t[i][2] <= t[k][2]
  <2>1. CASE k \in 1..Len(s) /\ t[k] = s[k]
    <3>1. i \in 1..Len(s) /\ t[i] = s[i]
      BY <1>1, <1>4, <2>1
    <3> QED BY <1>4, <2>1, <3>1 DEF Ascending
  <2>2. CASE k - Len(s) \in 1..Len(u) /\ t[k] = u[k - Len(s)]
    <3>1. CASE i \in 1..Len(s) /\ t[i] = s[i]
      BY <2>2, <3>1 DEF Before
    <3>2. CASE i - Len(s) \in 1..Len(u) /\ t[i] = u[i - Len(s)]
      <4>1. i - Len(s) < k - Len(s)
        BY <1>1, <1>4
      <4> QED BY <2>2, <3>2, <4>1 DEF Ascending
    <3> QED BY <1>2, <3>1, <3>2
  <2> QED BY <1>2, <2>1, <2>2
<1>5. Ascending(t) /\ UpTo(t, n)
  BY <1>3, <1>4 DEF Ascending, UpTo
<1> QED BY <1>5 DEF t

LEMMA AscendingEmpty ==
  ASSUME NEW n
  PROVE  /\ Ascending(<<>>) /\ UpTo(<<>>, n)
         /\ \A s : Before(<<>>, s) /\ Before(s, <<>>)
  BY DEF Ascending, UpTo, Before

LEMMA UpToMore ==
  ASSUME NEW s \in Seq(Event), NEW m \in Nat, NEW n \in Nat, m <= n, UpTo(s, m)
  PROVE  UpTo(s, n)
<1>1. \A i \in 1..Len(s) : s[i] \in Event
  OBVIOUS
<1>2. \A i \in 1..Len(s) : s[i][2] \in Nat
  BY <1>1 DEF Event
<1> QED BY <1>2 DEF UpTo

LEMMA SliceAscending ==
  ASSUME epoch = 1, NEW a \in Nat, NEW n \in Nat, a <= n
  PROVE  /\ Ascending(Slice(a + 1, n)) /\ UpTo(Slice(a + 1, n), n)
         /\ \A s \in Seq(Event) : UpTo(s, a) => Before(s, Slice(a + 1, n))
<1> DEFINE b == Slice(a + 1, n)
<1>1. Len(b) = n - a /\ \A k \in 1..(n - a) : b[k] = <<1, a + k>>
  BY SliceElements
<1> HIDE DEF b
<1>2. Ascending(b) /\ UpTo(b, n)
  BY <1>1 DEF Ascending, UpTo
<1>3. ASSUME NEW s \in Seq(Event), UpTo(s, a), NEW i \in 1..Len(s), NEW k \in 1..Len(b)
      PROVE  s[i][2] <= b[k][2]
  <2>1. s[i] \in Event
    BY <1>3
  <2>2. s[i][2] \in Nat /\ s[i][2] <= a
    BY <1>3, <2>1 DEF Event, UpTo
  <2>3. k \in Nat /\ b[k][2] = a + k
    BY <1>1
  <2> QED BY <2>2, <2>3
<1>4. \A s \in Seq(Event) : UpTo(s, a) => Before(s, b)
  BY <1>3 DEF Before
<1> QED BY <1>2, <1>4 DEF b

-----------------------------------------------------------------------------
LEMMA InStepNew ==
  ASSUME NEW c \in Clients, NEW s \in Readies, InStep(c, s),
         ready'[s] = ready[s], ready[s].at = "new"
  PROVE  InStep(c, s)'
  BY DEF InStep

LEMMA InStepSame ==
  ASSUME NEW c \in Clients, NEW s \in Readies, InStep(c, s),
         ready'[s] = ready[s], replay'[c] = replay[c], tail'[c] = tail[c],
         UNCHANGED <<epoch, count, emitter>>
  PROVE  InStep(c, s)'
<1>1. Addressed(c)' <=> Addressed(c)
  BY DEF Addressed
<1> QED BY <1>1 DEF InStep, Ascending, UpTo, Before

LEMMA OrderedOther ==
  ASSUME OrderInv, NEW c \in Clients, Ordered(c),
         NEW r \in Readies, BindSessionClient(r) \/ ReadyStep(r), ReadyClient[r] # c
  PROVE  Ordered(c)'
<1>1. TypeOK
  BY DEF OrderInv
<1>2. /\ Others(r) /\ OtherClients(ReadyClient[r])
      /\ UNCHANGED <<epoch, count, emitter>>
  BY <1>1, ReadyMoves
<1>3. replay'[c] = replay[c] /\ tail'[c] = tail[c]
  BY <1>2 DEF OtherClients
<1>4. ASSUME NEW s \in Readies, ReadyClient[s] = c PROVE InStep(c, s)'
  <2>1. ready'[s] = ready[s] /\ InStep(c, s)
    BY <1>2, <1>4 DEF Others, Ordered
  <2> QED BY <1>2, <1>3, <2>1, InStepSame
<1> QED BY <1>2, <1>3, <1>4 DEF Ordered, Ascending, UpTo

LEMMA OrderedOwn ==
  ASSUME OrderInv, NEW r \in Readies, BindSessionClient(r) \/ ReadyStep(r),
         Watched(ReadyClient[r])'
  PROVE  Ordered(ReadyClient[r])'
<1> DEFINE c == ReadyClient[r]
<1>1. TypeOK /\ EarlyInv /\ c \in Clients
  BY ReplayAssumption DEF OrderInv
<1>2. Watched(c) /\ \A s \in Readies : ReadyClient[s] = c /\ s # r => ready[s].at = "new"
  BY <1>1, WatchedReady
<1>3. Ordered(c) /\ epoch = 1
  BY <1>1, <1>2 DEF OrderInv, FirstTurn, Watched, Undisturbed
<1>4. /\ ready[r].first \in BOOLEAN /\ ready[r].live \in BOOLEAN
      /\ ready[r].batch \in Seq(Event) /\ tail[c] \in Seq(Event)
      /\ replay[c].last \in Nat /\ count \in Nat /\ epoch \in Nat
  BY <1>1, ReadyTypes
<1>5. /\ Others(r) /\ UNCHANGED <<epoch, count, emitter>>
  BY <1>1, ReadyMoves
<1>6. ASSUME NEW s \in Readies, ReadyClient[s] = c, s # r PROVE InStep(c, s)'
  BY <1>1, <1>2, <1>3, <1>5, <1>6, InStepNew DEF Others, Ordered
<1>7. InStep(c, r) /\ replay[c].last <= count /\ Ascending(tail[c]) /\ UpTo(tail[c], count)
  BY <1>3 DEF Ordered
<1>8. Addressed(c)' <=> Addressed(c)
  BY <1>5 DEF Addressed
<1>9. ASSUME UNCHANGED tail
      PROVE  /\ Ascending(tail[c])' /\ UpTo(tail[c], count)'
             /\ \A n : UpTo(tail[c], n) => UpTo(tail'[c], n)
  BY <1>5, <1>7, <1>9 DEF Ascending, UpTo
<1>10. InStep(c, r)' /\ replay'[c].last <= count
        /\ Ascending(tail[c])' /\ UpTo(tail[c], count)'
  <2>1. CASE BindSessionClient(r)
    <3>1. /\ ready[r].at = "new" /\ ready'[r].at = "bound"
          /\ ready'[r].first = ready[r].first /\ UNCHANGED <<replay, tail>>
      BY <1>1, <2>1, BindDoes
    <3> QED BY <1>7, <1>9, <3>1 DEF InStep
  <2>2. CASE EnterReplay(r)
    <3>1. /\ ready[r].at = "bound" /\ ready'[r].at = "collect"
          /\ ready'[r].first = ready[r].first
          /\ replay'[c].status = "replay" /\ replay'[c].last = 0 /\ UNCHANGED tail
      BY <1>1, <2>2, EnterDoes
    <3> QED BY <1>4, <1>7, <1>9, <3>1 DEF InStep
  <2>3. CASE CollectNothing(r)
    <3>1. /\ ready'[r].at = "send" /\ ready'[r].live /\ ready'[r].batch = <<>>
          /\ replay'[c].last = replay[c].last /\ UNCHANGED tail
      BY <1>1, <2>3, NothingDoes
    <3> QED BY <1>7, <1>9, <3>1 DEF InStep
  <2>4. CASE CollectBatch(r)
    <3>1. /\ ready[r].at = "collect" /\ ready'[r].at = "send" /\ ~NothingNew(c)
          /\ ready'[r].first = ready[r].first /\ ready'[r].live = ready[r].live
          /\ ready'[r].batch = Slice(replay[c].last + 1, count)
          /\ replay'[c].status = replay[c].status /\ replay'[c].last = count
          /\ UNCHANGED tail
      BY <1>1, <2>4, BatchDoes
    <3>2. /\ replay[c].status = "replay" /\ ~ready[r].live /\ replay[c].last # count
          /\ ~ready[r].first => UpTo(tail[c], replay[c].last) /\ ~Addressed(c)
      BY <1>1, <1>4, <1>7, <3>1 DEF InStep, EarlyInv, NothingNew
    <3>3. /\ Ascending(ready'[r].batch) /\ UpTo(ready'[r].batch, count)
          /\ ~ready[r].first => Before(tail[c], ready'[r].batch)
      BY <1>3, <1>4, <1>7, <3>1, <3>2, SliceAscending
    <3>4. /\ Ascending(ready[r].batch)' /\ UpTo(ready[r].batch, replay[c].last)'
          /\ ~ready'[r].first => Before(tail[c], ready[r].batch)'
      BY <3>1, <3>3 DEF Ascending, UpTo, Before
    <3>5. UpTo(tail[c], replay[c].last)'
      BY <1>7, <1>9, <3>1 DEF UpTo
    <3>6. replay'[c].last = count'
      BY <1>5, <3>1
    <3>7. ~ready'[r].first => ~Addressed(c)'
      BY <1>8, <3>1, <3>2
    <3>8. InStep(c, r)'
      BY <3>1, <3>2, <3>4, <3>5, <3>6, <3>7 DEF InStep
    <3> QED BY <1>4, <1>9, <3>1, <3>8
  <2>5. CASE SendReplayStep(r)
    <3> DEFINE t == IF ready[r].first THEN <<>> ELSE tail[c]
    <3>1. /\ ready[r].at = "send"
          /\ ready'[r].at = IF ready[r].live THEN "over" ELSE "collect"
          /\ ~ready'[r].first /\ ready'[r].live = ready[r].live
          /\ tail'[c] = t \o ready[r].batch /\ UNCHANGED replay
      BY <1>1, <2>5, SendDoes
    <3>2. t \in Seq(Event) /\ Ascending(t) /\ UpTo(t, count)
      BY <1>4, <1>7, AscendingEmpty
    <3>3. CASE ready[r].live
      <4>1. ready[r].batch = <<>>
        BY <1>7, <3>1, <3>3 DEF InStep
      <4>2. Before(t, ready[r].batch) /\ Ascending(ready[r].batch) /\ UpTo(ready[r].batch, count)
        BY <4>1, AscendingEmpty
      <4> HIDE DEF t
      <4>3. Ascending(tail'[c]) /\ UpTo(tail'[c], count)
        BY <1>4, <3>1, <3>2, <4>2, AscendingConcat
      <4> QED BY <1>5, <1>7, <3>1, <3>3, <4>3 DEF InStep, Ascending, UpTo
    <3>4. CASE ~ready[r].live
      <4>1. /\ replay[c].status = "replay"
            /\ Ascending(ready[r].batch) /\ UpTo(ready[r].batch, replay[c].last)
            /\ Addressed(c) => replay[c].last = count
        BY <1>7, <3>1, <3>4 DEF InStep
      <4>2. Before(t, ready[r].batch) /\ UpTo(t, replay[c].last)
        BY <1>7, <3>1, <3>4, AscendingEmpty DEF InStep
      <4> HIDE DEF t
      <4>3. Ascending(tail'[c]) /\ UpTo(tail'[c], replay[c].last)
        BY <1>4, <3>1, <3>2, <4>1, <4>2, AscendingConcat
      <4>4. tail'[c] \in Seq(Event)
        BY <1>4, <3>1, <3>2
      <4>5. UpTo(tail'[c], count)
        BY <1>4, <1>7, <4>3, <4>4, UpToMore
      <4>6. InStep(c, r)'
        BY <1>5, <1>8, <3>1, <3>4, <4>1, <4>3 DEF InStep, UpTo
      <4> QED BY <1>5, <1>7, <3>1, <4>3, <4>5, <4>6 DEF Ascending, UpTo
    <3> QED BY <1>4, <3>3, <3>4
  <2> QED BY <2>1, <2>2, <2>3, <2>4, <2>5 DEF ReadyStep
<1> QED BY <1>5, <1>6, <1>10 DEF Ordered

(* An emitter moves: what a client shows of the stream stays in order when *)
(* its tail does, and when nobody new is addressed who is catching up.     *)
LEMMA OrderedEmitted ==
  ASSUME NEW c \in Clients, Ordered(c), TypeOK, count' \in {count, count + 1},
         UNCHANGED <<ready, replay>>, Ascending(tail'[c]), UpTo(tail'[c], count'),
         Addressed(c)' => \/ Addressed(c) /\ count' = count
                          \/ replay[c].status # "replay",
         tail'[c] = tail[c] \/ (Addressed(c) /\ count' = count)
  PROVE  Ordered(c)'
<1>1. replay[c].last \in Nat /\ count \in Nat
  BY DEF TypeOK, ReplayState
<1>2. replay[c].last <= count /\ \A s \in Readies : ReadyClient[s] = c => InStep(c, s)
  BY DEF Ordered
<1>3. ASSUME NEW s \in Readies, ReadyClient[s] = c PROVE InStep(c, s)'
  <2>1. /\ ready'[s] = ready[s] /\ replay'[c] = replay[c]
        /\ Ascending(ready[s].batch)' <=> Ascending(ready[s].batch)
        /\ UpTo(ready[s].batch, replay[c].last)' <=> UpTo(ready[s].batch, replay[c].last)
    BY DEF Ascending, UpTo
  <2>2. ASSUME UpTo(tail[c], replay[c].last), Addressed(c) => replay[c].last = count
        PROVE  UpTo(tail[c], replay[c].last)'
    BY <2>1, <2>2 DEF UpTo
  <2>3. ASSUME tail'[c] = tail[c] PROVE Before(tail[c], ready[s].batch)' <=> Before(tail[c], ready[s].batch)
    BY <2>1, <2>3 DEF Before
  <2>4. InStep(c, s)
    BY <1>2, <1>3
  <2>5. CASE ready[s].at = "collect"
    BY <2>1, <2>2, <2>4, <2>5 DEF InStep
  <2>6. CASE ready[s].at = "send" /\ ~ready[s].live
    <3>1. CASE ready[s].first
      BY <2>1, <2>4, <2>6, <3>1 DEF InStep
    <3>2. CASE ~ready[s].first
      <4>1. /\ ~Addressed(c) /\ UpTo(tail[c], replay[c].last)
            /\ replay[c].status = "replay" /\ Before(tail[c], ready[s].batch)
            /\ Ascending(ready[s].batch) /\ UpTo(ready[s].batch, replay[c].last)
        BY <2>4, <2>6, <3>2 DEF InStep
      <4>2. ~Addressed(c)' /\ tail'[c] = tail[c]
        BY <4>1
      <4> QED BY <2>1, <2>2, <2>3, <2>6, <3>2, <4>1, <4>2 DEF InStep
    <3> QED BY <3>1, <3>2
  <2>7. CASE ~(ready[s].at = "collect" \/ (ready[s].at = "send" /\ ~ready[s].live))
    BY <2>1, <2>4, <2>7 DEF InStep
  <2> QED BY <2>5, <2>6, <2>7
<1>4. Ascending(tail[c])' /\ UpTo(tail[c], count)'
  BY DEF Ascending, UpTo
<1> QED BY <1>1, <1>2, <1>3, <1>4 DEF Ordered

LEMMA OrderedEmitter ==
  ASSUME OrderInv, OneEmitter, FirstTurn,
         NEW e \in Emitters, AppendReplyEvent(e) \/ EmitStep(e)
  PROVE  /\ \A f \in Emitters : emitter'[f].at # "idle" => emitter'[f].event = <<1, count'>>
         /\ \A c \in Clients : Ordered(c) => Ordered(c)'
<1>1. /\ TypeOK /\ EmittersInv /\ epoch = 1 /\ count \in Nat
      /\ emitter[e].at # "idle" => emitter[e].event = <<1, count>>
  BY DEF OrderInv, TypeOK
<1>2. UNCHANGED <<replay, ready>> /\ \A f \in Emitters : f = e
  BY EmitterMoves DEF OneEmitter
<1>3. ASSUME NEW c \in Clients, Ordered(c)
      PROVE  /\ Ascending(tail[c]) /\ UpTo(tail[c], count) /\ tail[c] \in Seq(Event)
  BY <1>1, <1>3 DEF Ordered, TypeOK
<1>4. CASE AppendReplyEvent(e)
  <2>1. /\ emitter[e].at = "idle" /\ count' = count + 1
        /\ emitter'[e].at = "stored" /\ emitter'[e].to = {}
        /\ emitter'[e].event = <<epoch, count + 1>> /\ UNCHANGED tail
    BY <1>1, <1>4, AppendDoes
  <2>2. ASSUME NEW c \in Clients, Ordered(c) PROVE Ordered(c)'
    <3>1. UpTo(tail[c], count + 1)
      BY <1>1, <1>3, <2>2, UpToMore
    <3>2. Ascending(tail'[c]) /\ UpTo(tail'[c], count') /\ tail'[c] = tail[c]
      BY <1>3, <2>1, <2>2, <3>1
    <3>3. ~Addressed(c)'
      BY <1>2, <2>1 DEF Addressed
    <3> QED BY <1>1, <1>2, <2>1, <2>2, <3>2, <3>3, OrderedEmitted
  <2> QED BY <1>1, <1>2, <2>1, <2>2
<1>5. CASE GetSessionClientIDs(e)
  <2> DEFINE to == {c \in Clients : IsLive(c)}
  <2>1. /\ emitter[e].at = "stored" /\ count' = count /\ UNCHANGED tail
        /\ Address(e, to)
    BY <1>5 DEF GetSessionClientIDs
  <2>2. \A c \in Clients : c \in to => replay[c].status # "replay"
    BY DEF IsLive
  <2> HIDE DEF to
  <2>3. emitter'[e].to = to /\ emitter'[e].event = emitter[e].event
    BY <1>1, <2>1, AddressDoes
  <2>4. ASSUME NEW c \in Clients, Ordered(c) PROVE Ordered(c)'
    <3>1. Addressed(c)' => replay[c].status # "replay"
      BY <1>2, <2>2, <2>3 DEF Addressed
    <3>2. Ascending(tail'[c]) /\ UpTo(tail'[c], count') /\ tail'[c] = tail[c]
      BY <1>3, <2>1, <2>4
    <3> QED BY <1>1, <1>2, <2>1, <2>4, <3>1, <3>2, OrderedEmitted
  <2> QED BY <1>1, <1>2, <2>1, <2>3, <2>4
<1>6. ASSUME NEW d \in Clients, SendEvent(e, d)
      PROVE  /\ \A f \in Emitters : emitter'[f].at # "idle" => emitter'[f].event = <<1, count'>>
             /\ \A c \in Clients : Ordered(c) => Ordered(c)'
  <2>1. /\ emitter[e].at = "sending" /\ d \in emitter[e].to /\ count' = count
        /\ tail' = [tail EXCEPT ![d] = Append(@, emitter[e].event)]
        /\ Address(e, emitter[e].to \ {d})
    BY <1>6 DEF SendEvent
  <2>2. /\ emitter'[e].to = emitter[e].to \ {d} /\ emitter'[e].event = emitter[e].event
    BY <1>1, <2>1, AddressDoes
  <2>3. /\ emitter[e].event = <<1, count>> /\ emitter[e].event \in Event
        /\ tail'[d] = Append(tail[d], emitter[e].event)
        /\ \A c \in Clients : c # d => tail'[c] = tail[c]
    BY <1>1, <2>1, EmitterTypes DEF TypeOK
  <2>4. ASSUME NEW c \in Clients, Ordered(c) PROVE Ordered(c)'
    <3>1. Addressed(c)' => Addressed(c)
      BY <1>2, <2>2 DEF Addressed
    <3>2. c = d => Addressed(c)
      BY <2>1 DEF Addressed
    <3>3. Ascending(tail'[c]) /\ UpTo(tail'[c], count')
      <4>1. CASE c = d
        BY <1>1, <1>3, <2>1, <2>3, <2>4, <4>1, AscendingAppend
      <4>2. CASE c # d
        BY <1>3, <2>1, <2>3, <2>4, <4>2
      <4> QED BY <4>1, <4>2
    <3> QED BY <1>1, <1>2, <2>1, <2>3, <2>4, <3>1, <3>2, <3>3, OrderedEmitted
  <2> QED BY <1>1, <1>2, <2>1, <2>2, <2>3, <2>4
<1> QED BY <1>4, <1>5, <1>6 DEF EmitStep

LEMMA OrderInit == Init => OrderInv
<1> SUFFICES ASSUME Init PROVE OrderInv
  OBVIOUS
<1>1. ASSUME NEW c \in Clients PROVE Ordered(c)
  <2>1. /\ replay[c].last = 0 /\ count \in Nat /\ tail[c] = <<>>
        /\ \A r \in Readies : ready[r].at = "new" /\ ready[r].first
    BY ReplayAssumption DEF Init, NoReplays, NoReplay
  <2> QED BY <2>1, AscendingEmpty DEF Ordered, InStep
<1>2. EmittersInv /\ EarlyInv /\ epoch = 1 /\ \A e \in Emitters : emitter[e].at = "idle"
  BY DEF Init, EmittersInv, EarlyInv
<1> QED BY <1>1, <1>2, TypeInit DEF OrderInv

LEMMA EarlyStep == TypeOK /\ EarlyInv /\ [Next]_vars => EarlyInv'
<1> SUFFICES ASSUME TypeOK, EarlyInv, [Next]_vars PROVE EarlyInv'
  OBVIOUS
<1>1. ASSUME NEW r \in Readies, BindSessionClient(r) \/ ReadyStep(r) PROVE EarlyInv'
  <2>1. Others(r)
    BY <1>1, ReadyMoves
  <2>2. ready'[r].at \in {"new", "bound", "collect"} => ~ready'[r].live
    <3>1. ready[r].live \in BOOLEAN
      BY ReadyTypes
    <3>2. CASE BindSessionClient(r)
      BY <3>2, BindDoes DEF EarlyInv
    <3>3. CASE EnterReplay(r)
      BY <3>3, EnterDoes DEF EarlyInv
    <3>4. CASE CollectNothing(r)
      BY <3>4, NothingDoes
    <3>5. CASE CollectBatch(r)
      BY <3>5, BatchDoes
    <3>6. CASE SendReplayStep(r)
      BY <3>1, <3>6, SendDoes
    <3> QED BY <1>1, <3>2, <3>3, <3>4, <3>5, <3>6 DEF ReadyStep
  <2> QED BY <2>1, <2>2 DEF EarlyInv, Others
<1>2. ASSUME UNCHANGED ready PROVE EarlyInv'
  BY <1>2 DEF EarlyInv
<1>3. ASSUME NEW e \in Emitters, AppendReplyEvent(e) \/ EmitStep(e) PROVE UNCHANGED ready
  BY <1>3, EmitterMoves
<1>4. CASE EditQueue \/ BroadcastSessionDone \/ ClearSessionPending \/ StartTurn
           \/ UNCHANGED vars
  BY <1>2, <1>4 DEF EditQueue, BroadcastSessionDone, ClearSessionPending, StartTurn, vars
<1> QED BY <1>1, <1>2, <1>3, <1>4 DEF Next

LEMMA OrderInductive == OneEmitter /\ OrderInv /\ [Next]_vars => OrderInv'
<1> SUFFICES ASSUME OneEmitter, OrderInv, [Next]_vars PROVE OrderInv'
  OBVIOUS
<1>1. TypeOK /\ TypeOK' /\ EarlyInv'
  BY TypeStep, EarlyStep DEF OrderInv
<1>2. ASSUME NEW e \in Emitters, AppendReplyEvent(e) \/ EmitStep(e) PROVE OrderInv'
  <2>1. UNCHANGED <<epoch, phase, turns>> /\ EmittersInv'
    BY <1>2, EmitterMoves, EmitterHands DEF OrderInv
  <2>2. CASE FirstTurn
    BY <1>1, <1>2, <2>1, <2>2, OrderedEmitter, WatchedEmitter DEF OrderInv, FirstTurn
  <2>3. CASE ~FirstTurn
    BY <1>1, <2>1, <2>3 DEF OrderInv, FirstTurn, Watched, Undisturbed
  <2> QED BY <2>2, <2>3
<1>3. ASSUME NEW r \in Readies, BindSessionClient(r) \/ ReadyStep(r) PROVE OrderInv'
  <2>1. UNCHANGED <<epoch, count, turns, phase, emitter>>
    BY <1>1, <1>3, ReadyMoves
  <2>2. ASSUME NEW c \in Clients, Watched(c)' PROVE Ordered(c)'
    <3>1. Ordered(c)
      BY <1>1, <1>3, <2>2, WatchedReady DEF OrderInv
    <3> QED BY <1>3, <2>2, <3>1, OrderedOwn, OrderedOther
  <2> QED BY <1>1, <2>1, <2>2 DEF OrderInv, EmittersInv, FirstTurn
<1>4. CASE EditQueue
  <2>1. UNCHANGED <<epoch, count, turns, phase, emitter>>
    BY <1>4 DEF EditQueue
  <2> QED BY <1>1, <1>4, <2>1, UnwatchedStep DEF OrderInv, EmittersInv, FirstTurn
<1>5. CASE BroadcastSessionDone \/ ClearSessionPending \/ StartTurn
  <2>1. UNCHANGED emitter /\ ~FirstTurn'
    BY <1>1, <1>5 DEF BroadcastSessionDone, ClearSessionPending, StartTurn, FirstTurn, TypeOK
  <2> QED BY <1>1, <1>5, <2>1, UnwatchedStep DEF OrderInv, EmittersInv
<1>6. CASE UNCHANGED vars
  <2>1. ASSUME NEW c \in Clients, Watched(c)' PROVE Ordered(c)'
    <3>1. Ordered(c)
      BY <1>6, <2>1 DEF OrderInv, Watched, Undisturbed, vars
    <3>2. \A s \in Readies : ReadyClient[s] = c => InStep(c, s)'
      BY <1>6, <3>1, InStepSame DEF Ordered, vars
    <3> QED BY <1>6, <3>1, <3>2 DEF Ordered, Ascending, UpTo, vars
  <2> QED BY <1>1, <1>6, <2>1 DEF OrderInv, EmittersInv, FirstTurn, vars
<1> QED BY <1>2, <1>3, <1>4, <1>5, <1>6 DEF Next

LEMMA OrderedTails == OrderInv => TailInOrder
<1> SUFFICES ASSUME OrderInv, NEW c \in Clients, phase = "running", Undisturbed(c),
                    NEW i \in 1..Len(tail[c]), NEW k \in 1..Len(tail[c]), i < k
             PROVE  ~Later(tail[c][i], tail[c][k])
  BY DEF TailInOrder
<1>1. Ascending(tail[c]) /\ UpTo(tail[c], count) /\ tail[c] \in Seq(Event)
  BY DEF OrderInv, Watched, Ordered, TypeOK
<1>2. tail[c][i] \in Event /\ tail[c][k] \in Event
  BY <1>1
<1>3. tail[c][i][1] = 1 /\ tail[c][k][1] = 1 /\ tail[c][i][2] <= tail[c][k][2]
  BY <1>1 DEF Ascending, UpTo
<1> QED BY <1>2, <1>3 DEF Later, Event

(* When one goroutine at a time emits, as a turn's update handler does,    *)
(* replayed and live events never overtake each other: the tail of a       *)
(* client that nothing disturbed is in the order of the buffer, whatever   *)
(* the number of clients, requests and events.                             *)
THEOREM TailInOrderCorrect ==
  ASSUME OneEmitter
  PROVE  Spec => []TailInOrder
<1>1. OrderInv /\ [Next]_vars => OrderInv'
  BY OrderInductive
<1> QED BY <1>1, OrderInit, OrderedTails, PTL DEF Spec
=============================================================================
