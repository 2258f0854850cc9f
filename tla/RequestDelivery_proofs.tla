----------------------- MODULE RequestDelivery_proofs -----------------------
(***************************************************************************)
(* Type correctness and at-most-once execution of RequestDelivery, for any *)
(* number of requests, connections, restarts and replays.                  *)
(*                                                                         *)
(* RunsOnce alone is not inductive: nothing in it says that the goroutine  *)
(* about to run a message is the only one.  Exclusive does: the goroutines *)
(* between reservation and hand-over own their request id in the table,    *)
(* an id has one owner, and what the id has created is what its owner's    *)
(* stage says; Fresh says that a request nobody reserved, and a life of    *)
(* the server still to come, have run nothing.                             *)
(***************************************************************************)
EXTENDS RequestDelivery, TLAPS

Working(h) == h.stage # "repeat"
Here(h) == <<h.frame.req, life>>

(* The sessions h has created so far.                                      *)
Opened(h) == IF h.stage = "first" \/ h.frame.body.key # NoKey THEN 0 ELSE 1

Exclusive ==
  /\ \A h \in handlers : Working(h) =>
       /\ requests[h.frame.req].seen
       /\ turns[Here(h)] = <<>> /\ created[Here(h)] = Opened(h)
       /\ h.stage = "ready" => h.frame.body.key = NoKey
  /\ \A g, h \in handlers :
       Working(g) /\ Working(h) /\ g.frame.req = h.frame.req => g = h

Fresh ==
  \A r \in Req : \A l \in Life :
    (l > life \/ (l = life /\ ~requests[r].seen)) =>
      turns[<<r, l>>] = <<>> /\ created[<<r, l>>] = 0

Inv == TypeOK /\ Exclusive /\ Fresh /\ RunsOnce

-----------------------------------------------------------------------------
(* Every step keeps the types; that a session is deleted only by the       *)
(* goroutine that created it keeps their number natural.                   *)
LEMMA TypeStep == ASSUME TypeOK, Exclusive, [Next]_vars PROVE TypeOK'
<1> USE BoundsAssumption
<1>1. ASSUME NEW r \in Req, Submit(r) PROVE TypeOK'
  <2>1. [key |-> bound, form |-> "full"] \in Bodies
    BY <1>1 DEF Submit, Blocked, TypeOK, Bodies
  <2>2. frames' \subseteq Frames
    BY <1>1, <2>1 DEF Submit, TypeOK, Frames
  <2>3. outbox' \in [Req -> SUBSET Bodies]
    BY <1>1, <2>1 DEF Submit, TypeOK
  <2> QED
    BY <1>1, <2>2, <2>3 DEF Submit, TypeOK, server
<1>2. ASSUME NEW r \in Req, SubmitRefused(r) PROVE TypeOK'
  BY <1>2 DEF SubmitRefused, TypeOK, server
<1>3. CASE Rebind
  BY <1>3 DEF Rebind, TypeOK, server
<1>4. CASE Connect \/ Announce
  <2>1. [key |-> NoKey, form |-> "bare"] \in Bodies
    BY DEF Bodies
  <2>2. \A r \in Req : Refresh(r) \subseteq Bodies
    BY <2>1 DEF Refresh, TypeOK
  <2>3. /\ epoch' \in 0..MaxEpoch /\ open' = TRUE
        /\ UNCHANGED <<answers, server, awaiting, bound, promoted>>
    BY <1>4 DEF Connect, Announce, TypeOK
  <2>4. \A e \in 0..MaxEpoch : ReplayFrames(e) \subseteq Frames
    BY <2>1 DEF ReplayFrames, Frames, Replayed
  <2>5. frames' \subseteq Frames
    <3>1. CASE Connect
      BY <2>2, <2>3, <2>4, <3>1 DEF Connect, TypeOK, Frames
    <3>2. CASE Announce
      BY <2>4, <3>2 DEF Announce, TypeOK
    <3> QED
      BY <1>4, <3>1, <3>2
  <2>6. RecoverDrafts
    BY <1>4 DEF Connect, Announce
  <2>7. outbox' \in [Req -> SUBSET Bodies] /\ attempts' \in [Req -> 0..MaxRecovery]
    BY <2>2, <2>6 DEF RecoverDrafts, TypeOK, Replayed
  <2>8. open' \in BOOLEAN
    BY <2>3
  <2> QED
    BY <2>3, <2>5, <2>7, <2>8 DEF TypeOK, server
<1>5. CASE Drop
  BY <1>5 DEF Drop, TypeOK, client, server
<1>6. ASSUME NEW f \in frames, Receive(f) PROVE TypeOK'
  <2>1. f \in Frames
    BY DEF TypeOK
  <2>2. \A stage \in {"first", "repeat"} :
          [frame |-> f, stage |-> stage] \in Handlers
    BY <2>1 DEF Handlers, Stages
  <2>3. handlers' \subseteq Handlers
    BY <1>6, <2>2 DEF Receive, TypeOK
  <2>4. requests' \in [Req -> [seen : BOOLEAN, key : Key \cup {NoKey}]]
    <3>1. f.req \in Req /\ requests[f.req] \in [seen : BOOLEAN, key : Key \cup {NoKey}]
      BY <2>1 DEF TypeOK, Frames
    <3>2. [requests[f.req] EXCEPT !.seen = TRUE] \in [seen : BOOLEAN, key : Key \cup {NoKey}]
      BY <3>1
    <3>3. requests' = requests \/ requests' = [requests EXCEPT ![f.req].seen = TRUE]
      BY <1>6 DEF Receive
    <3> QED
      BY <3>1, <3>2, <3>3 DEF TypeOK
  <2> QED
    BY <1>6, <2>3, <2>4 DEF Receive, TypeOK, client
<1>7. ASSUME NEW h \in handlers, NEW kind \in {"accepted", "error"},
             NEW k \in Key \cup {NoKey}, Reply(h, kind, k)
      PROVE  answers' \subseteq Answers
  BY <1>7 DEF Reply, TypeOK, Answers, Handlers, Frames
<1>8. ASSUME NEW h \in handlers PROVE Here(h) \in Key /\ h.frame.req \in Req /\ h \in Handlers
  BY DEF TypeOK, Handlers, Frames, Here, Key
<1>9. ASSUME NEW h \in handlers
      PROVE  /\ Resolved(h) \in Key \cup {NoKey}
             /\ [key |-> Resolved(h), form |-> h.frame.body.form] \in Bodies
  <2>1. /\ h.frame.body.key \in Key \cup {NoKey} /\ h.frame.body.form \in {"full", "bare"}
        /\ <<h.frame.req, life>> \in Key
    BY <1>8 DEF Handlers, Frames, Bodies, Here
  <2> QED
    BY <2>1 DEF Resolved, Bodies
<1>10. ASSUME NEW h \in handlers, NEW stage \in Stages, MovesTo(h, stage)
       PROVE  handlers' \subseteq Handlers
  <2>1. [h EXCEPT !.stage = stage] \in Handlers
    BY <1>8 DEF Handlers
  <2> QED
    BY <1>10, <2>1 DEF MovesTo, TypeOK
<1>11. ASSUME NEW h \in handlers, Create(h) PROVE TypeOK'
  <2>1. created' \in [Key -> Nat]
    BY <1>8, <1>11 DEF Create, Resolved, TypeOK, Here
  <2>2. handlers' \subseteq Handlers
    BY <1>10, <1>11 DEF Create, Stages
  <2> QED
    BY <1>11, <2>1, <2>2 DEF Create, TypeOK, client
<1>16. ASSUME NEW h \in handlers, Refuse(h) PROVE TypeOK'
  <2>1. created' \in [Key -> Nat]
    <3>1. CASE created' = created
      BY <3>1 DEF TypeOK
    <3>2. CASE At(h, "ready") /\ created' = [created EXCEPT ![Resolved(h)] = @ - 1]
      <4>1. Working(h) /\ h.frame.body.key = NoKey
        BY <3>2 DEF Exclusive, At, Working
      <4>2. Resolved(h) = Here(h) /\ created[Here(h)] = 1
        BY <3>2, <4>1 DEF Exclusive, At, Opened, Resolved, Here
      <4> QED
        BY <1>8, <3>2, <4>2 DEF TypeOK
    <3> QED
      BY <1>16, <3>1, <3>2 DEF Refuse
  <2>2. answers' \subseteq Answers
    BY <1>7, <1>16 DEF Refuse
  <2> QED
    BY <1>16, <2>1, <2>2 DEF Refuse, Ends, TypeOK, client
<1>17. ASSUME NEW h \in handlers, Record(h) PROVE TypeOK'
  <2>1. requests' \in [Req -> [seen : BOOLEAN, key : Key \cup {NoKey}]]
    BY <1>8, <1>9, <1>17 DEF Record, TypeOK
  <2>2. handlers' \subseteq Handlers
    BY <1>10, <1>17 DEF Record, Stages
  <2> QED
    BY <1>17, <2>1, <2>2 DEF Record, TypeOK, client
<1>18. ASSUME NEW h \in handlers, Confirm(h) PROVE TypeOK'
  <2>1. answers' \subseteq Answers
    BY <1>7, <1>9, <1>18 DEF Confirm
  <2>2. handlers' \subseteq Handlers
    BY <1>10, <1>18 DEF Confirm, Stages
  <2> QED
    BY <1>18, <2>1, <2>2 DEF Confirm, TypeOK, client
<1>19. ASSUME NEW h \in handlers, HandOver(h) PROVE TypeOK'
  <2>1. turns' \in [Key -> Seq(Bodies)]
    BY <1>8, <1>9, <1>19 DEF HandOver, TypeOK, Here
  <2> QED
    BY <1>19, <2>1 DEF HandOver, Ends, TypeOK, client
<1>12. ASSUME NEW h \in handlers, Repeat(h) PROVE TypeOK'
  <2>1. ReplayKey(h) \in Key \cup {NoKey}
    BY <1>8 DEF ReplayKey, TypeOK, Handlers, Frames, Bodies
  <2>2. answers' \subseteq Answers
    BY <1>7, <1>12, <2>1 DEF Repeat
  <2> QED
    BY <1>12, <2>2 DEF Repeat, Ends, TypeOK, client
<1>13. CASE ServerRestart
  <2>1. requests' \in [Req -> [seen : BOOLEAN, key : Key \cup {NoKey}]]
    BY <1>13 DEF ServerRestart, Unreserved
  <2>2. life' \in Life
    BY <1>13 DEF ServerRestart, TypeOK, Life
  <2> QED
    BY <1>13, <2>1, <2>2 DEF ServerRestart, TypeOK, client
<1>14. ASSUME NEW a \in answers, Accepted(a) \/ Failed(a) PROVE TypeOK'
  <2>1. a.req \in Req /\ a.key \in Key \cup {NoKey}
    BY DEF TypeOK, Answers
  <2> QED
    BY <1>14, <2>1 DEF Accepted, Failed, TypeOK, server
<1>15. CASE UNCHANGED vars
  BY <1>15 DEF vars, client, server, TypeOK
<1> QED
  BY <1>1, <1>2, <1>3, <1>4, <1>5, <1>6, <1>11, <1>12, <1>13, <1>14,
     <1>15, <1>16, <1>17, <1>18, <1>19 DEF Next, User, Network, Server, Handle, Answer

-----------------------------------------------------------------------------
(* What the steps of the server do to a request that is being handled.     *)
LEMMA ServerStep ==
  ASSUME TypeOK, [Next]_vars
  PROVE  \/ UNCHANGED server
         \/ \E f \in frames : Receive(f)
         \/ \E h \in handlers : Create(h) \/ Record(h) \/ Confirm(h)
         \/ \E h \in handlers : HandOver(h) \/ Refuse(h) \/ Repeat(h)
         \/ ServerRestart
  BY DEF Next, User, Network, Server, Handle, Answer, Submit, SubmitRefused, Rebind,
         Connect, Announce, Drop, Accepted, Failed, vars

(* The owner of a request stays the only one, and its messages run once.   *)
LEMMA SafeStep ==
  ASSUME Inv, [Next]_vars PROVE Exclusive' /\ Fresh' /\ RunsOnce'
<1> USE BoundsAssumption DEF Inv
<1>1. CASE UNCHANGED server
  BY <1>1 DEF server, Exclusive, Fresh, RunsOnce, Here
<1>2. ASSUME NEW f \in frames, Receive(f) PROVE Exclusive' /\ Fresh' /\ RunsOnce'
  <2> DEFINE new == [frame |-> f, stage |-> "first"]
             rep == [frame |-> f, stage |-> "repeat"]
  <2>1. f.req \in Req /\ life \in Life /\ \A h \in handlers : h.frame.req \in Req
    BY DEF TypeOK, Frames, Handlers
  <2>2. UNCHANGED <<life, created, turns>>
    BY <1>2 DEF Receive
  <2>3. CASE Reserved(f.req)
    <3>1. handlers' = handlers \cup {rep} /\ requests' = requests
      BY <1>2, <2>3 DEF Receive
    <3>2. ~Working(rep)
      BY DEF Working
    <3> HIDE DEF rep
    <3> QED
      BY <2>2, <3>1, <3>2 DEF Exclusive, Fresh, RunsOnce, Here
  <2>4. CASE ~Reserved(f.req)
    <3>1. handlers' = handlers \cup {new} /\ requests' = [requests EXCEPT ![f.req].seen = TRUE]
      BY <1>2, <2>4 DEF Receive
    <3>2. new.frame.req = f.req /\ new.stage = "first"
      OBVIOUS
    <3>3. turns[<<f.req, life>>] = <<>> /\ created[<<f.req, life>>] = 0
      BY <2>1, <2>4 DEF Fresh, Reserved
    <3>8. Opened(new) = 0
      BY DEF Opened
    <3>4. \A h \in handlers : Working(h) => h.frame.req # f.req
      BY <2>4 DEF Exclusive, Reserved
    <3>5. \A r \in Req : requests'[r].seen = (requests[r].seen \/ r = f.req)
      BY <2>1, <3>1 DEF TypeOK
    <3> HIDE DEF new
    <3>6. Exclusive'
      <4>1. ASSUME NEW h \in handlers', Working(h)
            PROVE  /\ requests'[h.frame.req].seen
                   /\ turns[<<h.frame.req, life>>] = <<>>
                   /\ created[<<h.frame.req, life>>] = Opened(h)
                   /\ h.stage = "ready" => h.frame.body.key = NoKey
        BY <2>1, <3>1, <3>2, <3>3, <3>5, <3>8, <4>1 DEF Exclusive, Here
      <4>2. ASSUME NEW g \in handlers', NEW h \in handlers', Working(g), Working(h),
                   g.frame.req = h.frame.req
            PROVE  g = h
        BY <3>1, <3>2, <3>4, <4>2 DEF Exclusive
      <4> QED
        BY <2>2, <4>1, <4>2 DEF Exclusive, Here
    <3>7. Fresh'
      BY <2>2, <3>5 DEF Fresh
    <3> QED
      BY <2>2, <3>6, <3>7 DEF RunsOnce
  <2> QED
    BY <2>3, <2>4
<1>3. ASSUME NEW h \in handlers
      PROVE  /\ h.frame.req \in Req /\ life \in Life /\ Here(h) \in Key
             /\ Here(h) = <<h.frame.req, life>>
  BY DEF TypeOK, Handlers, Frames, Here, Key
<1>4. ASSUME NEW h \in handlers, Working(h), NEW stage \in {"ready", "recorded", "answered"},
             MovesTo(h, stage), UNCHANGED <<life, turns>>,
             \A r \in Req : requests'[r].seen = requests[r].seen,
             stage = "ready" => h.frame.body.key = NoKey,
             \A k \in Key : created'[k] = IF k = Here(h) THEN Opened([h EXCEPT !.stage = stage])
                                                       ELSE created[k]
      PROVE  Exclusive' /\ Fresh' /\ RunsOnce'
  <2> DEFINE g == [h EXCEPT !.stage = stage]
  <2>1. g.frame = h.frame /\ g.stage = stage /\ Working(g) /\ Opened(g) \in {0, 1}
    BY DEF TypeOK, Handlers, Working, Opened
  <2>2. handlers' = (handlers \ {h}) \cup {g}
    BY <1>4 DEF MovesTo
  <2>3. \A k \in Key : created'[k] = IF k = Here(h) THEN Opened(g) ELSE created[k]
    BY <1>4
  <2> HIDE DEF g
  <2>4. turns[Here(h)] = <<>> /\ requests[h.frame.req].seen
    BY <1>4 DEF Exclusive
  <2>5. \A f \in handlers : Working(f) /\ f # h => f.frame.req # h.frame.req /\ Here(f) # Here(h)
    BY <1>3, <1>4 DEF Exclusive
  <2>6. ASSUME NEW f \in handlers', Working(f)
        PROVE  /\ requests'[f.frame.req].seen
               /\ turns'[<<f.frame.req, life'>>] = <<>>
               /\ created'[<<f.frame.req, life'>>] = Opened(f)
               /\ f.stage = "ready" => f.frame.body.key = NoKey
    <3>1. CASE f = g
      BY <1>3, <1>4, <2>1, <2>3, <2>4, <3>1
    <3>2. CASE f \in handlers /\ f # h
      BY <1>3, <1>4, <2>3, <2>5, <2>6, <3>2 DEF Exclusive
    <3> QED
      BY <2>2, <3>1, <3>2
  <2>7. \A f1, f2 \in handlers' :
          Working(f1) /\ Working(f2) /\ f1.frame.req = f2.frame.req => f1 = f2
    BY <2>1, <2>2, <2>5 DEF Exclusive
  <2>8. Exclusive'
    BY <2>6, <2>7 DEF Exclusive, Here, Opened, Working
  <2>9. Fresh'
    BY <1>3, <1>4, <2>3, <2>4 DEF Fresh, Key, TypeOK, Life
  <2>10. RunsOnce'
    BY <1>4, <2>1, <2>3 DEF RunsOnce
  <2> QED
    BY <2>8, <2>9, <2>10
<1>5. ASSUME NEW h \in handlers, Working(h), Ends(h), life' = life,
             \A r \in Req : requests'[r].seen = requests[r].seen,
             \A k \in Key : k # Here(h) => turns'[k] = turns[k] /\ created'[k] = created[k],
             Len(turns'[Here(h)]) <= 1, created'[Here(h)] \in {0, 1}
      PROVE  Exclusive' /\ Fresh' /\ RunsOnce'
  <2>1. requests[h.frame.req].seen /\ handlers' = handlers \ {h}
    BY <1>5 DEF Exclusive, Ends
  <2>2. \A f \in handlers : Working(f) /\ f # h => f.frame.req # h.frame.req /\ Here(f) # Here(h)
    BY <1>3, <1>5 DEF Exclusive
  <2>3. Exclusive'
    <3>1. ASSUME NEW g \in handlers', Working(g)
          PROVE  /\ requests'[g.frame.req].seen
                 /\ turns'[<<g.frame.req, life'>>] = <<>>
                 /\ created'[<<g.frame.req, life'>>] = Opened(g)
                 /\ g.stage = "ready" => g.frame.body.key = NoKey
      BY <1>3, <1>5, <2>1, <2>2, <3>1 DEF Exclusive
    <3> QED
      BY <2>1, <3>1 DEF Exclusive, Here, Opened, Working
  <2>4. Fresh'
    <3>1. ASSUME NEW r \in Req, NEW l \in Life, l > life \/ (l = life /\ ~requests[r].seen)
          PROVE  <<r, l>> \in Key /\ <<r, l>> # Here(h)
      <4>1. <<r, l>> = <<h.frame.req, life>> => r = h.frame.req /\ l = life
        OBVIOUS
      <4>2. ~(l > l)
        BY DEF Life
      <4> QED
        BY <1>3, <2>1, <3>1, <4>1, <4>2 DEF Key
    <3> QED
      BY <1>5, <3>1 DEF Fresh
  <2>5. \A k \in Key : Len(turns'[k]) <= 1 /\ created'[k] <= 1
    BY <1>5 DEF RunsOnce
  <2> QED
    BY <2>3, <2>4, <2>5 DEF RunsOnce
<1>13. ASSUME NEW h \in handlers, Working(h)
       PROVE  /\ turns[Here(h)] = <<>> /\ created[Here(h)] = Opened(h) /\ Opened(h) \in {0, 1}
              /\ h \in Handlers
              /\ \A stage \in {"ready", "recorded", "answered"} :
                   Opened([h EXCEPT !.stage = stage]) = IF h.frame.body.key # NoKey THEN 0 ELSE 1
  BY <1>13 DEF Exclusive, Opened, TypeOK, Handlers
<1>6. ASSUME NEW h \in handlers, Create(h) PROVE Exclusive' /\ Fresh' /\ RunsOnce'
  <2>1. Working(h) /\ Resolved(h) = Here(h) /\ Opened(h) = 0 /\ h.frame.body.key = NoKey
    BY <1>6 DEF Create, At, Working, Resolved, Here, Opened
  <2>5. created' = [created EXCEPT ![Here(h)] = created[Here(h)] + 1]
    BY <1>6, <2>1 DEF Create
  <2>6. created[Here(h)] = 0 /\ Here(h) \in Key
    BY <1>3, <1>13, <2>1
  <2>2. \A k \in Key : created'[k] = IF k = Here(h) THEN 1 ELSE created[k]
    BY <2>5, <2>6 DEF TypeOK
  <2>3. UNCHANGED <<life, turns, requests>> /\ MovesTo(h, "ready")
    BY <1>6 DEF Create
  <2>4. Opened([h EXCEPT !.stage = "ready"]) = 1
    BY <1>13, <2>1
  <2> QED
    BY <1>4, <2>1, <2>2, <2>3, <2>4
<1>7. ASSUME NEW h \in handlers, Record(h) PROVE Exclusive' /\ Fresh' /\ RunsOnce'
  <2>1. Working(h) /\ Opened(h) = IF h.frame.body.key # NoKey THEN 0 ELSE 1
    BY <1>7 DEF Record, At, Working, Opened
  <2>2. \A r \in Req : requests'[r].seen = requests[r].seen
    BY <1>3, <1>7 DEF Record, TypeOK
  <2>3. UNCHANGED <<life, turns, created>> /\ MovesTo(h, "recorded")
    BY <1>7 DEF Record
  <2>4. Opened([h EXCEPT !.stage = "recorded"]) = created[Here(h)]
    BY <1>13, <2>1
  <2> QED
    BY <1>4, <2>1, <2>2, <2>3, <2>4
<1>10. ASSUME NEW h \in handlers, Confirm(h) PROVE Exclusive' /\ Fresh' /\ RunsOnce'
  <2>1. Working(h) /\ Opened(h) = IF h.frame.body.key # NoKey THEN 0 ELSE 1
    BY <1>10 DEF Confirm, At, Working, Opened
  <2>3. UNCHANGED <<life, turns, created, requests>> /\ MovesTo(h, "answered")
    BY <1>10 DEF Confirm
  <2>4. Opened([h EXCEPT !.stage = "answered"]) = created[Here(h)]
    BY <1>13, <2>1
  <2> QED
    BY <1>4, <2>1, <2>3, <2>4
<1>11. ASSUME NEW h \in handlers, HandOver(h) PROVE Exclusive' /\ Fresh' /\ RunsOnce'
  <2> DEFINE b == [key |-> Resolved(h), form |-> h.frame.body.form]
  <2>1. Working(h) /\ Ends(h) /\ UNCHANGED <<life, created, requests>>
    BY <1>11 DEF HandOver, At, Working
  <2>2. turns' = [turns EXCEPT ![Here(h)] = Append(@, b)] /\ Len(Append(<<>>, b)) = 1
    BY <1>11 DEF HandOver, Here
  <2>3. \A k \in Key : k # Here(h) => turns'[k] = turns[k]
    BY <1>3, <2>2 DEF TypeOK
  <2>4. Len(turns'[Here(h)]) = 1
    BY <1>3, <1>13, <2>1, <2>2 DEF TypeOK
  <2>5. created'[Here(h)] \in {0, 1}
    BY <1>13, <2>1
  <2>6. \A k \in Key : k # Here(h) => turns'[k] = turns[k] /\ created'[k] = created[k]
    BY <2>1, <2>3
  <2>7. \A r \in Req : requests'[r].seen = requests[r].seen
    BY <2>1
  <2>8. Len(turns'[Here(h)]) <= 1
    BY <2>4
  <2> HIDE DEF b
  <2> QED
    BY <1>5, <2>1, <2>5, <2>6, <2>7, <2>8
<1>12. ASSUME NEW h \in handlers, Refuse(h) PROVE Exclusive' /\ Fresh' /\ RunsOnce'
  <2>1. Working(h) /\ Ends(h) /\ UNCHANGED <<life, turns, requests>>
    BY <1>12 DEF Refuse, At, Working
  <2>2. /\ \A k \in Key : k # Here(h) => created'[k] = created[k]
        /\ created'[Here(h)] \in {0, 1}
    <3>1. CASE created' = created
      BY <1>13, <2>1, <3>1
    <3>2. CASE At(h, "ready") /\ created' = [created EXCEPT ![Resolved(h)] = @ - 1]
      <4>1. Resolved(h) = Here(h) /\ created[Here(h)] = 1
        BY <2>1, <3>2 DEF Exclusive, At, Opened, Resolved, Here
      <4> QED
        BY <1>3, <3>2, <4>1 DEF TypeOK
    <3> QED
      BY <1>12, <3>1, <3>2 DEF Refuse
  <2>3. Len(turns'[Here(h)]) <= 1
    <3>1. Len(<<>>) = 0
      OBVIOUS
    <3>2. turns'[Here(h)] = <<>>
      BY <1>13, <2>1
    <3>3. Len(turns'[Here(h)]) = 0
      BY <3>1, <3>2
    <3> QED
      BY <3>3
  <2> QED
    BY <1>5, <2>1, <2>2, <2>3
<1>8. ASSUME NEW h \in handlers, Repeat(h) PROVE Exclusive' /\ Fresh' /\ RunsOnce'
  BY <1>8 DEF Repeat, Ends, Exclusive, Fresh, RunsOnce, Here
<1>9. CASE ServerRestart
  <2>1. handlers' = {} /\ life' = life + 1 /\ life \in Nat /\ UNCHANGED <<created, turns>>
    BY <1>9 DEF ServerRestart, TypeOK, Life
  <2>2. Fresh'
    BY <2>1 DEF Fresh, Life
  <2> QED
    BY <2>1, <2>2 DEF Exclusive, RunsOnce
<1> QED
  BY <1>1, <1>2, <1>6, <1>7, <1>8, <1>9, <1>10, <1>11, <1>12, ServerStep

LEMMA InvInit == Init => Inv
<1> SUFFICES ASSUME Init PROVE Inv
  OBVIOUS
<1>1. TypeOK
  <2>1. epoch \in 0..MaxEpoch /\ life \in Life
    BY BoundsAssumption DEF Init, Life
  <2>7. open \in BOOLEAN
    BY DEF Init
  <2>6. frames \subseteq Frames /\ answers \subseteq Answers /\ handlers \subseteq Handlers
    BY DEF Init
  <2>2. requests \in [Req -> [seen : BOOLEAN, key : Key \cup {NoKey}]]
    BY DEF Init, Unreserved
  <2>3. <<>> \in Seq(Bodies)
    OBVIOUS
  <2>4. created \in [Key -> Nat] /\ turns \in [Key -> Seq(Bodies)]
    BY <2>3 DEF Init
  <2>5. /\ outbox \in [Req -> SUBSET Bodies] /\ attempts \in [Req -> 0..MaxRecovery]
        /\ awaiting \in [Req -> {"unsent", "draft", "keyed", "over"}]
        /\ bound \in Key \cup {NoKey} \cup {TempKey(r) : r \in Req}
        /\ promoted \in [Req -> Key \cup {NoKey}]
    BY BoundsAssumption DEF Init
  <2> QED
    BY <2>1, <2>2, <2>4, <2>5, <2>6, <2>7 DEF TypeOK
<1>2. Exclusive /\ Fresh
  BY DEF Init, Exclusive, Fresh, Key
<1>3. \A k \in Key : turns[k] = <<>> /\ created[k] = 0
  BY DEF Init
<1>4. Len(<<>>) = 0
  OBVIOUS
<1>5. RunsOnce
  BY <1>3, <1>4 DEF RunsOnce
<1> QED
  BY <1>1, <1>2, <1>5 DEF Inv

LEMMA InvStep == Inv /\ [Next]_vars => Inv'
  BY TypeStep, SafeStep DEF Inv

(* The types hold for every number of requests, connections and restarts.  *)
THEOREM DeliveryTypeCorrect == Spec => []TypeOK
<1>1. Inv => TypeOK
  BY DEF Inv
<1> QED
  BY <1>1, InvInit, InvStep, PTL DEF Spec

(* However often a frame is sent again, and whatever gets lost, a life of  *)
(* the server runs a message at most once and opens one session for it.    *)
THEOREM RunsOnceCorrect == Spec => []RunsOnce
<1>1. Inv => RunsOnce
  BY DEF Inv
<1> QED
  BY <1>1, InvInit, InvStep, PTL DEF Spec

-----------------------------------------------------------------------------
(* A draft is promoted to the session its message runs in.  What makes it  *)
(* so: as long as a draft waits, none of its frames names a session, hence *)
(* an answer with a key can only carry the key the table recorded; the key *)
(* is recorded once no error return is left before the hand-over, and the  *)
(* goroutine that recorded it is the only one that could delete the        *)
(* session.                                                                *)

RanHere(r, k) == \E i \in 1..Len(turns[<<r, life>>]) : turns[<<r, life>>][i].key = k

ToRun(r, k) == \E h \in handlers : /\ h.frame.req = r /\ Resolved(h) = k
                                      /\ h.stage \in {"recorded", "answered"}

Kept(r, k) ==
  \E l \in 0..life : /\ k = <<r, l>> /\ created[k] > 0
                     /\ l = life => RanHere(r, k) \/ ToRun(r, k)

DraftsAreKeyless ==
  \A r \in Req : awaiting[r] = "draft" =>
    /\ \A f \in frames : f.req = r => f.body.key = NoKey
    /\ \A h \in handlers : h.frame.req = r => h.frame.body.key = NoKey
    /\ \A b \in outbox[r] : b.key = NoKey

UnsentIsQuiet ==
  \A r \in Req : awaiting[r] = "unsent" =>
    /\ outbox[r] = {} /\ requests[r].key = NoKey
    /\ \A f \in frames : f.req # r
    /\ \A h \in handlers : h.frame.req # r
    /\ \A a \in answers : a.req # r

RecordedKept ==
  \A r \in Req : requests[r].key # NoKey /\ awaiting[r] = "draft" => Kept(r, requests[r].key)

AnsweredKept ==
  \A a \in answers :
    a.kind = "accepted" /\ a.key # NoKey /\ awaiting[a.req] = "draft" => Kept(a.req, a.key)

PromotedKept == \A r \in Req : promoted[r] # NoKey => Kept(r, promoted[r])

Paths == DraftsAreKeyless /\ UnsentIsQuiet
Keys == RecordedKept /\ AnsweredKept /\ PromotedKept

LEMMA HandlerTypes ==
  ASSUME TypeOK, NEW h \in handlers
  PROVE  /\ h \in Handlers /\ h.frame.req \in Req /\ life \in Life
         /\ Here(h) = <<h.frame.req, life>> /\ Here(h) \in Key
         /\ Resolved(h) \in Key \cup {NoKey}
         /\ [key |-> Resolved(h), form |-> h.frame.body.form] \in Bodies
         /\ \A stage \in Stages : /\ [h EXCEPT !.stage = stage].stage = stage
                                  /\ [h EXCEPT !.stage = stage].frame = h.frame
<1>1. h \in Handlers /\ h.frame \in Frames /\ h.frame.body \in Bodies
  BY DEF TypeOK, Handlers, Frames
<1>2. h.frame.req \in Req /\ h.frame.body.key \in Key \cup {NoKey} /\ life \in Life
      /\ h.frame.body.form \in {"full", "bare"}
  BY <1>1 DEF Frames, Bodies, TypeOK
<1>3. <<h.frame.req, life>> \in Key
  BY <1>2 DEF Key
<1>4. Resolved(h) \in Key \cup {NoKey}
  BY <1>2, <1>3 DEF Resolved
<1>5. [key |-> Resolved(h), form |-> h.frame.body.form] \in Bodies
  BY <1>2, <1>4 DEF Bodies
<1>6. \A stage \in Stages : /\ [h EXCEPT !.stage = stage].stage = stage
                            /\ [h EXCEPT !.stage = stage].frame = h.frame
  BY <1>1 DEF Handlers
<1> QED
  BY <1>1, <1>2, <1>3, <1>4, <1>5, <1>6 DEF Here

(* What has run stays run, and who hands a message over has then run it.   *)
LEMMA HandedOver ==
  ASSUME Inv, NEW g \in handlers, HandOver(g)
  PROVE  /\ RanHere(g.frame.req, Resolved(g))'
         /\ \A r \in Req : r # g.frame.req => turns'[<<r, life>>] = turns[<<r, life>>]
         /\ turns[<<g.frame.req, life>>] = <<>> /\ life' = life
<1> USE DEF Inv
<1>0. PICK k : k = Resolved(g)
  OBVIOUS
<1> DEFINE k0 == <<g.frame.req, life>>
           b == [key |-> k, form |-> g.frame.body.form]
<1>1. k0 \in Key /\ b \in Bodies /\ b.key = k
  BY <1>0, HandlerTypes
<1>2. turns[k0] = <<>> /\ life' = life
  BY DEF HandOver, At, Exclusive, Working, Here
<1>3. turns' = [turns EXCEPT ![k0] = Append(@, b)]
  BY <1>0 DEF HandOver
<1>4. turns'[k0] = <<b>>
  BY <1>1, <1>2, <1>3 DEF TypeOK
<1>5. \E i \in 1..Len(turns'[k0]) : turns'[k0][i].key = k
  <2>1. Len(<<b>>) = 1 /\ <<b>>[1] = b
    OBVIOUS
  <2> QED
    BY <1>1, <1>4, <2>1
<1>6. RanHere(g.frame.req, k)'
  BY <1>2, <1>5 DEF RanHere
<1>7. \A r \in Req : r # g.frame.req => turns'[<<r, life>>] = turns[<<r, life>>]
  BY <1>3 DEF TypeOK, Key
<1>8. Resolved(g)' = Resolved(g)
  BY <1>2 DEF Resolved
<1> QED
  BY <1>0, <1>2, <1>6, <1>7, <1>8

(* A kept session stays kept: it is neither deleted nor left without its   *)
(* message while the server lives.                                         *)
LEMMA KeptStays ==
  ASSUME Inv, [Next]_vars, NEW r \in Req, NEW k, Kept(r, k) PROVE Kept(r, k)'
<1> USE BoundsAssumption DEF Inv
<1>0. PICK l \in 0..life : /\ k = <<r, l>> /\ created[k] > 0
                           /\ l = life => RanHere(r, k) \/ ToRun(r, k)
  BY DEF Kept
<1>1. life \in Nat /\ l \in Life /\ k \in Key /\ k = <<r, l>>
  BY <1>0 DEF TypeOK, Life, Key
<1>2. ASSUME life' = life, created'[k] > 0,
             l = life => RanHere(r, k)' \/ ToRun(r, k)'
      PROVE  Kept(r, k)'
  BY <1>0, <1>2 DEF Kept
<1>3. ASSUME handlers \subseteq handlers', UNCHANGED <<life, created, turns>> PROVE Kept(r, k)'
  BY <1>0, <1>2, <1>3 DEF RanHere, ToRun, Resolved
<1>4. ASSUME NEW h \in handlers, Create(h) \/ Record(h) \/ Confirm(h)
      PROVE  Kept(r, k)'
  <2>1. PICK stage \in {"ready", "recorded", "answered"} :
          MovesTo(h, stage) /\ (h.stage \in {"recorded", "answered"} => stage = "answered")
    <3>1. CASE Create(h)
      BY <3>1 DEF Create, At
    <3>2. CASE Record(h)
      BY <3>2 DEF Record, At
    <3>3. CASE Confirm(h)
      BY <3>3 DEF Confirm
    <3> QED
      BY <1>4, <3>1, <3>2, <3>3
  <2>2. UNCHANGED <<life, turns>>
    BY <1>4 DEF Create, Record, Confirm
  <2>3. created'[k] > 0
    <3>1. CASE created' = created
      BY <1>0, <3>1
    <3>2. CASE Create(h)
      <4>1. created' = [created EXCEPT ![Resolved(h)] = @ + 1] /\ Resolved(h) \in Key
        BY <3>2, HandlerTypes DEF Create, Resolved, Here
      <4> QED
        BY <1>0, <1>1, <4>1 DEF TypeOK
    <3> QED
      BY <1>4, <3>1, <3>2 DEF Record, Confirm
  <2>4. ToRun(r, k) => ToRun(r, k)'
    <3>1. SUFFICES ASSUME NEW g \in handlers, g.frame.req = r, Resolved(g) = k,
                          g.stage \in {"recorded", "answered"}
                   PROVE  ToRun(r, k)'
      BY DEF ToRun
    <3>2. CASE g # h
      BY <2>1, <2>2, <3>1, <3>2 DEF MovesTo, ToRun, Resolved
    <3>3. CASE g = h
      <4> DEFINE m == [h EXCEPT !.stage = stage]
      <4>1. m.frame = h.frame /\ m.stage = "answered"
        BY <2>1, <3>1, <3>3, HandlerTypes DEF Stages
      <4>2. m \in handlers'
        BY <2>1 DEF MovesTo
      <4>3. Resolved(m)' = k
        BY <2>2, <3>1, <3>3, <4>1 DEF Resolved
      <4> HIDE DEF m
      <4> QED
        BY <3>1, <3>3, <4>1, <4>2, <4>3 DEF ToRun
    <3> QED
      BY <3>2, <3>3
  <2>5. RanHere(r, k) => RanHere(r, k)'
    BY <2>2 DEF RanHere
  <2> QED
    BY <1>0, <1>2, <2>2, <2>3, <2>4, <2>5
<1>5. ASSUME NEW h \in handlers, HandOver(h) PROVE Kept(r, k)'
  <2>1. UNCHANGED <<life, created>> /\ handlers' = handlers \ {h}
    BY <1>5 DEF HandOver, Ends
  <2>2. l = life => RanHere(r, k)' \/ ToRun(r, k)'
    <3>1. CASE r = h.frame.req
      <4>1. ~RanHere(r, k)
        <5>1. Len(<<>>) = 0
          OBVIOUS
        <5>2. turns[<<r, life>>] = <<>>
          BY <1>5, <3>1, HandedOver
        <5>3. Len(turns[<<r, life>>]) = 0
          BY <5>1, <5>2
        <5> QED
          BY <5>3 DEF RanHere
      <4>2. ASSUME NEW g \in handlers, g.frame.req = r, Resolved(g) = k,
                   g.stage \in {"recorded", "answered"}
            PROVE  RanHere(r, k)'
        <5>1. g = h
          BY <1>5, <3>1, <4>2 DEF HandOver, At, Exclusive, Working
        <5>2. RanHere(h.frame.req, Resolved(h))'
          BY <1>5, HandedOver
        <5>3. Resolved(h)' = Resolved(h)
          BY <2>1 DEF Resolved
        <5> QED
          BY <3>1, <4>2, <5>1, <5>2, <5>3
      <4> QED
        BY <1>0, <4>1, <4>2 DEF ToRun
    <3>2. CASE r # h.frame.req
      <4>1. turns'[<<r, life>>] = turns[<<r, life>>]
        BY <1>5, <3>2, HandedOver
      <4>2. RanHere(r, k) => RanHere(r, k)'
        BY <2>1, <4>1 DEF RanHere
      <4>3. ToRun(r, k) => ToRun(r, k)'
        BY <2>1, <3>2 DEF ToRun, Resolved
      <4> QED
        BY <1>0, <4>2, <4>3
    <3> QED
      BY <3>1, <3>2
  <2> QED
    BY <1>0, <1>2, <2>1, <2>2
<1>6. ASSUME NEW h \in handlers, Refuse(h) \/ Repeat(h) PROVE Kept(r, k)'
  <2>1. handlers' = handlers \ {h} /\ UNCHANGED <<life, turns>>
    BY <1>6 DEF Refuse, Repeat, Ends
  <2>2. h.stage \notin {"recorded", "answered"}
    BY <1>6 DEF Refuse, Repeat, At
  <2>3. ToRun(r, k) => ToRun(r, k)'
    BY <2>1, <2>2 DEF ToRun, Resolved
  <2>4. RanHere(r, k) => RanHere(r, k)'
    BY <2>1 DEF RanHere
  <2>5. created'[k] > 0
    <3>1. CASE created' = created
      BY <1>0, <3>1
    <3>2. CASE At(h, "ready") /\ created' = [created EXCEPT ![Resolved(h)] = @ - 1]
      <4>1. Working(h) /\ Resolved(h) = Here(h) /\ turns[Here(h)] = <<>>
        BY <3>2 DEF Exclusive, At, Working, Resolved, Here
      <4>2. k # Here(h)
        <5> SUFFICES ASSUME k = Here(h) PROVE FALSE
          OBVIOUS
        <5>1. r = h.frame.req /\ l = life
          BY <1>1 DEF Here
        <5>2. ~RanHere(r, k)
          <6>1. Len(<<>>) = 0
            OBVIOUS
          <6> QED
            BY <4>1, <5>1, <6>1 DEF RanHere, Here
        <5>3. ~ToRun(r, k)
          BY <2>2, <4>1, <5>1 DEF ToRun, Exclusive, Working
        <5> QED
          BY <1>0, <5>1, <5>2, <5>3
      <4>3. created'[k] = created[k]
        BY <1>1, <3>2, <4>1, <4>2 DEF TypeOK
      <4> QED
        BY <1>0, <4>3
    <3> QED
      BY <1>6, <3>1, <3>2 DEF Refuse, Repeat
  <2> QED
    BY <1>0, <1>2, <2>1, <2>3, <2>4, <2>5
<1>7. CASE ServerRestart
  <2>1. l \in 0..life' /\ l # life' /\ created' = created
    BY <1>1, <1>7 DEF ServerRestart
  <2> QED
    BY <1>0, <2>1 DEF Kept
<1>8. ASSUME NEW f \in frames, Receive(f) PROVE Kept(r, k)'
  BY <1>3, <1>8 DEF Receive
<1>9. CASE UNCHANGED server
  BY <1>3, <1>9 DEF server
<1> QED
  BY <1>4, <1>5, <1>6, <1>7, <1>8, <1>9, ServerStep

(* The frames of a draft name no session, those of an unsent one are none. *)
LEMMA PathsStep == ASSUME TypeOK, Paths, [Next]_vars PROVE Paths'
<1> USE DEF Paths
<1>1. ASSUME NEW q \in Req, Submit(q) PROVE Paths'
  <2> DEFINE body == [key |-> bound, form |-> "full"]
             new == [req |-> q, body |-> body, epoch |-> epoch, via |-> "submit"]
  <2>1. /\ frames' = frames \cup {new} /\ outbox' = [outbox EXCEPT ![q] = {body}]
        /\ UNCHANGED <<answers, handlers, requests>> /\ awaiting[q] = "unsent"
        /\ awaiting' = [awaiting EXCEPT ![q] = IF bound = NoKey THEN "draft" ELSE "keyed"]
    BY <1>1 DEF Submit, server
  <2>2. new.req = q /\ new.body = body /\ body.key = bound
    OBVIOUS
  <2> HIDE DEF new, body
  <2>3. \A r \in Req : r # q => awaiting'[r] = awaiting[r] /\ outbox'[r] = outbox[r]
    BY <2>1 DEF TypeOK
  <2>4. outbox'[q] = {body} /\ awaiting'[q] = IF bound = NoKey THEN "draft" ELSE "keyed"
    BY <2>1 DEF TypeOK
  <2>5. DraftsAreKeyless'
    BY <2>1, <2>2, <2>3, <2>4 DEF DraftsAreKeyless, UnsentIsQuiet
  <2>6. UnsentIsQuiet'
    BY <2>1, <2>2, <2>3, <2>4 DEF UnsentIsQuiet
  <2> QED
    BY <2>5, <2>6
<1>2. ASSUME NEW q \in Req, SubmitRefused(q) PROVE Paths'
  BY <1>2 DEF SubmitRefused, server, TypeOK, DraftsAreKeyless, UnsentIsQuiet
<1>3. CASE Rebind
  BY <1>3 DEF Rebind, server, DraftsAreKeyless, UnsentIsQuiet
<1>4. CASE Connect \/ Announce
  <2>1. \A r \in Req : outbox'[r] = Refresh(r)
    BY <1>4 DEF Connect, Announce, RecoverDrafts
  <2>2. \A r \in Req : \A b \in Refresh(r) : b \in outbox[r] \/ b.key = NoKey
    BY DEF Refresh
  <2>3. \A r \in Req : awaiting[r] = "unsent" => Refresh(r) = {} /\ r \notin Replayed
    BY DEF Refresh, Replayed, Orphan, UnsentIsQuiet
  <2>4. ASSUME NEW f \in frames'
        PROVE  \/ f \in frames
               \/ \E r \in Req : /\ f.req = r
                                 /\ f.body.key = NoKey \/ f.body \in Refresh(r)
                                 /\ r \in Replayed \/ f.body \in Refresh(r)
    <3>1. CASE \E e : f \in ReplayFrames(e)
      BY <3>1 DEF ReplayFrames, Replayed
    <3>2. CASE \E r \in Req : f \in {[req |-> r, body |-> b, epoch |-> epoch + 1, via |-> "resend"]
                                    : b \in Refresh(r)}
      BY <3>2
    <3> QED
      BY <1>4, <2>4, <3>1, <3>2 DEF Connect, Announce
  <2>5. UNCHANGED <<answers, handlers, awaiting, requests>>
    BY <1>4 DEF Connect, Announce, server
  <2>6. DraftsAreKeyless'
    BY <2>1, <2>2, <2>4, <2>5 DEF DraftsAreKeyless
  <2>7. UnsentIsQuiet'
    BY <2>1, <2>3, <2>4, <2>5 DEF UnsentIsQuiet
  <2> QED
    BY <2>6, <2>7
<1>5. CASE Drop
  <2>1. /\ frames' \subseteq frames /\ answers' = {}
        /\ UNCHANGED <<handlers, outbox, awaiting, requests>>
    BY <1>5 DEF Drop, client, server
  <2> QED
    BY <2>1 DEF DraftsAreKeyless, UnsentIsQuiet
<1>6. ASSUME NEW f \in frames, Receive(f) PROVE Paths'
  <2>1. frames' \subseteq frames /\ UNCHANGED <<answers, outbox, awaiting>> /\ f.req \in Req
    BY <1>6 DEF Receive, client, TypeOK, Frames
  <2>2. \A h \in handlers' : h \in handlers \/ h.frame = f
    BY <1>6 DEF Receive
  <2>3. \A r \in Req : r # f.req => requests'[r] = requests[r]
    BY <1>6, <2>1 DEF Receive, TypeOK
  <2>4. awaiting[f.req] # "unsent"
    BY <2>1 DEF UnsentIsQuiet
  <2> QED
    BY <2>1, <2>2, <2>3, <2>4 DEF DraftsAreKeyless, UnsentIsQuiet
<1>7. ASSUME NEW h \in handlers, \/ Create(h) \/ Refuse(h) \/ Record(h)
                                 \/ Confirm(h) \/ HandOver(h) \/ Repeat(h)
      PROVE  Paths'
  <2>1. UNCHANGED <<frames, outbox, awaiting>> /\ h.frame.req \in Req
    BY <1>7, HandlerTypes DEF Create, Refuse, Record, Confirm, HandOver, Repeat, client
  <2>2. \A a \in answers' : a \in answers \/ a.req = h.frame.req
    BY <1>7 DEF Create, Refuse, Record, Confirm, HandOver, Repeat, Reply
  <2>3. \A g \in handlers' : g \in handlers \/ g.frame = h.frame
    <3>1. handlers' = handlers \ {h} \/ \E stage \in Stages : MovesTo(h, stage)
      BY <1>7 DEF Create, Refuse, Record, Confirm, HandOver, Repeat, Ends, Stages
    <3>2. ASSUME NEW stage \in Stages, MovesTo(h, stage), NEW g \in handlers'
          PROVE  g \in handlers \/ g.frame = h.frame
      <4>1. g \in handlers \/ g = [h EXCEPT !.stage = stage]
        BY <3>2 DEF MovesTo
      <4>2. [h EXCEPT !.stage = stage].frame = h.frame
        BY HandlerTypes
      <4> QED
        BY <4>1, <4>2
    <3> QED
      BY <3>1, <3>2
  <2>4. \A r \in Req : r # h.frame.req => requests'[r] = requests[r]
    <3>1. requests' = requests \/ requests' = [requests EXCEPT ![h.frame.req].key = Resolved(h)]
      BY <1>7 DEF Create, Refuse, Record, Confirm, HandOver, Repeat
    <3> QED
      BY <2>1, <3>1 DEF TypeOK
  <2>5. awaiting[h.frame.req] # "unsent"
    BY <2>1 DEF UnsentIsQuiet
  <2> QED
    BY <2>1, <2>2, <2>3, <2>4, <2>5 DEF DraftsAreKeyless, UnsentIsQuiet
<1>8. CASE ServerRestart
  BY <1>8 DEF ServerRestart, client, Unreserved, DraftsAreKeyless, UnsentIsQuiet
<1>9. ASSUME NEW a \in answers, Accepted(a) \/ Failed(a) PROVE Paths'
  <2>1. /\ UNCHANGED <<frames, handlers, requests>> /\ answers' \subseteq answers
        /\ awaiting' = [awaiting EXCEPT ![a.req] = "over"]
        /\ outbox' = [outbox EXCEPT ![a.req] = {}]
    BY <1>9 DEF Accepted, Failed, server
  <2>2. \A r \in Req : awaiting'[r] \in {awaiting[r], "over"} /\ outbox'[r] \in {outbox[r], {}}
    BY <2>1 DEF TypeOK
  <2> QED
    BY <2>1, <2>2 DEF DraftsAreKeyless, UnsentIsQuiet
<1>10. CASE UNCHANGED vars
  BY <1>10 DEF vars, client, server, DraftsAreKeyless, UnsentIsQuiet
<1> QED
  BY <1>1, <1>2, <1>3, <1>4, <1>5, <1>6, <1>7, <1>8, <1>9, <1>10
     DEF Next, User, Network, Server, Handle, Answer

(* Keys that are recorded, answered to a draft, or shown, are kept.        *)
LEMMA KeysStep ==
  ASSUME Inv, Paths, Keys, [Next]_vars PROVE Keys'
<1> USE DEF Keys, Inv
<1>1. \A r \in Req : \A k : Kept(r, k) => Kept(r, k)'
  BY KeptStays
<1>0. \A a \in answers : a.req \in Req
  BY DEF TypeOK, Answers
<1>2. ASSUME UNCHANGED promoted, \A r \in Req : requests'[r].key = requests[r].key,
             \A r \in Req : awaiting'[r] = "draft" =>
               awaiting[r] = "draft" \/ awaiting[r] = "unsent",
             \A a \in answers' : a \in answers \/ a.key = NoKey
      PROVE  Keys'
  <2>1. \A a \in answers' : a \in answers /\ a.key # NoKey =>
          a.req \in Req /\ awaiting[a.req] # "unsent"
    BY <1>0 DEF Paths, UnsentIsQuiet
  <2>2. AnsweredKept'
    BY <1>1, <1>2, <2>1 DEF AnsweredKept
  <2>3. RecordedKept'
    BY <1>1, <1>2 DEF RecordedKept, Paths, UnsentIsQuiet
  <2>4. PromotedKept'
    BY <1>1, <1>2 DEF PromotedKept
  <2> QED
    BY <2>2, <2>3, <2>4
<1>3. ASSUME NEW q \in Req, Submit(q) PROVE Keys'
  <2>1. \A r \in Req : r # q => awaiting'[r] = awaiting[r]
    BY <1>3 DEF Submit, TypeOK
  <2>2. UNCHANGED <<requests, promoted, answers>> /\ awaiting[q] = "unsent"
    BY <1>3 DEF Submit, server
  <2> QED
    BY <1>2, <2>1, <2>2
<1>4. ASSUME NEW q \in Req, SubmitRefused(q) PROVE Keys'
  <2>1. \A r \in Req : awaiting'[r] \in {awaiting[r], "over"}
    BY <1>4 DEF SubmitRefused, TypeOK
  <2> QED
    BY <1>2, <1>4, <2>1 DEF SubmitRefused, server
<1>5. CASE Rebind \/ Connect \/ Announce \/ Drop
  BY <1>2, <1>5 DEF Rebind, Connect, Announce, Drop, server, client
<1>6. ASSUME NEW f \in frames, Receive(f) PROVE Keys'
  <2>1. f.req \in Req
    BY DEF TypeOK, Frames
  <2>2. \A r \in Req : requests'[r].key = requests[r].key
    <3>1. requests' = requests \/ requests' = [requests EXCEPT ![f.req].seen = TRUE]
      BY <1>6 DEF Receive
    <3>2. \A r \in Req : requests[r] \in [seen : BOOLEAN, key : Key \cup {NoKey}]
      BY DEF TypeOK
    <3>3. [requests[f.req] EXCEPT !.seen = TRUE].key = requests[f.req].key
      BY <2>1, <3>2
    <3>4. CASE requests' = [requests EXCEPT ![f.req] = [requests[f.req] EXCEPT !.seen = TRUE]]
      BY <2>1, <3>3, <3>4 DEF TypeOK
    <3> QED
      BY <3>1, <3>4
  <2>3. UNCHANGED <<answers, awaiting, promoted>>
    BY <1>6 DEF Receive, client
  <2> QED
    BY <1>2, <2>2, <2>3
<1>7. ASSUME NEW h \in handlers, Create(h) \/ HandOver(h) \/ Refuse(h) PROVE Keys'
  <2>1. \A a \in answers' : a \in answers \/ a.key = NoKey
    BY <1>7 DEF Create, HandOver, Refuse, Reply
  <2>2. UNCHANGED <<requests, awaiting, promoted>>
    BY <1>7 DEF Create, HandOver, Refuse, client
  <2> QED
    BY <1>2, <2>1, <2>2
<1>8. ASSUME NEW h \in handlers
      PROVE  /\ h \in Handlers /\ h.frame.req \in Req /\ life \in Life
             /\ Resolved(h) \in Key \cup {NoKey}
             /\ awaiting[h.frame.req] = "draft" =>
                  h.frame.body.key = NoKey /\ Resolved(h) = Here(h)
  BY HandlerTypes DEF Paths, DraftsAreKeyless, Resolved, Here
<1>9. ASSUME NEW h \in handlers, Record(h) PROVE Keys'
  <2> DEFINE m == [h EXCEPT !.stage = "recorded"]
             r0 == h.frame.req
  <2>0. UNCHANGED <<answers, awaiting, promoted, life, created>> /\ m \in handlers'
    BY <1>9 DEF Record, client, MovesTo
  <2>1. m.frame = h.frame /\ m.stage = "recorded"
    BY HandlerTypes DEF Stages
  <2>2. ASSUME awaiting[r0] = "draft" PROVE Kept(r0, Here(h))'
    <3>1. Resolved(h) = Here(h) /\ h.frame.body.key = NoKey
      BY <1>8, <2>2
    <3>2. created[Here(h)] = 1
      BY <1>9, <3>1 DEF Record, At, Exclusive, Working, Opened
    <3>3. Resolved(m)' = Here(h)
      BY <2>0, <2>1, <3>1 DEF Resolved, Here
    <3>4. m.frame.req = r0
      BY <2>1
    <3> HIDE DEF m
    <3>5. ToRun(r0, Here(h))'
      BY <2>0, <2>1, <3>3, <3>4 DEF ToRun, Here
    <3>6. life \in 0..life' /\ Here(h) = <<r0, life>> /\ Here(h)' = Here(h)
      BY <2>0, <1>8 DEF Here, Life
    <3> QED
      BY <2>0, <3>2, <3>5, <3>6 DEF Kept
  <2>3. \A r \in Req : requests'[r].key = IF r = r0 THEN Resolved(h) ELSE requests[r].key
    BY <1>8, <1>9 DEF Record, TypeOK
  <2>4. RecordedKept'
    <3>1. ASSUME NEW r \in Req, requests'[r].key # NoKey, awaiting'[r] = "draft"
          PROVE  Kept(r, requests[r].key)'
      <4>1. CASE r = r0
        <5>1. Kept(r0, Here(h))' /\ requests'[r].key = Here(h)
          BY <1>8, <2>0, <2>2, <2>3, <3>1, <4>1
        <5>2. Here(h)' = Here(h)
          BY <2>0 DEF Here
        <5> QED
          BY <4>1, <5>1, <5>2
      <4>2. CASE r # r0
        BY <1>1, <2>0, <2>3, <3>1, <4>2 DEF RecordedKept
      <4> QED
        BY <4>1, <4>2
    <3> QED
      BY <3>1 DEF RecordedKept
  <2>5. AnsweredKept' /\ PromotedKept'
    BY <1>0, <1>1, <2>0 DEF AnsweredKept, PromotedKept
  <2> QED
    BY <2>4, <2>5
<1>10. ASSUME NEW h \in handlers, NEW k, Reply(h, "accepted", k),
              UNCHANGED <<requests, awaiting, promoted>>,
              awaiting[h.frame.req] = "draft" /\ k # NoKey => Kept(h.frame.req, k)
       PROVE  Keys'
  <2>1. \A a \in answers' : a \in answers \/ (a.req = h.frame.req /\ a.key = k)
    BY <1>10 DEF Reply
  <2>2. AnsweredKept'
    <3>1. ASSUME NEW a \in answers', a.kind = "accepted", a.key # NoKey, awaiting'[a.req] = "draft"
          PROVE  Kept(a.req, a.key)'
      <4>1. a.req \in Req /\ Kept(a.req, a.key)
        BY <1>0, <1>8, <1>10, <2>1, <3>1 DEF AnsweredKept
      <4> QED
        BY <1>1, <4>1
    <3> QED
      BY <3>1 DEF AnsweredKept
  <2>3. RecordedKept' /\ PromotedKept'
    BY <1>1, <1>10 DEF RecordedKept, PromotedKept
  <2> QED
    BY <2>2, <2>3
<1>11. ASSUME NEW h \in handlers, Confirm(h) PROVE Keys'
  <2>1. UNCHANGED <<requests, awaiting, promoted>> /\ Reply(h, "accepted", Resolved(h))
    BY <1>11 DEF Confirm, client
  <2>2. ASSUME awaiting[h.frame.req] = "draft" PROVE Kept(h.frame.req, Resolved(h))
    <3>1. Resolved(h) = Here(h) /\ h.frame.body.key = NoKey
      BY <1>8, <2>2
    <3>2. created[Here(h)] = 1 /\ h.stage = "recorded"
      BY <1>11, <3>1 DEF Confirm, At, Exclusive, Working, Opened
    <3>3. ToRun(h.frame.req, Here(h))
      BY <3>1, <3>2 DEF ToRun
    <3>4. life \in 0..life
      BY <1>8 DEF Life
    <3> QED
      BY <3>1, <3>2, <3>3, <3>4 DEF Kept, Here
  <2> QED
    BY <1>10, <2>1, <2>2
<1>12. ASSUME NEW h \in handlers, Repeat(h) PROVE Keys'
  <2>1. UNCHANGED <<requests, awaiting, promoted>> /\ Reply(h, "accepted", ReplayKey(h))
    BY <1>12 DEF Repeat, client
  <2>2. awaiting[h.frame.req] = "draft" /\ ReplayKey(h) # NoKey => Kept(h.frame.req, ReplayKey(h))
    BY <1>8 DEF ReplayKey, RecordedKept
  <2> QED
    BY <1>10, <2>1, <2>2
<1>13. CASE ServerRestart
  <2>1. UNCHANGED <<promoted, awaiting>> /\ answers' = {} /\ \A r \in Req : requests'[r].key = NoKey
    BY <1>13 DEF ServerRestart, client, Unreserved
  <2> QED
    BY <1>1, <2>1 DEF RecordedKept, AnsweredKept, PromotedKept
<1>14. ASSUME NEW a \in answers, Accepted(a) \/ Failed(a) PROVE Keys'
  <2>1. a.req \in Req
    BY DEF TypeOK, Answers
  <2>2. /\ UNCHANGED requests /\ answers' \subseteq answers
        /\ awaiting' = [awaiting EXCEPT ![a.req] = "over"]
    BY <1>14 DEF Accepted, Failed, server
  <2>3. \A r \in Req : awaiting'[r] = "draft" => awaiting[r] = "draft"
    BY <2>1, <2>2 DEF TypeOK
  <2>4. \A r \in Req : promoted'[r] = promoted[r] \/
          (r = a.req /\ promoted'[r] = a.key /\ a.kind = "accepted" /\ awaiting[r] = "draft" /\ a.key # NoKey)
    BY <1>14, <2>1 DEF Accepted, Failed, TypeOK
  <2>5. PromotedKept'
    <3>1. ASSUME NEW r \in Req, promoted'[r] # NoKey PROVE Kept(r, promoted'[r])
      BY <2>4, <3>1 DEF PromotedKept, AnsweredKept
    <3> QED
      BY <1>1, <3>1 DEF PromotedKept
  <2>6. AnsweredKept' /\ RecordedKept'
    <3>1. \A c \in answers' : c \in answers /\ c.req \in Req
      BY <1>0, <2>2
    <3> QED
      BY <1>1, <2>2, <2>3, <3>1 DEF AnsweredKept, RecordedKept
  <2> QED
    BY <2>5, <2>6
<1>15. CASE UNCHANGED vars
  BY <1>2, <1>15 DEF vars, client, server
<1> QED
  BY <1>3, <1>4, <1>5, <1>6, <1>7, <1>9, <1>11, <1>12, <1>13, <1>14, <1>15
     DEF Next, User, Network, Server, Handle, Answer

(* Whatever is lost, repeated or restarted, and however the user switches  *)
(* sessions meanwhile: a draft only ever becomes a session its own request *)
(* created, and while that server lives its message ran there or is on its *)
(* way there past every error return.                                      *)
THEOREM PromotedCorrect == Spec => []PromotedWhereItRuns
<1> DEFINE IInv == Inv /\ Paths /\ Keys
<1>1. Init => IInv
  <2>1. Init => Inv
    BY InvInit
  <2>2. Init => Paths /\ Keys
    BY DEF Init, Unreserved, Paths, Keys, DraftsAreKeyless, UnsentIsQuiet, RecordedKept,
           AnsweredKept, PromotedKept
  <2> QED
    BY <2>1, <2>2
<1>2. IInv /\ [Next]_vars => IInv'
  <2>1. ASSUME Inv, Paths, [Next]_vars PROVE Paths'
    BY <2>1, PathsStep DEF Inv
  <2> QED
    BY <2>1, InvStep, KeysStep
<1>3. IInv => PromotedWhereItRuns
  <2> SUFFICES ASSUME IInv, NEW r \in Req, promoted[r] # NoKey
               PROVE  \E l \in 0..life : /\ promoted[r] = <<r, l>> /\ created[<<r, l>>] > 0
                                         /\ l = life => RanThere(r) \/ RunsNext(r)
    BY DEF PromotedWhereItRuns
  <2>1. Kept(r, promoted[r])
    BY DEF Keys, PromotedKept
  <2> QED
    BY <2>1 DEF Kept, RanHere, ToRun, RanThere, RunsNext
<1> QED
  BY <1>1, <1>2, <1>3, PTL DEF Spec

-----------------------------------------------------------------------------
(* No message is forgotten: what waits for an answer is noted in the       *)
(* outbox, so a new connection puts it under way again, and every step of  *)
(* the server hands it on towards the answer.                              *)

Noted == \A r \in Req : awaiting[r] \in {"draft", "keyed"} => outbox[r] # {}

LEMMA ForgottenStep ==
  ASSUME TypeOK, Noted, NoneForgotten, [Next]_vars PROVE Noted' /\ NoneForgotten'
<1>1. ASSUME NEW q \in Req, Submit(q) PROVE Noted' /\ NoneForgotten'
  <2> DEFINE body == [key |-> bound, form |-> "full"]
             new == [req |-> q, body |-> body, epoch |-> epoch, via |-> "submit"]
  <2>1. /\ frames' = frames \cup {new} /\ outbox' = [outbox EXCEPT ![q] = {body}]
        /\ UNCHANGED <<open, epoch, answers, handlers>> /\ open
    BY <1>1 DEF Submit, server
  <2>2. new.req = q /\ new.epoch = epoch
    OBVIOUS
  <2> HIDE DEF new, body
  <2>3. \A r \in Req : r # q => awaiting'[r] = awaiting[r] /\ outbox'[r] = outbox[r]
    BY <1>1, <2>1 DEF Submit, TypeOK
  <2>4. outbox'[q] = {body}
    BY <2>1 DEF TypeOK
  <2>5. UnderWay(q)'
    BY <2>1, <2>2 DEF UnderWay, Stale
  <2>6. \A r \in Req : UnderWay(r) => UnderWay(r)'
    BY <2>1 DEF UnderWay, Stale
  <2> QED
    BY <2>1, <2>3, <2>4, <2>5, <2>6 DEF Noted, NoneForgotten
<1>2. ASSUME NEW q \in Req, SubmitRefused(q) PROVE Noted' /\ NoneForgotten'
  BY <1>2 DEF SubmitRefused, TypeOK, Noted, NoneForgotten
<1>3. CASE Rebind \/ UNCHANGED vars
  <2>1. UNCHANGED <<open, epoch, frames, answers, handlers, outbox, awaiting>>
    BY <1>3 DEF Rebind, vars, client, server
  <2> QED
    BY <2>1 DEF Noted, NoneForgotten, UnderWay, Stale
<1>4. CASE Connect \/ Announce
  <2>1. \A r \in Req : outbox'[r] = Refresh(r) /\ (outbox[r] # {} => Refresh(r) # {})
    BY <1>4 DEF Connect, Announce, RecoverDrafts, Refresh
  <2>2. Noted'
    BY <1>4, <2>1 DEF Connect, Announce, Noted
  <2>3. CASE Connect
    <3>1. ASSUME NEW r \in Req, NEW b \in Refresh(r) PROVE UnderWay(r)'
      <4> DEFINE f == [req |-> r, body |-> b, epoch |-> epoch + 1, via |-> "resend"]
      <4>1. f \in frames' /\ f.req = r /\ f.epoch = epoch' /\ open'
        BY <2>3 DEF Connect
      <4> QED
        BY <4>1 DEF UnderWay, Stale
    <3> QED
      BY <2>1, <2>2, <2>3, <3>1 DEF Connect, Noted, NoneForgotten
  <2>4. CASE Announce
    <3>1. frames \subseteq frames' /\ UNCHANGED <<open, epoch, answers, handlers, awaiting>>
      BY <2>4 DEF Announce, server
    <3>2. \A r \in Req : UnderWay(r) => UnderWay(r)'
      BY <3>1 DEF UnderWay, Stale
    <3>3. open
      BY <2>4 DEF Announce
    <3>4. \A r \in Req : awaiting[r] \in {"draft", "keyed"} => UnderWay(r)'
      BY <3>2, <3>3 DEF NoneForgotten
    <3> QED
      BY <2>2, <3>1, <3>4 DEF NoneForgotten
  <2> QED
    BY <1>4, <2>2, <2>3, <2>4
<1>5. CASE Drop \/ ServerRestart
  <2>1. ~open' /\ UNCHANGED <<outbox, awaiting>>
    BY <1>5 DEF Drop, ServerRestart, client
  <2> QED
    BY <2>1 DEF Noted, NoneForgotten
<1>6. ASSUME NEW f \in frames, Receive(f) PROVE Noted' /\ NoneForgotten'
  <2>1. /\ frames' = frames \ {f} /\ handlers \subseteq handlers'
        /\ UNCHANGED <<open, epoch, answers, outbox, awaiting>>
    BY <1>6 DEF Receive, client
  <2>3. \E stage \in {"first", "repeat"} : [frame |-> f, stage |-> stage] \in handlers'
    BY <1>6 DEF Receive
  <2>4. \E h \in handlers' : h.frame = f /\ h.stage # "answered"
    BY <2>3
  <2>2. \A r \in Req : UnderWay(r) => UnderWay(r)'
    BY <2>1, <2>4 DEF UnderWay, Stale
  <2> QED
    BY <2>1, <2>2 DEF Noted, NoneForgotten
<1>7. ASSUME NEW h \in handlers, Confirm(h) \/ Refuse(h) \/ Repeat(h)
      PROVE  Noted' /\ NoneForgotten'
  <2>1. /\ handlers \ {h} \subseteq handlers'
        /\ UNCHANGED <<open, epoch, frames, outbox, awaiting>>
    BY <1>7 DEF Confirm, Refuse, Repeat, Ends, MovesTo, client
  <2>2. /\ answers \subseteq answers'
        /\ Stale(h.frame) \/ \E a \in answers' : a.req = h.frame.req
    <3>1. \E kind, k : Reply(h, kind, k)
      BY <1>7 DEF Confirm, Refuse, Repeat
    <3>2. PICK kind, k : Reply(h, kind, k)
      BY <3>1
    <3> DEFINE a == [req |-> h.frame.req, kind |-> kind, key |-> k]
    <3>3. answers' = answers \/ answers' = answers \cup {a}
      BY <3>2 DEF Reply
    <3>4. Stale(h.frame) \/ a \in answers'
      BY <3>2 DEF Reply
    <3>5. a.req = h.frame.req
      OBVIOUS
    <3> QED
      BY <3>3, <3>4, <3>5
  <2>3. \A r \in Req : UnderWay(r) => UnderWay(r)'
    BY <2>1, <2>2 DEF UnderWay, Stale
  <2> QED
    BY <2>1, <2>3 DEF Noted, NoneForgotten
<1>9. ASSUME NEW h \in handlers, Create(h) \/ Record(h) PROVE Noted' /\ NoneForgotten'
  <2>1. UNCHANGED <<open, epoch, frames, answers, outbox, awaiting>>
    BY <1>9 DEF Create, Record, client
  <2>2. PICK stage \in {"ready", "recorded"} : MovesTo(h, stage)
    BY <1>9 DEF Create, Record
  <2>3. \E g \in handlers' : g.frame = h.frame /\ g.stage # "answered"
    BY <2>2, HandlerTypes DEF MovesTo, Stages
  <2>4. handlers \ {h} \subseteq handlers'
    BY <2>2 DEF MovesTo
  <2>5. \A r \in Req : UnderWay(r) => UnderWay(r)'
    BY <2>1, <2>3, <2>4 DEF UnderWay, Stale
  <2> QED
    BY <2>1, <2>5 DEF Noted, NoneForgotten
<1>10. ASSUME NEW h \in handlers, HandOver(h) PROVE Noted' /\ NoneForgotten'
  <2>1. /\ UNCHANGED <<open, epoch, frames, answers, outbox, awaiting>>
        /\ handlers' = handlers \ {h} /\ h.stage = "answered"
    BY <1>10 DEF HandOver, At, Ends, client
  <2>2. \A r \in Req : UnderWay(r) => UnderWay(r)'
    BY <2>1 DEF UnderWay, Stale
  <2> QED
    BY <2>1, <2>2 DEF Noted, NoneForgotten
<1>8. ASSUME NEW a \in answers, Accepted(a) \/ Failed(a) PROVE Noted' /\ NoneForgotten'
  <2>1. /\ UNCHANGED <<open, epoch, frames, handlers>> /\ answers' = answers \ {a}
        /\ awaiting' = [awaiting EXCEPT ![a.req] = "over"]
        /\ outbox' = [outbox EXCEPT ![a.req] = {}]
    BY <1>8 DEF Accepted, Failed, server
  <2>2. awaiting'[a.req] = "over"
    BY <2>1 DEF TypeOK, Answers
  <2>3. \A r \in Req : r # a.req => awaiting'[r] = awaiting[r] /\ outbox'[r] = outbox[r]
    BY <2>1 DEF TypeOK
  <2>4. \A r \in Req : r # a.req /\ UnderWay(r) => UnderWay(r)'
    BY <2>1 DEF UnderWay, Stale
  <2> QED
    BY <2>1, <2>2, <2>3, <2>4 DEF Noted, NoneForgotten
<1> QED
  BY <1>1, <1>2, <1>3, <1>4, <1>5, <1>6, <1>7, <1>8, <1>9, <1>10
     DEF Next, User, Network, Server, Handle, Answer

(* On an open connection every unanswered message is on its way to its     *)
(* answer, for any number of messages, drops, repeats and restarts.        *)
THEOREM ForgottenCorrect == Spec => []NoneForgotten
<1> DEFINE IInv == Inv /\ Noted /\ NoneForgotten
<1>1. Init => IInv
  <2>1. Init => Inv
    BY InvInit
  <2>2. Init => Noted /\ NoneForgotten
    BY DEF Init, Noted, NoneForgotten
  <2> QED
    BY <2>1, <2>2
<1>2. IInv /\ [Next]_vars => IInv'
  <2>1. ASSUME Inv, Noted, NoneForgotten, [Next]_vars PROVE Noted' /\ NoneForgotten'
    BY <2>1, ForgottenStep DEF Inv
  <2> QED
    BY <2>1, InvStep
<1> QED
  BY <1>1, <1>2, PTL DEF Spec
=============================================================================
