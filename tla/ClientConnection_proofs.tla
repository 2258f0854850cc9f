---------------------- MODULE ClientConnection_proofs ----------------------
(* Theorems of ClientConnection for all timings and any set of nodes.      *)
EXTENDS ClientConnection, TLAPS

(* Without a project there is no socket and nothing that could open one.   *)
Idle ==
  ~root => /\ ws = "none" /\ reconnect = Off /\ lifecycle = Off
           /\ probe = Off /\ pong = Off

(* The reconnect timer runs only while there is no socket.                 *)
RetryAlone == reconnect # Off => ws = "none"

(* Whatever is not open is replaced by the next run of the watchdog.       *)
Waiting == root /\ ws # "open" => since + watchdog <= ReconnectWatchdog

(* What is left of an open socket's silence: until the watchdog probes, or *)
(* until the probe, and the one after it, time out.                        *)
Probing ==
  ws = "open" =>
    /\ probe = Off => failures = 0 /\ pong = Off /\ since + watchdog <= ReconnectWatchdog
    /\ \A p \in probe :
         /\ failures = 0 => since + p <= ReconnectWatchdog + ProbeTimeout
         /\ failures = 1 => since + p <= Quiet

Inv == TypeOK /\ Idle /\ RetryAlone /\ Waiting /\ Probing /\ RightNode

(* A probed link that works answers before the second timeout.             *)
Answering ==
  ws = "open" /\ alive /\ probe # Off =>
    /\ pong # Off
    /\ \A p \in probe, q \in pong :
         /\ failures = 0 => q < p + ProbeTimeout
         /\ failures = 1 => q < p

-----------------------------------------------------------------------------
LEMMA Constants ==
  /\ ReconnectWatchdog \in Nat \ {0} /\ ConnectTimeout \in Nat \ {0}
  /\ ProbeTimeout \in Nat \ {0} /\ FastDelay \in Nat \ {0}
  /\ LifecycleDelay \in Nat \ {0} /\ Handshake \in Nat /\ PongDelay \in Nat \ {0}
  /\ MaxOps \in Nat /\ Quiet = ReconnectWatchdog + ProbeTimeout + ProbeTimeout /\ Quiet \in Nat
  /\ maxConsecutiveProbeFailures = 2
BY TimesAssumption DEF Quiet, maxConsecutiveProbeFailures

(* A timer that is not due still has a time to run after a tick.           *)
LEMMA TimerTicks ==
  ASSUME NEW n \in Nat, NEW t \in Timer(n), ~Due(t)
  PROVE  /\ Ticked(t) \in Timer(n)
         /\ Ticked(t) = Off <=> t = Off
         /\ \A k \in Ticked(t) : k \in Nat /\ k + 1 \in t
<1>1. CASE t = Off
  BY <1>1 DEF Off, Ticked, Timer
<1>2. CASE \E k \in 0..n : t = {k}
  <2>1. PICK k \in 0..n : t = {k}
    BY <1>2
  <2>2. k # 0
    BY <2>1 DEF Due
  <2>3. Ticked(t) = {k - 1} /\ k - 1 \in 0..n
    BY <2>1, <2>2 DEF Ticked
  <2>4. Ticked(t) \in Timer(n)
    BY <2>3 DEF Timer, In
  <2>5. Ticked(t) # Off /\ t # Off
    BY <2>1, <2>3 DEF Off
  <2>6. \A j \in Ticked(t) : j = k - 1
    BY <2>3
  <2>7. k - 1 \in Nat /\ (k - 1) + 1 \in t
    BY <2>1, <2>3
  <2> QED BY <2>4, <2>5, <2>6, <2>7
<1> QED BY <1>1, <1>2 DEF Timer, In

LEMMA TimerSet ==
  ASSUME NEW n \in Nat
  PROVE  /\ In(n) \in Timer(n) /\ Off \in Timer(n) /\ In(n) # Off
         /\ \A k \in In(n) : k = n
         /\ \A t \in Timer(n) : t # Off => \E k \in 0..n : t = {k}
BY DEF In, Off, Timer

LEMMA TimerTypes ==
  /\ \A n \in {FastDelay, LifecycleDelay, ProbeTimeout, PongDelay} :
       Off \in Timer(n) /\ In(n) \in Timer(n) /\ In(n) # Off
  /\ Off = {}
BY Constants, TimerSet DEF Off

(* The arithmetic of a reset clock and of a tick, of constants.            *)
LEMMA Sums ==
  /\ \A w \in 0..ReconnectWatchdog : 0 + w <= ReconnectWatchdog
  /\ \A s, t, w \in Nat : t <= s + 1 /\ s + w <= ReconnectWatchdog
       => t + (w - 1) <= ReconnectWatchdog
  /\ \A s, t, p, n \in Nat : t <= s + 1 /\ s + (p + 1) <= n => t + p <= n
BY Constants

(* The flags and the rest of the type invariant are proved apart.          *)
Flags == root \in BOOLEAN /\ reachable \in BOOLEAN /\ alive \in BOOLEAN

Rest ==
  /\ node \in Nodes /\ target \in Nodes
  /\ ws \in {"none", "connecting", "open", "closing"}
  /\ since \in 0..(Quiet + 1) /\ watchdog \in 0..ReconnectWatchdog
  /\ reconnect \in Timer(FastDelay) /\ lifecycle \in Timer(LifecycleDelay)
  /\ probe \in Timer(ProbeTimeout) /\ pong \in Timer(PongDelay)
  /\ failures \in 0..1 /\ ops \in 0..MaxOps

LEMMA TypeParts == (TypeOK <=> Flags /\ Rest) /\ (TypeOK' <=> Flags' /\ Rest')
<1>1. 0..(maxConsecutiveProbeFailures - 1) = 0..1
  BY Constants
<1> QED BY <1>1 DEF TypeOK, Flags, Rest

LEMMA InvInit == Init => Inv
<1> SUFFICES ASSUME Init PROVE Inv
  OBVIOUS
<1> USE Constants, TimerTypes
<1>1. Flags /\ Rest
  <2>1. Flags
    BY DEF Init, Flags
  <2>2. Rest
    BY DEF Init, Rest
  <2> QED BY <2>1, <2>2
<1> QED BY <1>1, TypeParts DEF Init, Inv, Idle, RetryAlone, Waiting, Probing, RightNode

-----------------------------------------------------------------------------
(* A fresh socket to the current node restores everything.                 *)
LEMMA FreshSocket ==
  ASSUME Inv, NEW n \in Nodes, NewSocket(n), root' = TRUE, node' = n,
         watchdog' \in 0..ReconnectWatchdog, lifecycle' \in Timer(LifecycleDelay),
         failures' \in 0..1, UNCHANGED reachable, ops' \in 0..MaxOps
  PROVE  Inv'
<1> USE Constants, TimerTypes DEF NewSocket
<1>1. TypeOK'
  <2>1. Flags'
    BY DEF Flags, Inv, TypeOK
  <2>2. Rest'
    BY DEF Rest, Inv, TypeOK
  <2> QED BY <2>1, <2>2, TypeParts
<1>2. since' + watchdog' <= ReconnectWatchdog
  BY Sums DEF NewSocket
<1> QED BY <1>1, <1>2 DEF Inv, Idle, RetryAlone, Waiting, Probing, RightNode

(* A probe may be sent on an open socket that waits for the watchdog.      *)
LEMMA ProbeSent ==
  ASSUME Inv, root, ws = "open", SendProbe, since + watchdog <= ReconnectWatchdog \/ probe # Off,
         UNCHANGED <<root, node, failures, reachable, ops>>,
         probe = Off => since <= ReconnectWatchdog,
         watchdog' \in 0..ReconnectWatchdog, lifecycle' \in Timer(LifecycleDelay)
  PROVE  Inv'
<1> USE Constants, TimerTypes DEF Inv, SendProbe
<1>1. TypeOK'
  BY DEF TypeOK
<1>2. Idle' /\ RetryAlone' /\ Waiting' /\ RightNode'
  BY DEF Idle, RetryAlone, Waiting, RightNode
<1>3. Probing'
  <2>1. CASE probe = Off
    <3>1. since \in Nat /\ since <= ReconnectWatchdog /\ probe' = In(ProbeTimeout) /\ failures = 0
      BY <2>1 DEF TypeOK, Probing
    <3>2. \A p \in probe' : p = ProbeTimeout
      BY <3>1 DEF In
    <3>3. since + ProbeTimeout <= ReconnectWatchdog + ProbeTimeout
      BY <3>1
    <3>4. since' = since /\ failures' = failures
      OBVIOUS
    <3>5. \A p \in probe' : since' + p <= ReconnectWatchdog + ProbeTimeout
      BY <3>2, <3>3, <3>4
    <3>6. probe' # Off /\ failures' # 1
      BY <3>1, <3>4
    <3> QED BY <3>5, <3>6 DEF Probing
  <2>2. CASE probe # Off
    BY <2>2 DEF Probing, TypeOK
  <2> QED BY <2>1, <2>2
<1> QED BY <1>1, <1>2, <1>3

LEMMA InvStep == ASSUME Inv, [Next]_vars PROVE Inv'
<1> USE Constants
<1>1. ASSUME NEW n \in Nodes, Connect(n) PROVE Inv'
  <2>1. ops' \in 0..MaxOps /\ root' = TRUE /\ node' = n
    BY <1>1 DEF Connect, Inv, TypeOK
  <2>2. CASE ~Lost /\ SameNode(n) /\ ~TooOld
    <3>1. KeepSocket /\ n = node /\ root
      BY <1>1, <2>2 DEF Connect, SameNode, Lost, Inv, Idle
    <3> QED BY <1>1, <2>1, <3>1
            DEF Connect, KeepSocket, Inv, TypeOK, Idle, RetryAlone, Waiting, Probing, RightNode
  <2>3. CASE ~(~Lost /\ SameNode(n) /\ ~TooOld)
    BY <1>1, <2>1, <2>3, FreshSocket DEF Connect, Inv, TypeOK, maxConsecutiveProbeFailures
  <2> QED BY <2>2, <2>3
<1>2. CASE Disconnect
  <2>1. TypeOK'
    <3>1. Flags'
      BY <1>2 DEF Disconnect, Flags, Inv, TypeOK
    <3>2. Rest'
      BY <1>2, TimerTypes DEF Disconnect, Rest, Inv, TypeOK
    <3> QED BY <3>1, <3>2, TypeParts
  <2>2. Idle' /\ RetryAlone' /\ RightNode'
    BY <1>2 DEF Disconnect, Inv, Idle, RetryAlone, RightNode
  <2>3. Waiting' /\ Probing'
    BY <1>2, TimerSet DEF Disconnect, Inv, TypeOK, Idle, RetryAlone, Waiting, Probing
  <2> QED BY <2>1, <2>2, <2>3 DEF Inv
<1>3. CASE Opened
  <2>1. TypeOK'
    <3>1. Flags'
      BY <1>3 DEF Opened, HandshakeDone, Flags, Inv, TypeOK
    <3>2. Rest'
      BY <1>3, TimerTypes DEF Opened, HandshakeDone, Rest, Inv, TypeOK
    <3> QED BY <3>1, <3>2, TypeParts
  <2>2. Idle' /\ RetryAlone' /\ RightNode'
    BY <1>3 DEF Opened, HandshakeDone, Inv, Idle, RetryAlone, RightNode
  <2>3. Waiting' /\ Probing'
    <3>1. since' = 0 /\ watchdog' \in 0..ReconnectWatchdog /\ probe' = Off /\ pong' = Off /\ failures' = 0
      BY <1>3 DEF Opened, Inv, TypeOK
    <3>2. since' + watchdog' <= ReconnectWatchdog /\ \A p \in probe' : FALSE
      BY <3>1, Sums DEF Off
    <3> QED BY <3>1, <3>2 DEF Waiting, Probing
  <2> QED BY <2>1, <2>2, <2>3 DEF Inv
<1>4. CASE Message
  <2>1. TypeOK'
    <3>1. Flags'
      BY <1>4 DEF Message, Flags, Inv, TypeOK
    <3>2. Rest'
      BY <1>4, TimerTypes DEF Message, Rest, Inv, TypeOK
    <3> QED BY <3>1, <3>2, TypeParts
  <2>2. Idle' /\ RetryAlone' /\ RightNode'
    BY <1>4 DEF Message, Inv, Idle, RetryAlone, RightNode
  <2>3. Waiting' /\ Probing'
    <3>1. since' = 0 /\ watchdog' \in 0..ReconnectWatchdog /\ probe' = Off /\ pong' = Off /\ failures' = 0
      BY <1>4 DEF Message, Inv, TypeOK
    <3>2. since' + watchdog' <= ReconnectWatchdog /\ \A p \in probe' : FALSE
      BY <3>1, Sums DEF Off
    <3> QED BY <3>1, <3>2 DEF Waiting, Probing
  <2> QED BY <2>1, <2>2, <2>3 DEF Inv
<1>5. CASE ServerCloses
  <2>1. TypeOK'
    <3>1. Flags'
      BY <1>5 DEF ServerCloses, Flags, Inv, TypeOK
    <3>2. Rest'
      BY <1>5, TimerTypes DEF ServerCloses, Rest, Inv, TypeOK
    <3> QED BY <3>1, <3>2, TypeParts
  <2>2. Idle' /\ RetryAlone' /\ RightNode'
    BY <1>5 DEF ServerCloses, Inv, Idle, RetryAlone, RightNode
  <2>3. Waiting' /\ Probing'
    BY <1>5, TimerSet DEF ServerCloses, Inv, TypeOK, Idle, RetryAlone, Waiting, Probing
  <2> QED BY <2>1, <2>2, <2>3 DEF Inv
<1>6. CASE Closed
  <2>1. TypeOK'
    <3>1. Flags'
      BY <1>6 DEF Closed, Flags, Inv, TypeOK
    <3>2. Rest'
      BY <1>6, TimerTypes DEF Closed, Rest, Inv, TypeOK
    <3> QED BY <3>1, <3>2, TypeParts
  <2>2. Idle' /\ RetryAlone' /\ RightNode'
    BY <1>6 DEF Closed, Inv, Idle, RetryAlone, RightNode
  <2>3. Waiting' /\ Probing'
    BY <1>6, TimerSet DEF Closed, Inv, TypeOK, Idle, RetryAlone, Waiting, Probing
  <2> QED BY <2>1, <2>2, <2>3 DEF Inv
<1>7. CASE Retry
  <2>1. root /\ ws # "open"
    BY <1>7 DEF Retry, RetryDue, Due, TimedOut, Off, Inv, Idle, RetryAlone
  <2>2. CASE Lost \/ TimedOut
    BY <1>7, <2>1, <2>2, FreshSocket DEF Retry, Inv, TypeOK
  <2>3. CASE ~(Lost \/ TimedOut)
    BY <1>7, <2>3 DEF Retry, RetryDue, Due, Lost, Off, Inv, RetryAlone
  <2> QED BY <2>2, <2>3
<1>8. CASE WatchdogFires
  <2>1. CASE ~root
    BY <1>8, <2>1 DEF WatchdogFires, EnsureReconnectLoop, KeepSocket,
                      Inv, TypeOK, Idle, RetryAlone, Waiting, Probing, RightNode
  <2>2. CASE root /\ ws = "open"
    <3>1. SendProbe
      BY <1>8, <2>2 DEF WatchdogFires, EnsureReconnectLoop
    <3>2. probe = Off => since <= ReconnectWatchdog /\ since + watchdog <= ReconnectWatchdog
      BY <1>8, <2>2 DEF WatchdogFires, Inv, Probing, TypeOK
    <3> QED BY <1>8, <2>2, <3>1, <3>2, ProbeSent DEF WatchdogFires, Inv, TypeOK
  <2>3. CASE root /\ ws # "open"
    BY <1>8, <2>3, FreshSocket DEF WatchdogFires, EnsureReconnectLoop, Inv, TypeOK
  <2> QED BY <2>1, <2>2, <2>3
<1>9. CASE LifecycleEvent
  BY <1>9, TimerSet
     DEF LifecycleEvent, Inv, TypeOK, Idle, RetryAlone, Waiting, Probing, RightNode
<1>10. CASE LifecycleCheck
  <2>1. root /\ lifecycle' \in Timer(LifecycleDelay)
    BY <1>10, TimerSet DEF LifecycleCheck, Due, Off, Inv, Idle
  <2>2. CASE Lost \/ TooOld
    BY <1>10, <2>1, <2>2, FreshSocket 
       DEF LifecycleCheck, Lost, TooOld, Inv, TypeOK
  <2>3. CASE ~(Lost \/ TooOld) /\ ws = "open"
    <3>1. SendProbe
      BY <1>10, <2>3 DEF LifecycleCheck
    <3>2. probe = Off => since <= ReconnectWatchdog /\ since + watchdog <= ReconnectWatchdog
      BY <2>3 DEF Inv, Probing, TypeOK
    <3> QED BY <1>10, <2>1, <2>3, <3>1, <3>2, ProbeSent DEF LifecycleCheck, Inv, TypeOK
  <2>4. CASE ~(Lost \/ TooOld) /\ ws # "open"
    BY <1>10, <2>1, <2>4
       DEF LifecycleCheck, KeepSocket,
           Inv, TypeOK, Idle, RetryAlone, Waiting, Probing, RightNode
  <2> QED BY <2>2, <2>3, <2>4
<1>11. CASE ProbeTimesOut
  <2>1. root /\ failures' \in 0..1 /\ probe # Off
    BY <1>11 DEF ProbeTimesOut, LastFailure, Due, Off, Inv, Idle, TypeOK
  <2>2. CASE LastFailure \/ ws # "open"
    BY <1>11, <2>1, <2>2, FreshSocket DEF ProbeTimesOut, Inv, TypeOK
  <2>3. CASE ~LastFailure /\ ws = "open"
    <3>1. failures = 0 /\ failures' = 1 /\ probe' = In(ProbeTimeout)
      BY <1>11, <2>3 DEF ProbeTimesOut, LastFailure, Inv, TypeOK
    <3>2. since <= ReconnectWatchdog + ProbeTimeout
      BY <1>11, <2>3, <3>1 DEF ProbeTimesOut, Due, Inv, Probing, TypeOK
    <3>3. TypeOK'
      BY <1>11, <2>3, <3>1, TimerSet DEF ProbeTimesOut, Inv, TypeOK
    <3>4. Probing'
      BY <1>11, <2>3, <3>1, <3>2, TimerSet DEF ProbeTimesOut, Probing, Inv, TypeOK
    <3> QED BY <1>11, <2>1, <2>3, <3>3, <3>4
            DEF ProbeTimesOut, Inv, Idle, RetryAlone, Waiting, RightNode
  <2> QED BY <2>2, <2>3
<1>12. CASE NetworkChanges
  BY <1>12 DEF NetworkChanges, timers, Inv, TypeOK, Idle, RetryAlone, Waiting, Probing, RightNode
<1>13. CASE LinkDies
  BY <1>13, TimerSet DEF LinkDies, Inv, TypeOK, Idle, RetryAlone, Waiting, Probing, RightNode
<1>14. CASE Tick
  <2>1. /\ reconnect' \in Timer(FastDelay) /\ lifecycle' \in Timer(LifecycleDelay)
        /\ probe' \in Timer(ProbeTimeout) /\ pong' \in Timer(PongDelay)
        /\ reconnect' = Off <=> reconnect = Off
        /\ lifecycle' = Off <=> lifecycle = Off
        /\ probe' = Off <=> probe = Off
        /\ pong' = Off <=> pong = Off
        /\ \A p \in probe' : p \in Nat /\ p + 1 \in probe
    BY <1>14, TimerTicks DEF Tick, RetryDue, Inv, TypeOK
  <2>2. TypeOK'
    BY <1>14, <2>1 DEF Tick, Inv, TypeOK
  <2>3. Idle' /\ RetryAlone' /\ Waiting' /\ RightNode'
    BY <1>14, <2>1 DEF Tick, Inv, TypeOK, Idle, RetryAlone, Waiting, RightNode
  <2>4. Probing'
    <3>1. ws' = ws /\ failures' = failures /\ since' <= since + 1 /\ watchdog' = watchdog - 1
      BY <1>14 DEF Tick, Inv, TypeOK
    <3>2. CASE probe = Off
      <4>1. probe' = Off /\ (pong = Off <=> pong' = Off)
        BY <2>1, <3>2
      <4>2. since \in Nat /\ since' \in Nat /\ watchdog \in Nat
        BY <2>2 DEF Inv, TypeOK
      <4>3. ws = "open" => failures = 0 /\ pong = Off /\ since + watchdog <= ReconnectWatchdog
        BY <3>2 DEF Inv, Probing
      <4>4. ws = "open" => since' + watchdog' <= ReconnectWatchdog
        <5>1. watchdog' = watchdog - 1 /\ since' <= since + 1
          BY <3>1
        <5>2. ws = "open" => since' + (watchdog - 1) <= ReconnectWatchdog
          BY <5>1, <4>2, <4>3, Sums
        <5> QED BY <5>1, <5>2
      <4>5. \A p \in probe' : FALSE
        BY <4>1 DEF Off
      <4> QED BY <3>1, <4>1, <4>3, <4>4, <4>5 DEF Probing
    <3>3. CASE probe # Off
      <4> SUFFICES ASSUME ws = "open", NEW p \in probe'
                   PROVE  /\ failures = 0 => since' + p <= ReconnectWatchdog + ProbeTimeout
                          /\ failures = 1 => since' + p <= Quiet
        BY <2>1, <3>1, <3>3 DEF Probing
      <4>1. p \in Nat /\ p + 1 \in probe
        BY <2>1
      <4> HIDE DEF Inv
      <4>2. since \in Nat /\ since' \in Nat
        BY <2>2 DEF Inv, TypeOK
      <4>3. /\ failures = 0 => since + (p + 1) <= ReconnectWatchdog + ProbeTimeout
            /\ failures = 1 => since + (p + 1) <= Quiet
        BY <4>1 DEF Inv, Probing
      <4>4. since' <= since + 1 /\ ReconnectWatchdog + ProbeTimeout \in Nat
        BY <3>1
      <4>5. failures = 0 => since' + p <= ReconnectWatchdog + ProbeTimeout
        BY <4>1, <4>2, <4>3, <4>4, Sums
      <4>6. failures = 1 => since' + p <= Quiet
        BY <4>1, <4>2, <4>3, <4>4, Sums
      <4> QED BY <4>5, <4>6
    <3> QED BY <3>2, <3>3
  <2> QED BY <2>2, <2>3, <2>4 DEF Inv
<1>15. CASE UNCHANGED vars
  BY <1>15 DEF vars, timers, Inv, TypeOK, Idle, RetryAlone, Waiting, Probing, RightNode
<1> QED
  BY <1>1, <1>2, <1>3, <1>4, <1>5, <1>6, <1>7, <1>8, <1>9, <1>10, <1>11, <1>12,
     <1>13, <1>14, <1>15 DEF Next, App, Socket, Timers, Network

(* The invariant gives the two safety properties.                          *)
LEMMA InvBounds == Inv => TypeOK /\ SilenceIsBounded /\ RightNode
<1> SUFFICES ASSUME Inv PROVE TypeOK /\ SilenceIsBounded /\ RightNode
  OBVIOUS
<1> USE Constants
<1>1. since \in Nat /\ watchdog \in Nat /\ failures \in 0..1
  BY TypeParts DEF Inv, Rest
<1>2. ASSUME root, ws = "open" PROVE since <= Quiet
  <2>1. CASE probe = Off
    BY <1>1, <1>2, <2>1 DEF Inv, Probing
  <2>2. CASE probe # Off
    <3>1. PICK p \in 0..ProbeTimeout : p \in probe
      BY <2>2, TimerSet DEF Inv, TypeOK
    <3>2. since + p <= ReconnectWatchdog + ProbeTimeout \/ since + p <= Quiet
      BY <1>1, <1>2, <3>1 DEF Inv, Probing
    <3> QED BY <1>1, <3>1, <3>2
  <2> QED BY <2>1, <2>2
<1>3. ASSUME root, ws # "open" PROVE since <= ReconnectWatchdog
  BY <1>1, <1>3 DEF Inv, Waiting
<1> QED BY <1>2, <1>3 DEF Inv, SilenceIsBounded

LEMMA InvCorrect == Spec => []Inv
<1>1. Init => Inv
  BY InvInit
<1>2. Inv /\ [Next]_vars => Inv'
  BY InvStep
<1> QED BY <1>1, <1>2, PTL DEF Spec

(* Every state of the connection has its type: never more than one timeout *)
(* of a probe is counted (SessionConnectionManager).                       *)
THEOREM ConnectionTypeCorrect == Spec => []TypeOK
BY InvCorrect, InvBounds, PTL

(* For all timings, an open socket is silent for at most one period of the *)
(* watchdog and two probe timeouts, and a lost one is replaced within one  *)
(* period (ensureReconnectLoop, probeConnection).                          *)
THEOREM SilenceCorrect == Spec => []SilenceIsBounded
BY InvCorrect, InvBounds, PTL

(* The socket always goes to the node of the open project (connect).       *)
THEOREM RightNodeCorrect == Spec => []RightNode
BY InvCorrect, InvBounds, PTL

-----------------------------------------------------------------------------
(* A link whose answers take less than two probe timeouts.                 *)
Responsive == PongDelay < ProbeTimeout + ProbeTimeout

LEMMA PongInTime ==
  Responsive => \A p \in In(ProbeTimeout), q \in In(PongDelay) : q < p + ProbeTimeout
BY Constants DEF Responsive, In

LEMMA TickedBelow ==
  /\ \A p, q \in Nat : q + 1 < (p + 1) + ProbeTimeout => q < p + ProbeTimeout
  /\ \A p, q \in Nat : q + 1 < p + 1 => q < p
BY Constants

(* The first probe goes out together with the wait for its answer.         *)
LEMMA AnsweringProbe ==
  ASSUME Inv, Answering, Responsive, SendProbe, UNCHANGED failures
  PROVE  Answering'
<1> SUFFICES ASSUME ws = "open", alive PROVE Answering'
  BY DEF SendProbe, Answering
<1>1. CASE probe # Off
  BY <1>1 DEF SendProbe, Answering
<1>2. CASE probe = Off
  <2>1. probe' = In(ProbeTimeout) /\ pong' = In(PongDelay) /\ failures = 0
    BY <1>2 DEF SendProbe, Inv, Probing
  <2>2. \A p \in probe', q \in pong' : q < p + ProbeTimeout
    BY <2>1, PongInTime
  <2>3. pong' # Off /\ failures' # 1
    BY <2>1, TimerTypes, Constants
  <2> QED BY <2>2, <2>3 DEF Answering
<1> QED BY <1>1, <1>2

LEMMA AnsweringStep ==
  ASSUME Inv, Answering, Responsive, [Next]_vars
  PROVE  Answering'
<1> USE Constants
<1>1. CASE UNCHANGED <<ws, alive, probe, pong, failures>>
  BY <1>1 DEF Answering
<1>2. CASE probe' = Off \/ ws' # "open" \/ ~alive'
  BY <1>2 DEF Answering
<1>3. CASE SendProbe /\ UNCHANGED failures
  BY <1>3, AnsweringProbe
<1>4. CASE ProbeTimesOut
  <2>1. CASE LastFailure \/ ws # "open"
    BY <1>2, <1>4, <2>1 DEF ProbeTimesOut, NewSocket
  <2>2. CASE ~LastFailure /\ ws = "open" /\ ~alive
    BY <1>2, <1>4, <2>2 DEF ProbeTimesOut
  <2>3. CASE ~LastFailure /\ ws = "open" /\ alive
    <3>1. failures = 0 /\ failures' = 1 /\ probe' = In(ProbeTimeout) /\ 0 \in probe
      BY <1>4, <2>3 DEF ProbeTimesOut, LastFailure, Due, Inv, TypeOK
    <3>2. pong # Off /\ \A q \in pong : q < 0 + ProbeTimeout
      BY <2>3, <3>1 DEF Answering, Off
    <3>3. pong' = pong
      BY <1>4, <2>3, <3>2 DEF ProbeTimesOut
    <3>4. \A q \in pong : q < ProbeTimeout
      BY <3>2
    <3>5. \A p \in probe' : p = ProbeTimeout
      BY <3>1 DEF In
    <3>6. failures' # 0
      BY <3>1
    <3> QED BY <3>2, <3>3, <3>4, <3>5, <3>6 DEF Answering
  <2> QED BY <2>1, <2>2, <2>3
<1>5. CASE Tick
  <2>1. /\ probe' = Off <=> probe = Off
        /\ pong' = Off <=> pong = Off
        /\ \A p \in probe' : p \in Nat /\ p + 1 \in probe
        /\ \A q \in pong' : q \in Nat /\ q + 1 \in pong
    BY <1>5, TimerTicks DEF Tick, Inv, TypeOK
  <2>2. ws' = ws /\ alive' = alive /\ failures' = failures
    BY <1>5 DEF Tick
  <2> SUFFICES ASSUME ws = "open", alive, probe # Off, NEW p \in probe', NEW q \in pong'
               PROVE  /\ failures = 0 => q < p + ProbeTimeout
                      /\ failures = 1 => q < p
    BY <2>1, <2>2 DEF Answering
  <2>3. p \in Nat /\ q \in Nat /\ p + 1 \in probe /\ q + 1 \in pong
    BY <2>1
  <2>4. /\ failures = 0 => q + 1 < (p + 1) + ProbeTimeout
        /\ failures = 1 => q + 1 < p + 1
    BY <2>3 DEF Answering
  <2> QED BY <2>3, <2>4, TickedBelow
<1>6. ASSUME NEW n \in Nodes, Connect(n) PROVE Answering'
  <2>1. NewSocket(n) \/ (KeepSocket /\ UNCHANGED failures)
    BY <1>6 DEF Connect
  <2> QED BY <1>1, <1>2, <2>1 DEF NewSocket, KeepSocket
<1>7. CASE Retry
  BY <1>1, <1>2, <1>7 DEF Retry, NewSocket
<1>8. CASE WatchdogFires
  <2>1. NewSocket(node) \/ (KeepSocket /\ UNCHANGED failures) \/ (SendProbe /\ UNCHANGED failures)
    BY <1>8 DEF WatchdogFires, EnsureReconnectLoop, NewSocket, KeepSocket, SendProbe
  <2> QED BY <1>1, <1>2, <1>3, <2>1 DEF NewSocket, KeepSocket
<1>9. CASE LifecycleCheck
  <2>1. NewSocket(node) \/ (KeepSocket /\ UNCHANGED failures) \/ (SendProbe /\ UNCHANGED failures)
    BY <1>9 DEF LifecycleCheck, NewSocket, KeepSocket, SendProbe
  <2> QED BY <1>1, <1>2, <1>3, <2>1 DEF NewSocket, KeepSocket
<1>10. CASE Disconnect \/ Opened \/ Message \/ ServerCloses \/ Closed
  BY <1>2, <1>10 DEF Disconnect, Opened, Message, ServerCloses, Closed
<1>11. CASE NetworkChanges \/ LinkDies \/ LifecycleEvent \/ UNCHANGED vars
  BY <1>1, <1>2, <1>11 DEF NetworkChanges, LinkDies, LifecycleEvent, vars, timers
<1> QED
  BY <1>4, <1>5, <1>6, <1>7, <1>8, <1>9, <1>10, <1>11 DEF Next, App, Socket, Timers, Network

(* What a step may do to an open socket that works.                        *)
KeepsHealthy == ws = "open" /\ alive /\ ws' \notin {"open", "closing"} => ops' # ops

LEMMA HealthyStep ==
  ASSUME Inv, Answering, [Next]_vars
  PROVE  KeepsHealthy
<1> SUFFICES ASSUME ws = "open", alive PROVE ws' \in {"open", "closing"} \/ ops' # ops
  BY DEF KeepsHealthy
<1> USE Constants
<1>1. ASSUME NEW n \in Nodes, Connect(n) PROVE ops' # ops
  BY <1>1 DEF Connect, Inv, TypeOK
<1>2. CASE Disconnect
  BY <1>2 DEF Disconnect, Inv, TypeOK
<1>3. CASE Opened \/ Message \/ ServerCloses \/ Closed
  BY <1>3 DEF Opened, HandshakeDone, Message, ServerCloses, Closed
<1>4. CASE Retry
  BY <1>4 DEF Retry, RetryDue, Due, TimedOut, Off, Inv, RetryAlone
<1>5. CASE WatchdogFires
  BY <1>5 DEF WatchdogFires, EnsureReconnectLoop, KeepSocket, SendProbe, Inv, Idle
<1>6. CASE LifecycleCheck
  BY <1>6 DEF LifecycleCheck, Lost, TooOld, KeepSocket, SendProbe
<1>7. CASE ProbeTimesOut
  <2>1. failures = 0
    <3> SUFFICES ASSUME failures = 1 PROVE FALSE
      BY DEF Inv, TypeOK
    <3>1. 0 \in probe /\ pong # Off
      BY <1>7 DEF ProbeTimesOut, Due, Answering, Off
    <3>2. PICK q \in 0..PongDelay : q \in pong
      BY <3>1, TimerSet DEF Inv, TypeOK
    <3>3. q < 0
      BY <3>1, <3>2 DEF Answering, Off
    <3> QED BY <3>2, <3>3
  <2> QED BY <1>7, <2>1 DEF ProbeTimesOut, LastFailure
<1>8. CASE NetworkChanges \/ LinkDies \/ LifecycleEvent \/ Tick \/ UNCHANGED vars
  BY <1>8 DEF NetworkChanges, LinkDies, LifecycleEvent, Tick, vars, timers
<1> QED
  BY <1>1, <1>2, <1>3, <1>4, <1>5, <1>6, <1>7, <1>8 DEF Next, App, Socket, Timers, Network

(* A link that answers within two probe timeouts is never given up: the    *)
(* two-failure rule of probeConnection, for all other timings.             *)
THEOREM HealthyCorrect == ASSUME Responsive PROVE Spec => HealthyLinkKept
<1>1. Init => Inv /\ Answering
  BY InvInit DEF Init, Answering
<1>2. Inv /\ Answering /\ [Next]_vars => (Inv /\ Answering)'
  BY InvStep, AnsweringStep
<1>3. Inv /\ Answering /\ [Next]_vars => [KeepsHealthy]_vars
  BY HealthyStep
<1>4. Spec => [][KeepsHealthy]_vars
  BY <1>1, <1>2, <1>3, PTL DEF Spec
<1>5. [][KeepsHealthy]_vars <=> HealthyLinkKept
  BY DEF KeepsHealthy, HealthyLinkKept
<1> QED BY <1>4, <1>5
=============================================================================
