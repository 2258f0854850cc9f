-------------------------- MODULE ClientConnection --------------------------
(***************************************************************************)
(* The client's one WebSocket (SessionConnectionManager): who opens it,    *)
(* who closes it, and when.                                                *)
(*                                                                         *)
(* Six causes act on the same socket: connect() of the app, the events of  *)
(* the socket, the reconnect timer, the connect timeout, the probe (ping)  *)
(* timeout, the lifecycle check after focus/online/visible, and a watchdog *)
(* every three seconds.  Time is counted in ticks of a second; a timer     *)
(* that is due fires before the next tick, in any order with the others.   *)
(*                                                                         *)
(* `since' is how long the socket has shown nothing new: the age of a      *)
(* handshake (connectingStartedAt), the silence of an open socket, or the  *)
(* time without one.  onclose always opens the window of fast reconnection *)
(* before it schedules, so the only delay that occurs is FastDelay.        *)
(* A URL that cannot be built and the throttling of hidden tabs are left   *)
(* out.                                                                    *)
(***************************************************************************)
EXTENDS Naturals

CONSTANTS
  Nodes,             \* nodes the app may connect to
  ReconnectWatchdog, \* reconnectWatchdogMs
  ConnectTimeout,    \* connectTimeoutMs
  ProbeTimeout,      \* probeTimeoutMs
  FastDelay,         \* fastReconnectDelayMs
  LifecycleDelay,    \* lifecycleCheckDelayMs, rounded up to a tick
  Handshake,         \* how long a handshake takes while the server is reachable
  PongDelay,         \* how long a healthy link takes to answer a ping
  MaxOps             \* bound: calls of connect and disconnect

maxConsecutiveProbeFailures == 2

Quiet == ReconnectWatchdog + maxConsecutiveProbeFailures * ProbeTimeout

ASSUME TimesAssumption ==
  /\ ReconnectWatchdog \in Nat \ {0} /\ ConnectTimeout \in Nat \ {0}
  /\ ProbeTimeout \in Nat \ {0} /\ FastDelay \in Nat \ {0}
  /\ LifecycleDelay \in Nat \ {0} /\ Handshake \in Nat /\ PongDelay \in Nat \ {0}
  /\ MaxOps \in Nat

VARIABLES
  root, node,       \* is a project open (rootId), and on which node
  ws, target,       \* the socket, and the node its URL names
  since,            \* ticks without news of it, counted up to Quiet + 1
  watchdog,         \* ticks to the next run of the interval
  reconnect,        \* the reconnect timer: ticks left, or none
  lifecycle,        \* the lifecycle check, likewise
  probe, failures,  \* the timer of the active probe, and timeouts in a row
  reachable, alive, \* the network: can one connect, does the socket still work
  pong,             \* the answer under way, likewise
  ops               \* calls of connect and disconnect so far

timers == <<watchdog, reconnect, lifecycle, probe, pong>>
vars == <<root, node, ws, target, since, timers, failures, reachable, alive, ops>>

(* A timer is the set of the ticks it has left: empty if it is not set.    *)
Off == {}
In(n) == {n}
Due(t) == 0 \in t
Timer(n) == {Off} \cup {In(k) : k \in 0..n}
Ticked(t) == {k - 1 : k \in t}

TypeOK ==
  /\ root \in BOOLEAN /\ node \in Nodes /\ target \in Nodes
  /\ ws \in {"none", "connecting", "open", "closing"}
  /\ since \in 0..(Quiet + 1)
  /\ watchdog \in 0..ReconnectWatchdog
  /\ reconnect \in Timer(FastDelay) /\ lifecycle \in Timer(LifecycleDelay)
  /\ probe \in Timer(ProbeTimeout) /\ pong \in Timer(PongDelay)
  /\ failures \in 0..(maxConsecutiveProbeFailures - 1)
  /\ reachable \in BOOLEAN /\ alive \in BOOLEAN /\ ops \in 0..MaxOps

Init ==
  /\ root = FALSE /\ ws = "none" /\ since = 0
  /\ node \in Nodes /\ target = node
  /\ watchdog \in 1..ReconnectWatchdog
  /\ reconnect = Off /\ lifecycle = Off /\ probe = Off /\ pong = Off
  /\ failures = 0 /\ reachable \in BOOLEAN /\ alive = FALSE /\ ops = 0

-----------------------------------------------------------------------------
(* The pieces the handlers are made of.                                    *)

(* closeSocket and openSocket: the old socket's callbacks are cut off, so  *)
(* nothing is heard of it again; probe and reconnect timer are cleared.    *)
NewSocket(n) ==
  /\ ws' = "connecting" /\ target' = n /\ since' = 0
  /\ reconnect' = Off /\ probe' = Off /\ pong' = Off /\ alive' = FALSE

KeepSocket == UNCHANGED <<ws, target, since, reconnect, probe, pong, alive>>

(* A ping goes out on an open socket; a healthy link will answer it.       *)
SendProbe ==
  /\ probe' = IF probe = Off THEN In(ProbeTimeout) ELSE probe
  /\ pong' = IF probe = Off /\ alive /\ pong = Off THEN In(PongDelay) ELSE pong
  /\ UNCHANGED <<ws, target, since, reconnect, alive>>

Lost == ws \in {"none", "closing"}
TooOld == ws = "connecting" /\ since > ConnectTimeout
TimedOut == ws = "connecting" /\ since >= ConnectTimeout

-----------------------------------------------------------------------------
(* The app: a project is opened, on the same node or another.              *)

(* Mutant of SameNode: an open socket is good for any node.                *)
AnyNode(n) == TRUE

SameNode(n) == n = node

Connect(n) ==
  /\ ops < MaxOps /\ ops' = ops + 1
  /\ root' = TRUE /\ node' = n
  /\ IF ~Lost /\ SameNode(n) /\ ~TooOld THEN KeepSocket ELSE NewSocket(n)
  /\ UNCHANGED <<watchdog, lifecycle, failures, reachable>>

Disconnect ==
  /\ root /\ ops < MaxOps /\ ops' = ops + 1
  /\ root' = FALSE /\ ws' = "none" /\ since' = 0 /\ failures' = 0
  /\ reconnect' = Off /\ lifecycle' = Off /\ probe' = Off /\ pong' = Off /\ alive' = FALSE
  /\ UNCHANGED <<node, target, watchdog, reachable>>

-----------------------------------------------------------------------------
(* Events of the socket.                                                   *)

(* onopen.  The handshake of a reachable server takes Handshake ticks.     *)
HandshakeDone == ws = "connecting" /\ reachable /\ since >= Handshake

Opened ==
  /\ HandshakeDone
  /\ ws' = "open" /\ since' = 0 /\ probe' = Off /\ pong' = Off /\ failures' = 0
  /\ alive' = TRUE
  /\ UNCHANGED <<root, node, target, watchdog, reconnect, lifecycle, reachable, ops>>

(* onmessage, pong or other: any message proves the link alive.            *)
Message ==
  /\ ws = "open" /\ alive
  /\ since' = 0 /\ probe' = Off /\ pong' = Off /\ failures' = 0
  /\ UNCHANGED <<root, node, ws, target, watchdog, reconnect, lifecycle, reachable, alive, ops>>

(* The server closes the socket; the event comes later.                    *)
ServerCloses ==
  /\ ws = "open" /\ alive
  /\ ws' = "closing" /\ since' = 0 /\ pong' = Off /\ alive' = FALSE
  /\ UNCHANGED <<root, node, target, watchdog, reconnect, lifecycle, probe, failures,
                 reachable, ops>>

(* onclose, of an open socket or of a handshake that failed: it clears no  *)
(* probe, but the probe's timeout finds no open socket and reconnects.     *)
Closed ==
  /\ ws = "closing" \/ (ws = "connecting" /\ ~reachable)
  /\ ws' = "none" /\ since' = IF ws = "closing" THEN since ELSE 0
  /\ reconnect' = IF root /\ reconnect = Off THEN In(FastDelay) ELSE reconnect
  /\ UNCHANGED <<root, node, target, watchdog, lifecycle, probe, failures, reachable, alive,
                 pong, ops>>

-----------------------------------------------------------------------------
(* The timers.                                                             *)

(* The reconnect timer, which calls connect, and the connect timeout.      *)
RetryDue == Due(reconnect) \/ TimedOut

Retry ==
  /\ RetryDue
  /\ IF Lost \/ TimedOut THEN NewSocket(node)
     ELSE reconnect' = Off /\ UNCHANGED <<ws, target, since, probe, pong, alive>>
  /\ UNCHANGED <<root, node, watchdog, lifecycle, failures, reachable, ops>>

(* Mutant of EnsureReconnectLoop: leaves a lost socket to its onclose.     *)
LoopProbesOnly ==
  IF root /\ ws = "open" THEN SendProbe ELSE KeepSocket

(* ensureReconnectLoop: probeConnection reconnects whatever is not open,   *)
(* a handshake under way included.                                         *)
EnsureReconnectLoop ==
  IF ~root THEN KeepSocket ELSE IF ws = "open" THEN SendProbe ELSE NewSocket(node)

WatchdogFires ==
  /\ watchdog = 0 /\ watchdog' = ReconnectWatchdog
  /\ EnsureReconnectLoop
  /\ UNCHANGED <<root, node, lifecycle, failures, reachable, ops>>

(* online, pageshow, focus, visible.                                       *)
LifecycleEvent ==
  /\ root /\ lifecycle' = In(LifecycleDelay)
  /\ UNCHANGED <<root, node, ws, target, since, watchdog, reconnect, probe, pong, failures,
                 reachable, alive, ops>>

(* ensureConnection lets a young handshake go on.                          *)
LifecycleCheck ==
  /\ Due(lifecycle) /\ lifecycle' = Off
  /\ CASE Lost \/ TooOld -> NewSocket(node)
       [] ws = "open" -> SendProbe
       [] OTHER -> KeepSocket
  /\ UNCHANGED <<root, node, watchdog, failures, reachable, ops>>

(* Mutant of LastFailure: one timeout is enough.                           *)
AnyFailure == TRUE

LastFailure == failures + 1 >= maxConsecutiveProbeFailures

(* Mutant of ProbeTimesOut: the first timeout sends no second probe.       *)
ProbeTimesOutOnce ==
  /\ Due(probe)
  /\ failures' = IF LastFailure THEN 0 ELSE failures + 1
  /\ IF LastFailure \/ ws # "open" THEN NewSocket(node)
     ELSE probe' = Off /\ UNCHANGED <<ws, target, since, reconnect, pong, alive>>
  /\ UNCHANGED <<root, node, watchdog, lifecycle, reachable, ops>>

(* The first timeout sends a second probe, the second one reconnects.      *)
ProbeTimesOut ==
  /\ Due(probe)
  /\ failures' = IF LastFailure THEN 0 ELSE failures + 1
  /\ IF LastFailure \/ ws # "open" THEN NewSocket(node)
     ELSE /\ probe' = In(ProbeTimeout)
          /\ pong' = IF alive /\ pong = Off THEN In(PongDelay) ELSE pong
          /\ UNCHANGED <<ws, target, since, reconnect, alive>>
  /\ UNCHANGED <<root, node, watchdog, lifecycle, reachable, ops>>

-----------------------------------------------------------------------------
(* The network and the clock.                                              *)

NetworkChanges ==
  /\ reachable' = ~reachable
  /\ UNCHANGED <<root, node, ws, target, since, timers, failures, alive, ops>>

(* The link of the open socket goes dead without a close.                  *)
LinkDies ==
  /\ ws = "open" /\ alive /\ alive' = FALSE /\ pong' = Off
  /\ UNCHANGED <<root, node, ws, target, since, watchdog, reconnect, lifecycle, probe,
                 failures, reachable, ops>>

Tick ==
  /\ watchdog > 0 /\ ~RetryDue /\ ~HandshakeDone
  /\ ~Due(lifecycle) /\ ~Due(probe) /\ ~Due(pong)
  /\ watchdog' = watchdog - 1
  /\ reconnect' = Ticked(reconnect) /\ lifecycle' = Ticked(lifecycle)
  /\ probe' = Ticked(probe) /\ pong' = Ticked(pong)
  /\ since' = IF since > Quiet \/ ~root THEN since ELSE since + 1
  /\ UNCHANGED <<root, node, ws, target, failures, reachable, alive, ops>>

App == Disconnect \/ \E n \in Nodes : Connect(n)
Socket == Opened \/ Message \/ ServerCloses \/ Closed
Timers == Retry \/ WatchdogFires \/ LifecycleCheck \/ ProbeTimesOut
Network == NetworkChanges \/ LinkDies \/ LifecycleEvent

Next == App \/ Socket \/ Timers \/ Network \/ Tick

(* The clock goes on, due timers and finished handshakes are seen to.      *)
Fairness == WF_vars(Tick) /\ WF_vars(Timers) /\ WF_vars(Opened) /\ WF_vars(Message)

Spec == Init /\ [][Next]_vars
FairSpec == Spec /\ Fairness

-----------------------------------------------------------------------------
(* A connection that went silent is left: no open socket stays without a   *)
(* message longer than it takes the watchdog to probe and two probes to    *)
(* time out; and without a socket the client does not wait longer than the *)
(* watchdog.                                                               *)
SilenceIsBounded ==
  root => /\ ws = "open" => since <= Quiet
          /\ ws # "open" => since <= ReconnectWatchdog

(* The socket goes to the node of the project that is shown.               *)
RightNode == root /\ ws # "none" => target = node

(* A link that answers within two probe timeouts is not given up: only the *)
(* server, the app or a dead link ends an open socket.                     *)
HealthyLinkKept ==
  [][ws = "open" /\ alive /\ ws' \notin {"open", "closing"} => ops' # ops]_vars

(* As long as the server can be reached and a project is open, the client  *)
(* gets its connection back.                                               *)
Reconnects == root /\ ws # "open" ~> ws = "open" \/ ~root \/ ~reachable
=============================================================================
