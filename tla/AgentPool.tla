------------------------------ MODULE AgentPool ------------------------------
(***************************************************************************)
(* agent.Pool: the agent sessions that are open, each with its process or  *)
(* thread at the agent, shared by turns, forks, sub-agent subscriptions,   *)
(* the idle release and whoever closes, moves or kills a session.          *)
(*                                                                         *)
(* The pool's mutex makes one step of each action; opening and closing a   *)
(* session is slow and happens outside of it, under the lock of the        *)
(* session's runtime group (agent and protocol).  A caller that finds its  *)
(* session being released waits for the release (closeDone) and looks      *)
(* again.  Once shut down, the pool opens nothing.                         *)
(*                                                                         *)
(* A pool key is an agent and a session (agentPoolSessionKey); agents are  *)
(* numbered in the order lockRuntimeGroups sorts them, and keep their      *)
(* protocol.  A handle is one opened session: its key and a number.        *)
(* activeUses is the set of callers it counts.  Whether an entry has been  *)
(* idle long enough is left open: the release takes any unused entries.    *)
(* Agent processes that die by themselves are not modelled, and a Close    *)
(* whose error the code drops is taken to succeed.                         *)
(***************************************************************************)
EXTENDS Naturals

CONSTANTS NAgents,      \* configured agents
          Sessions,     \* MindFS sessions
          Callers,      \* goroutines that use the pool
          MaxOpens,     \* bound: sessions opened
          MaxFailures,  \* bound: releases whose Close fails
          NoCaller, NoHandle, NoKey

ASSUME PoolAssumption ==
  /\ NAgents \in Nat /\ MaxOpens \in Nat /\ MaxFailures \in Nat
  /\ NoCaller \notin Callers

Agents == 1..NAgents
Key == Agents \X Sessions
Handle == Key \X (1..MaxOpens)
KeyOf(h) == h[1]
AgentOf(k) == k[1]

ASSUME NoneAssumption == NoHandle \notin Handle /\ NoKey \notin Key

VARIABLES
  sessions,    \* the entry of a key
  closing,     \* entries the release has marked
  uses,        \* callers between BeginSessionUse and its finish, by entry
  live,        \* opened sessions that were not closed
  opened,      \* how many sessions were opened
  failures,    \* releases that failed so far
  closed, down,\* CloseAll has begun; has returned
  lock,        \* holder of a runtime group's lock
  at, key,     \* what a caller is doing, and with which key
  want,        \* the locks it has still to take
  held,        \* the session it opened, was given, waits for or releases
  mine         \* the entries it has selected to close

pool == <<sessions, closing, uses, opened, failures, closed, down>>
caller == <<at, key, want, held, mine>>
vars == <<pool, live, lock, caller>>

Locking == {"openLock", "closeLock", "moveLock", "killLock", "releaseLock",
            "downLock"}
Working == {"check", "wait", "opening", "publish", "shut", "release", "settle",
            "downShut", "move"}
Resting == {"idle", "got", "use"}

PoolTypeOK ==
  /\ sessions \in [Key -> Handle \cup {NoHandle}]
  /\ closing \subseteq Handle /\ live \subseteq Handle
  /\ uses \in [Handle -> SUBSET Callers]
  /\ opened \in 0..MaxOpens /\ failures \in 0..MaxFailures
  /\ closed \in BOOLEAN /\ down \in BOOLEAN

CallersTypeOK ==
  /\ lock \in [Agents -> Callers \cup {NoCaller}]
  /\ at \in [Callers -> Locking \cup Working \cup Resting]
  /\ key \in [Callers -> Key \cup {NoKey}] /\ want \in [Callers -> SUBSET Agents]
  /\ held \in [Callers -> Handle \cup {NoHandle}]
  /\ mine \in [Callers -> SUBSET Handle]

TypeOK == PoolTypeOK /\ CallersTypeOK

Init ==
  /\ sessions = [k \in Key |-> NoHandle] /\ closing = {} /\ live = {}
  /\ uses = [h \in Handle |-> {}]
  /\ opened = 0 /\ failures = 0
  /\ closed = FALSE /\ down = FALSE
  /\ lock = [a \in Agents |-> NoCaller]
  /\ at = [c \in Callers |-> "idle"] /\ key = [c \in Callers |-> NoKey]
  /\ want = [c \in Callers |-> {}] /\ held = [c \in Callers |-> NoHandle]
  /\ mine = [c \in Callers |-> {}]

InPool(h) == sessions[KeyOf(h)] = h
Entries == {h \in Handle : InPool(h)}

-----------------------------------------------------------------------------
(* Runtime locks (lockRuntimeGroups): in the order of the agents.          *)

InOrder(c, a) == a \in want[c] /\ \A b \in want[c] : a <= b

TakeLock(c) ==
  /\ at[c] \in Locking
  /\ \E a \in Agents :
       /\ InOrder(c, a) /\ lock[a] = NoCaller
       /\ lock' = [lock EXCEPT ![a] = c]
       /\ want' = [want EXCEPT ![c] = @ \ {a}]
  /\ UNCHANGED <<pool, live, at, key, held, mine>>

Locked(c, stage) == at[c] = stage /\ want[c] = {}

Unlocked(c) == [a \in Agents |-> IF lock[a] = c THEN NoCaller ELSE lock[a]]

Goto(c, stage) == at' = [at EXCEPT ![c] = stage]

(* The call is over: its locks are given back.                             *)
Leave(c) ==
  /\ Goto(c, "idle") /\ lock' = Unlocked(c)
  /\ key' = [key EXCEPT ![c] = NoKey] /\ held' = [held EXCEPT ![c] = NoHandle]
  /\ UNCHANGED <<want, mine>>

(* GetOrCreate returns h.                                                  *)
Give(c, h) ==
  /\ Goto(c, "got") /\ lock' = Unlocked(c)
  /\ held' = [held EXCEPT ![c] = h]
  /\ UNCHANGED <<key, want, mine>>

-----------------------------------------------------------------------------
(* GetOrCreate.                                                            *)

Open(c, k) ==
  /\ at[c] = "idle"
  /\ Goto(c, "check") /\ key' = [key EXCEPT ![c] = k]
  /\ UNCHANGED <<pool, live, lock, want, held, mine>>

(* Get: whatever entry the key has, one that is being released included.   *)
Peek(c, k) ==
  /\ at[c] = "idle" /\ sessions[k] # NoHandle
  /\ Goto(c, "got") /\ key' = [key EXCEPT ![c] = k]
  /\ held' = [held EXCEPT ![c] = sessions[k]]
  /\ UNCHANGED <<pool, live, lock, want, mine>>

(* Mutant of BeingReleased: the entry's closing flag is not looked at.     *)
NeverReleased(h) == FALSE

BeingReleased(h) == h \in closing

Check(c) ==
  /\ at[c] = "check"
  /\ LET h == sessions[key[c]]
     IN  \/ /\ closed
            /\ Leave(c)
         \/ /\ ~closed /\ h # NoHandle /\ BeingReleased(h)
            /\ Goto(c, "wait") /\ held' = [held EXCEPT ![c] = h]
            /\ UNCHANGED <<lock, key, want, mine>>
         \/ /\ ~closed /\ h # NoHandle /\ ~BeingReleased(h)
            /\ Give(c, h)
         \/ /\ ~closed /\ h = NoHandle
            /\ Goto(c, "openLock")
            /\ want' = [want EXCEPT ![c] = {AgentOf(key[c])}]
            /\ UNCHANGED <<lock, key, held, mine>>
  /\ UNCHANGED <<pool, live>>

(* The context of the caller ends while it waits.                          *)
GiveUp(c) ==
  /\ at[c] = "wait"
  /\ Leave(c)
  /\ UNCHANGED <<pool, live>>

(* Mutant of FoundLocked: the map is not read again under the lock.        *)
NotReadAgain(c) == NoHandle

FoundLocked(c) == sessions[key[c]]

(* With the lock of the group: look again, and open if there is none.      *)
CheckLocked(c) ==
  /\ Locked(c, "openLock")
  /\ LET h == FoundLocked(c)
     IN  \/ closed /\ Leave(c)
         \/ ~closed /\ h # NoHandle /\ Give(c, h)
         \/ /\ ~closed /\ h = NoHandle
            /\ Goto(c, "opening") /\ UNCHANGED <<lock, key, want, held, mine>>
  /\ UNCHANGED <<pool, live>>

(* openSession fails.                                                      *)
OpenFails(c) ==
  /\ at[c] = "opening"
  /\ Leave(c)
  /\ UNCHANGED <<pool, live>>

OpenSession(c) ==
  /\ at[c] = "opening" /\ opened < MaxOpens
  /\ opened' = opened + 1
  /\ LET h == <<key[c], opened'>>
     IN  live' = live \cup {h} /\ held' = [held EXCEPT ![c] = h]
  /\ Goto(c, "publish")
  /\ UNCHANGED <<sessions, closing, uses, failures, closed, down, lock, key, want, mine>>

(* The session enters the map, unless the pool was shut down or somebody   *)
(* else entered one meanwhile; the loser is closed.  (Only Claude's in the *)
(* code: while the lock of the group is held nobody can have.)             *)
Publish(c) ==
  /\ at[c] = "publish"
  /\ \/ /\ closed
        /\ live' = live \ {held[c]}
        /\ Leave(c) /\ UNCHANGED sessions
     \/ /\ ~closed
        /\ IF sessions[key[c]] = NoHandle
           THEN /\ sessions' = [sessions EXCEPT ![key[c]] = held[c]]
                /\ Give(c, held[c]) /\ UNCHANGED live
           ELSE /\ live' = live \ {held[c]}
                /\ Give(c, sessions[key[c]]) /\ UNCHANGED sessions
  /\ UNCHANGED <<closing, uses, opened, failures, closed, down>>

-----------------------------------------------------------------------------
(* A use of the session: BeginSessionUse and the function it returns.      *)

(* Mutant of Countable: the use of an entry being released is counted.     *)
AnyEntry(h) == h # NoHandle

(* No entry, or one that is being released: nothing is counted, and the    *)
(* caller is not told.                                                     *)
Countable(h) == h # NoHandle /\ h \notin closing

BeginSessionUse(c) ==
  /\ at[c] = "got"
  /\ Goto(c, "use")
  /\ LET h == sessions[key[c]]
     IN  uses' = IF Countable(h) THEN [uses EXCEPT ![h] = @ \cup {c}] ELSE uses
  /\ UNCHANGED <<sessions, closing, opened, failures, closed, down, live, lock,
                 key, want, held, mine>>

(* The code leaves the count of an entry alone that is no longer in the    *)
(* map; nobody reads it any more.                                          *)
EndSessionUse(c) ==
  /\ at[c] = "use"
  /\ Leave(c)
  /\ uses' = [h \in Handle |-> uses[h] \ {c}]
  /\ UNCHANGED <<sessions, closing, opened, failures, closed, down, live>>

(* Fork and title keep no use count.                                       *)
Drop(c) ==
  /\ at[c] = "got"
  /\ Leave(c)
  /\ UNCHANGED <<pool, live>>

-----------------------------------------------------------------------------
(* Close, KillAgentProcess and CloseAll: take entries, then close them.    *)

AwaitLocks(c, stage, agents) ==
  /\ Goto(c, stage) /\ want' = [want EXCEPT ![c] = agents]

(* RepointSession refuses a session that is replying, then checks target   *)
(* and transcript and closes it.                                           *)
Repoint(c, k) ==
  /\ at[c] = "idle"
  /\ sessions[k] # NoHandle => uses[sessions[k]] = {}
  /\ Goto(c, "move") /\ key' = [key EXCEPT ![c] = k]
  /\ UNCHANGED <<pool, live, lock, want, held, mine>>

(* Close looks for the group to lock; no entry, no lock.                   *)
GroupToLock(k) == IF sessions[k] = NoHandle THEN {} ELSE {AgentOf(k)}

Close(c, k) ==
  /\ at[c] = "idle"
  /\ AwaitLocks(c, "closeLock", GroupToLock(k)) /\ key' = [key EXCEPT ![c] = k]
  /\ UNCHANGED <<pool, live, lock, held, mine>>

(* The checks of the move are done: it closes the session.                 *)
CloseMoved(c) ==
  /\ at[c] = "move"
  /\ AwaitLocks(c, "moveLock", GroupToLock(key[c]))
  /\ UNCHANGED <<pool, live, lock, key, held, mine>>

(* A check fails, and the session stays where it is.                       *)
RepointRefused(c) ==
  /\ at[c] = "move"
  /\ Leave(c)
  /\ UNCHANGED <<pool, live>>

KillAgentProcess(c, k) ==
  /\ at[c] = "idle"
  /\ AwaitLocks(c, "killLock", {AgentOf(k)})
  /\ key' = [key EXCEPT ![c] = k]
  /\ UNCHANGED <<pool, live, lock, held, mine>>

(* Mutant of RuntimesToLock: CloseAll does not wait for who is opening.    *)
NoRuntime == {}

RuntimesToLock == Agents

(* Called once, when the server ends.                                      *)
CloseAll(c) ==
  /\ at[c] = "idle" /\ ~closed
  /\ closed' = TRUE /\ AwaitLocks(c, "downLock", RuntimesToLock)
  /\ UNCHANGED <<sessions, closing, uses, opened, failures, down, live, lock,
                 key, held, mine>>

(* takeSessions.                                                           *)
Taken(c) ==
  {h \in Entries : /\ at[c] \in {"closeLock", "moveLock"} => KeyOf(h) = key[c]
                   /\ at[c] = "killLock" => AgentOf(KeyOf(h)) = AgentOf(key[c])}

TakeSessions(c) ==
  /\ at[c] \in {"closeLock", "moveLock", "killLock", "downLock"} /\ want[c] = {}
  /\ sessions' = [k \in Key |-> IF sessions[k] \in Taken(c) THEN NoHandle ELSE sessions[k]]
  /\ mine' = [mine EXCEPT ![c] = Taken(c)]
  /\ Goto(c, IF at[c] = "downLock" THEN "downShut" ELSE "shut")
  /\ UNCHANGED <<closing, uses, opened, failures, closed, down, live, lock, key,
                 want, held>>

CloseSession(c) ==
  /\ at[c] \in {"shut", "downShut"}
  /\ \E h \in mine[c] :
       /\ live' = live \ {h}
       /\ mine' = [mine EXCEPT ![c] = @ \ {h}]
  /\ UNCHANGED <<pool, lock, at, key, want, held>>

Closed(c) ==
  /\ at[c] \in {"shut", "downShut"} /\ mine[c] = {}
  /\ down' = (down \/ at[c] = "downShut")
  /\ Leave(c)
  /\ UNCHANGED <<sessions, closing, uses, opened, failures, closed, live>>

-----------------------------------------------------------------------------
(* releaseSessionsDetailed: the idle loop and the user's release.          *)

Unused == {h \in Entries : h \notin closing /\ uses[h] = {}}

Release(c) ==
  /\ at[c] = "idle"
  /\ \E S \in (SUBSET Unused) \ {{}} :
       AwaitLocks(c, "releaseLock", {AgentOf(KeyOf(h)) : h \in S})
  /\ UNCHANGED <<pool, live, lock, key, held, mine>>

(* With the locks: look again, and mark what is still unused.              *)
Mark(c) ==
  /\ Locked(c, "releaseLock")
  /\ \E S \in SUBSET {h \in Unused : lock[AgentOf(KeyOf(h))] = c} :
       /\ closing' = closing \cup S
       /\ mine' = [mine EXCEPT ![c] = S]
  /\ Goto(c, "release")
  /\ UNCHANGED <<sessions, uses, opened, failures, closed, down, live, lock, key,
                 want, held>>

(* One entry's Close, outside the pool's mutex; it may fail.               *)
CloseMarked(c) ==
  /\ at[c] = "release"
  /\ \E h \in mine[c] :
       /\ held' = [held EXCEPT ![c] = h]
       /\ \/ live' = live \ {h} /\ UNCHANGED failures
          \/ /\ failures < MaxFailures /\ failures' = failures + 1
             /\ UNCHANGED live
  /\ Goto(c, "settle")
  /\ UNCHANGED <<sessions, closing, uses, opened, closed, down, lock, key, want, mine>>

(* Mutant of Woken: closeDone is closed only if the session was.           *)
WokenIfClosed(h) == {d \in Callers : at[d] = "wait" /\ held[d] = h /\ h \notin live}

(* Who waits for the release of h.                                         *)
Woken(h) == {d \in Callers : at[d] = "wait" /\ held[d] = h}

(* The entry goes, or is usable again if its Close failed, and whoever     *)
(* waited for it looks again.                                              *)
Settle(c) ==
  /\ at[c] = "settle"
  /\ LET h == held[c]
         gone == InPool(h) /\ h \notin live
         kept == InPool(h) /\ h \in live
     IN  /\ sessions' = IF gone THEN [sessions EXCEPT ![KeyOf(h)] = NoHandle] ELSE sessions
         /\ closing' = IF kept THEN closing \ {h} ELSE closing
         /\ at' = [d \in Callers |->
                     IF d = c THEN "release"
                     ELSE IF d \in Woken(h) THEN "check" ELSE at[d]]
         /\ mine' = [mine EXCEPT ![c] = @ \ {h}]
  /\ UNCHANGED <<uses, opened, failures, closed, down, live, lock, key, want, held>>

Released(c) ==
  /\ at[c] = "release" /\ mine[c] = {}
  /\ Leave(c)
  /\ UNCHANGED <<pool, live>>

-----------------------------------------------------------------------------
Call(c, k) ==
  Open(c, k) \/ Peek(c, k) \/ Repoint(c, k) \/ Close(c, k) \/ KillAgentProcess(c, k)

Work(c) ==
  \/ Check(c) \/ CheckLocked(c) \/ OpenFails(c) \/ OpenSession(c)
  \/ Publish(c) \/ CloseMoved(c) \/ RepointRefused(c) \/ TakeSessions(c)
  \/ CloseSession(c) \/ Closed(c) \/ Mark(c) \/ CloseMarked(c) \/ Settle(c)
  \/ Released(c)

Step(c) ==
  \/ \E k \in Key : Call(c, k)
  \/ CloseAll(c) \/ Release(c) \/ GiveUp(c)
  \/ BeginSessionUse(c) \/ EndSessionUse(c) \/ Drop(c)
  \/ TakeLock(c) \/ Work(c)

Next == \E c \in Callers : Step(c)

Spec == Init /\ [][Next]_vars

(* A goroutine in a call keeps running, an open or a close ends, and a Go  *)
(* mutex lets everyone in who waits for it.                                *)
FairSpec == Spec /\ \A c \in Callers : WF_vars(Work(c)) /\ SF_vars(TakeLock(c))

-----------------------------------------------------------------------------
(* The release never closes a session under a turn that registered its     *)
(* use: BeginSessionUse refuses what the release has marked, and the       *)
(* release looks at the count again after it waited for the locks.         *)
ReleaseSparesUses == \A h \in closing : uses[h] = {}

(* h was taken from the map by a Close that found no entry at first and    *)
(* locked nothing.                                                         *)
Stray(h) == \E c \in Callers : at[c] = "shut" /\ h \in mine[c] /\ lock[AgentOf(KeyOf(h))] # c

(* A session runs in one process at a time: nobody opens a second one      *)
(* before the first is closed, whoever opens, releases, closes or kills.   *)
OneProcess ==
  \A g \in live, h \in live : KeyOf(g) = KeyOf(h) => g = h \/ Stray(g) \/ Stray(h)

(* Every process is in the map or in the hands of who opens or closes it,  *)
(* and once CloseAll has returned none is in the map or about to be.       *)
NothingLeaks ==
  /\ \A h \in live : \/ InPool(h)
                     \/ \E c \in Callers : at[c] = "publish" /\ held[c] = h
                     \/ \E c \in Callers : at[c] \in {"shut", "downShut"} /\ h \in mine[c]
  /\ down => /\ Entries = {}
             /\ \A c \in Callers : at[c] \notin {"opening", "publish"}

(* What GetOrCreate hands out is open and stays registered: not a session  *)
(* that is being released, not one that was taken away.                    *)
HandedOutOpen ==
  [][\A c \in Callers :
       at[c] \in {"check", "openLock", "publish"} /\ at'[c] = "got"
       => /\ held'[c] \in live' \ closing'
          /\ sessions'[key[c]] = held'[c]]_vars

(* "A session that is replying cannot change its directory": what a move   *)
(* closes is in nobody's use.                                              *)
ReplyingIsNotMoved ==
  [][\A c \in Callers : at[c] = "moveLock" /\ at'[c] = "shut"
                        => \A h \in mine'[c] : uses[h] = {}]_vars

(* "BeginSessionUse prevents idle cleanup while a turn is using the        *)
(* session": the release closes nothing that is in use.                    *)
UsePreventsCleanup ==
  [][\A c \in Callers, d \in Callers :
       at[c] = "release" /\ at'[c] = "settle" /\ at[d] = "use"
       => held[d] # held'[c]]_vars

(* Every call comes back: runtime locks are taken in one order, and the    *)
(* waiters of a release are woken also when its Close failed.              *)
CallsReturn ==
  \A c \in Callers : at[c] \in Locking \cup Working ~> at[c] \in Resting
=============================================================================
