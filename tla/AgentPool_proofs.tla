--------------------------- MODULE AgentPool_proofs --------------------------
(***************************************************************************)
(* Proofs about the agent pool, for any number of agents, sessions and     *)
(* callers.                                                                *)
(*                                                                         *)
(* The argument.  Who opens a session, shuts the pool down or closes what  *)
(* it has marked holds the lock of the runtime group for as long as it is  *)
(* at it (LocksInv, from the order of the stages and from what a step of   *)
(* one caller leaves of another, OthersAreSame).  So the entry of a        *)
(* session cannot appear behind the back of the caller that opens it, and  *)
(* what the map holds fits what is open (EntriesInv): an entry is open or  *)
(* marked, a marked one is in the hands of the release that marked it, and *)
(* an open session is in the map or in somebody's hands.  Nine actions     *)
(* touch the map, the marks or what is open, and each has a lemma; the     *)
(* others are Quiet.                                                       *)
(***************************************************************************)
EXTENDS AgentPool, TLAPS

Number(h) == h[2]

(* A handle is a key and a number.                                         *)
LEMMA HandleKey ==
  /\ \A h \in Handle : /\ KeyOf(h) \in Key /\ AgentOf(KeyOf(h)) \in Agents
                       /\ Number(h) \in 1..MaxOpens
  /\ \A k \in Key, n \in 1..MaxOpens :
       <<k, n>> \in Handle /\ KeyOf(<<k, n>>) = k /\ Number(<<k, n>>) = n
  /\ \A k \in Key : AgentOf(k) \in Agents
BY DEF Handle, Key, KeyOf, AgentOf, Number

(* A caller at work on a key has one; who was given a session has it.      *)
KeyedBy(c) ==
  at[c] \in {"check", "wait", "openLock", "opening", "publish", "got", "use",
             "move", "moveLock", "closeLock", "killLock"} => key[c] \in Key

HoldsHandle(c) ==
  /\ at[c] \in {"got", "use", "wait", "publish"} => held[c] \in Handle
  /\ at[c] = "settle" => held[c] \in mine[c]

Keyed == \A c \in Callers : KeyedBy(c)
HeldHandle == \A c \in Callers : HoldsHandle(c)

(* A caller that returns, or is given a session, is typed again.            *)
LEMMA LeaveTyped ==
  ASSUME TypeOK, NEW c \in Callers, Leave(c)
  PROVE  CallersTypeOK'
BY NoneAssumption DEF Leave, Goto, Unlocked, TypeOK, PoolTypeOK, CallersTypeOK,
                      Locking, Working, Resting

LEMMA GiveTyped ==
  ASSUME TypeOK, NEW c \in Callers, NEW h \in Handle, Give(c, h)
  PROVE  CallersTypeOK'
BY DEF Give, Goto, Unlocked, TypeOK, PoolTypeOK, CallersTypeOK, Locking,
       Working, Resting

(* Every step keeps the types.                                             *)
LEMMA TypeStep ==
  ASSUME TypeOK, Keyed, HeldHandle, [Next]_vars
  PROVE  TypeOK'
<1> USE DEF pool, TypeOK, PoolTypeOK, CallersTypeOK, Locking, Working, Resting
<1> USE PoolAssumption, NoneAssumption, HandleKey DEF KeyedBy, HoldsHandle
<1> SUFFICES ASSUME NEW c \in Callers, Step(c) PROVE  TypeOK'
  BY DEF Next, vars, caller
<1>1. ASSUME NEW k \in Key, Open(c, k) PROVE TypeOK'
  BY <1>1 DEF Open, Goto, caller, Keyed, HeldHandle
<1>2. ASSUME NEW k \in Key, Peek(c, k) PROVE TypeOK'
  BY <1>2 DEF Peek, Goto, caller, Keyed, HeldHandle
<1>3. ASSUME NEW k \in Key, Repoint(c, k) PROVE TypeOK'
  BY <1>3 DEF Repoint, Goto, caller, Keyed, HeldHandle
<1>4. ASSUME NEW k \in Key, Close(c, k) PROVE TypeOK'
  BY <1>4 DEF Close, AwaitLocks, Goto, GroupToLock, caller, Keyed, HeldHandle
<1>5. ASSUME NEW k \in Key, KillAgentProcess(c, k) PROVE TypeOK'
  BY <1>5 DEF KillAgentProcess, AwaitLocks, Goto, caller, Keyed, HeldHandle
<1>6. CASE CloseAll(c)
  BY <1>6 DEF CloseAll, AwaitLocks, Goto, RuntimesToLock, caller, Keyed,
     HeldHandle
<1>7. CASE Release(c)
  <2>1. PICK S \in (SUBSET Unused) \ {{}} :
               AwaitLocks(c, "releaseLock", {AgentOf(KeyOf(h)) : h \in S})
    BY <1>7 DEF Release
  <2>2. {AgentOf(KeyOf(h)) : h \in S} \subseteq Agents
    BY <2>1, HandleKey DEF Unused, Entries
  <2>. QED  BY <1>7, <2>1, <2>2 DEF Release, AwaitLocks, Goto, caller, Keyed,
               HeldHandle
<1>8. CASE BeginSessionUse(c)
  BY <1>8 DEF BeginSessionUse, Goto, Countable, caller, Keyed, HeldHandle
<1>9. CASE EndSessionUse(c)
  BY <1>9, LeaveTyped DEF EndSessionUse
<1>10. CASE Drop(c)
  BY <1>10, LeaveTyped DEF Drop
<1>11. CASE TakeLock(c)
  BY <1>11 DEF TakeLock, InOrder, caller, Keyed, HeldHandle
<1>12. CASE Check(c)
  <2>1. CASE Leave(c)
    BY <1>12, <2>1, LeaveTyped DEF Check
  <2>2. CASE Give(c, sessions[key[c]]) /\ sessions[key[c]] # NoHandle
    BY <1>12, <2>2, GiveTyped DEF Check, Keyed
  <2>3. CASE /\ Goto(c, "wait") /\ held' = [held EXCEPT ![c] = sessions[key[c]]]
              /\ UNCHANGED <<lock, key, want, mine>>
    BY <1>12, <2>3 DEF Check, Goto, Keyed
  <2>4. CASE /\ Goto(c, "openLock")
              /\ want' = [want EXCEPT ![c] = {AgentOf(key[c])}]
              /\ UNCHANGED <<lock, key, held, mine>>
    BY <1>12, <2>4 DEF Check, Goto, Keyed
  <2>. QED  BY <1>12, <2>1, <2>2, <2>3, <2>4 DEF Check
<1>13. CASE GiveUp(c)
  BY <1>13, LeaveTyped DEF GiveUp
<1>14. CASE CheckLocked(c)
  <2>1. CASE Leave(c)
    BY <1>14, <2>1, LeaveTyped DEF CheckLocked
  <2>2. CASE Give(c, sessions[key[c]]) /\ sessions[key[c]] # NoHandle
    BY <1>14, <2>2, GiveTyped DEF CheckLocked, Locked, Keyed
  <2>3. CASE Goto(c, "opening") /\ UNCHANGED <<lock, key, want, held, mine>>
    BY <1>14, <2>3 DEF CheckLocked, Goto
  <2>. QED  BY <1>14, <2>1, <2>2, <2>3 DEF CheckLocked, FoundLocked
<1>15. CASE OpenFails(c)
  BY <1>15, LeaveTyped DEF OpenFails
<1>16. CASE OpenSession(c)
  <2>1. key[c] \in Key /\ opened + 1 \in 1..MaxOpens
    BY <1>16 DEF OpenSession, Keyed
  <2>2. <<key[c], opened + 1>> \in Handle
    BY <2>1
  <2>. QED  BY <1>16, <2>1, <2>2 DEF OpenSession, Goto
<1>17. CASE Publish(c)
  <2>1. held[c] \in Handle /\ key[c] \in Key
    BY <1>17 DEF Publish, Keyed, HeldHandle
  <2>2. PoolTypeOK'
    BY <1>17, <2>1 DEF Publish
  <2>3. Leave(c) \/ \E h \in Handle : Give(c, h)
    BY <1>17, <2>1 DEF Publish
  <2>. QED  BY <2>2, <2>3, LeaveTyped, GiveTyped
<1>18. CASE CloseMoved(c)
  BY <1>18 DEF CloseMoved, AwaitLocks, Goto, GroupToLock, caller, Keyed,
     HeldHandle
<1>19. CASE RepointRefused(c)
  BY <1>19, LeaveTyped DEF RepointRefused
<1>20. CASE TakeSessions(c)
  <2>1. Taken(c) \subseteq Handle
    BY DEF Taken, Entries
  <2>. QED  BY <1>20, <2>1 DEF TakeSessions, Goto
<1>21. CASE CloseSession(c)
  BY <1>21 DEF CloseSession, caller, Keyed, HeldHandle
<1>22. CASE Closed(c)
  BY <1>22, LeaveTyped DEF Closed
<1>23. CASE Mark(c)
  <2>1. PICK S \in SUBSET {h \in Unused : lock[AgentOf(KeyOf(h))] = c} :
               closing' = closing \cup S /\ mine' = [mine EXCEPT ![c] = S]
    BY <1>23 DEF Mark
  <2>2. S \subseteq Handle
    BY <2>1 DEF Unused, Entries
  <2>. QED  BY <1>23, <2>1, <2>2 DEF Mark, Goto, caller
<1>24. CASE CloseMarked(c)
  BY <1>24 DEF CloseMarked, Goto, caller, Keyed, HeldHandle
<1>25. CASE Settle(c)
  <2>1. PoolTypeOK'
    BY <1>25 DEF Settle, Keyed, HeldHandle
  <2>2. CallersTypeOK'
    BY <1>25 DEF Settle, Woken
  <2>. QED  BY <2>1, <2>2
<1>26. CASE Released(c)
  BY <1>26, LeaveTyped DEF Released
<1>. QED  BY <1>1, <1>2, <1>3, <1>4, <1>5, <1>6, <1>7, <1>8, <1>9, <1>10,
             <1>11, <1>12, <1>13, <1>14, <1>15, <1>16, <1>17, <1>18, <1>19,
             <1>20, <1>21, <1>22, <1>23, <1>24, <1>25, <1>26 DEF Step, Call,
             Work

(* What a step of one caller leaves of another: a waiter may be woken.     *)
Same(d) ==
  /\ at'[d] = at[d] \/ (at[d] = "wait" /\ at'[d] = "check")
  /\ key'[d] = key[d] /\ want'[d] = want[d]
  /\ held'[d] = held[d] /\ mine'[d] = mine[d]
  /\ \A a \in Agents : lock'[a] = d <=> lock[a] = d

(* A step of one caller leaves every other one as it was.                  *)
LEMMA OthersAreSame ==
  ASSUME TypeOK, NEW c \in Callers, Step(c), NEW d \in Callers, d # c
  PROVE  Same(d)
<1> USE DEF Goto, pool, caller, Same, Woken, TypeOK, PoolTypeOK, CallersTypeOK,
        Locking, Working, Resting
<1> USE PoolAssumption
<1>1. ASSUME NEW k \in Key, Open(c, k) PROVE Same(d)
  BY <1>1 DEF Open
<1>2. ASSUME NEW k \in Key, Peek(c, k) PROVE Same(d)
  BY <1>2 DEF Peek
<1>3. ASSUME NEW k \in Key, Repoint(c, k) PROVE Same(d)
  BY <1>3 DEF Repoint
<1>4. ASSUME NEW k \in Key, Close(c, k) PROVE Same(d)
  BY <1>4 DEF Close, AwaitLocks, GroupToLock
<1>5. ASSUME NEW k \in Key, KillAgentProcess(c, k) PROVE Same(d)
  BY <1>5 DEF KillAgentProcess, AwaitLocks
<1>6. CASE CloseAll(c)
  BY <1>6 DEF CloseAll, AwaitLocks, RuntimesToLock
<1>7. CASE Release(c)
  BY <1>7 DEF Release, AwaitLocks
<1>8. CASE BeginSessionUse(c)
  BY <1>8 DEF BeginSessionUse, Countable
<1>9. CASE EndSessionUse(c)
  BY <1>9 DEF EndSessionUse, Leave, Unlocked
<1>10. CASE Drop(c)
  BY <1>10 DEF Drop, Leave, Unlocked
<1>11. CASE TakeLock(c)
  BY <1>11 DEF TakeLock, InOrder
<1>12. CASE Check(c)
  BY <1>12 DEF Check, Leave, Give, Unlocked, BeingReleased
<1>13. CASE GiveUp(c)
  BY <1>13 DEF GiveUp, Leave, Unlocked
<1>14. CASE CheckLocked(c)
  BY <1>14 DEF CheckLocked, Locked, FoundLocked, Leave, Give, Unlocked
<1>15. CASE OpenFails(c)
  BY <1>15 DEF OpenFails, Leave, Unlocked
<1>16. CASE OpenSession(c)
  BY <1>16 DEF OpenSession
<1>17. CASE Publish(c)
  BY <1>17 DEF Publish, Leave, Give, Unlocked
<1>18. CASE CloseMoved(c)
  BY <1>18 DEF CloseMoved, AwaitLocks, GroupToLock
<1>19. CASE RepointRefused(c)
  BY <1>19 DEF RepointRefused, Leave, Unlocked
<1>20. CASE TakeSessions(c)
  BY <1>20 DEF TakeSessions, Taken
<1>21. CASE CloseSession(c)
  BY <1>21 DEF CloseSession
<1>22. CASE Closed(c)
  BY <1>22 DEF Closed, Leave, Unlocked
<1>23. CASE Mark(c)
  BY <1>23 DEF Mark, Locked, Unused
<1>24. CASE CloseMarked(c)
  BY <1>24 DEF CloseMarked
<1>25. CASE Settle(c)
  BY <1>25 DEF Settle
<1>26. CASE Released(c)
  BY <1>26 DEF Released, Leave, Unlocked
<1>. QED  BY <1>1, <1>2, <1>3, <1>4, <1>5, <1>6, <1>7, <1>8, <1>9, <1>10,
             <1>11, <1>12, <1>13, <1>14, <1>15, <1>16, <1>17, <1>18, <1>19,
             <1>20, <1>21, <1>22, <1>23, <1>24, <1>25, <1>26 DEF Step, Call,
             Work

(* Every step keeps what a caller at work has in hand.                     *)
LEMMA BaseStep ==
  ASSUME TypeOK, Keyed, HeldHandle, [Next]_vars
  PROVE  Keyed' /\ HeldHandle'
<1> USE DEF caller, Keyed, KeyedBy, HeldHandle, HoldsHandle, Goto, pool, Woken,
        TypeOK, PoolTypeOK, CallersTypeOK, Locking, Working, Resting
<1> SUFFICES ASSUME NEW c \in Callers, Step(c)
             PROVE  KeyedBy(c)' /\ HoldsHandle(c)'
  <2>1. CASE UNCHANGED vars
    BY <2>1 DEF vars
  <2>2. ASSUME NEW c \in Callers, Step(c), KeyedBy(c)' /\ HoldsHandle(c)'
        PROVE  Keyed' /\ HeldHandle'
    <3>1. ASSUME NEW d \in Callers, d # c  PROVE  KeyedBy(d)' /\ HoldsHandle(d)'
      BY <2>2, <3>1, OthersAreSame DEF Same
    <3>. QED  BY <2>2, <3>1
  <2>. QED  BY <2>1, <2>2 DEF Next
<1> USE PoolAssumption, HandleKey
<1>1. ASSUME NEW k \in Key, Open(c, k) PROVE KeyedBy(c)' /\ HoldsHandle(c)'
  BY <1>1 DEF Open
<1>2. ASSUME NEW k \in Key, Peek(c, k) PROVE KeyedBy(c)' /\ HoldsHandle(c)'
  BY <1>2 DEF Peek
<1>3. ASSUME NEW k \in Key, Repoint(c, k) PROVE KeyedBy(c)' /\ HoldsHandle(c)'
  BY <1>3 DEF Repoint
<1>4. ASSUME NEW k \in Key, Close(c, k) PROVE KeyedBy(c)' /\ HoldsHandle(c)'
  BY <1>4 DEF Close, AwaitLocks, GroupToLock
<1>5. ASSUME NEW k \in Key, KillAgentProcess(c, k)
      PROVE  KeyedBy(c)' /\ HoldsHandle(c)'
  BY <1>5 DEF KillAgentProcess, AwaitLocks
<1>6. CASE CloseAll(c)
  BY <1>6 DEF CloseAll, AwaitLocks, RuntimesToLock
<1>7. CASE Release(c)
  BY <1>7 DEF Release, AwaitLocks
<1>8. CASE BeginSessionUse(c)
  BY <1>8 DEF BeginSessionUse, Countable
<1>9. CASE EndSessionUse(c)
  BY <1>9 DEF EndSessionUse, Leave, Unlocked
<1>10. CASE Drop(c)
  BY <1>10 DEF Drop, Leave, Unlocked
<1>11. CASE TakeLock(c)
  BY <1>11 DEF TakeLock, InOrder
<1>12. CASE Check(c)
  BY <1>12 DEF Check, Leave, Give, Unlocked, BeingReleased
<1>13. CASE GiveUp(c)
  BY <1>13 DEF GiveUp, Leave, Unlocked
<1>14. CASE CheckLocked(c)
  BY <1>14 DEF CheckLocked, Locked, FoundLocked, Leave, Give, Unlocked
<1>15. CASE OpenFails(c)
  BY <1>15 DEF OpenFails, Leave, Unlocked
<1>16. CASE OpenSession(c)
  <2>1. key[c] \in Key /\ opened + 1 \in 1..MaxOpens
    BY <1>16 DEF OpenSession
  <2>2. <<key[c], opened + 1>> \in Handle
    BY <2>1
  <2>. QED  BY <1>16, <2>1, <2>2 DEF OpenSession
<1>17. CASE Publish(c)
  BY <1>17 DEF Publish, Leave, Give, Unlocked
<1>18. CASE CloseMoved(c)
  BY <1>18 DEF CloseMoved, AwaitLocks, GroupToLock
<1>19. CASE RepointRefused(c)
  BY <1>19 DEF RepointRefused, Leave, Unlocked
<1>20. CASE TakeSessions(c)
  BY <1>20 DEF TakeSessions, Taken
<1>21. CASE CloseSession(c)
  BY <1>21 DEF CloseSession
<1>22. CASE Closed(c)
  BY <1>22 DEF Closed, Leave, Unlocked
<1>23. CASE Mark(c)
  BY <1>23 DEF Mark, Locked, Unused
<1>24. CASE CloseMarked(c)
  BY <1>24 DEF CloseMarked
<1>25. CASE Settle(c)
  BY <1>25 DEF Settle
<1>26. CASE Released(c)
  BY <1>26 DEF Released, Leave, Unlocked
<1>. QED  BY <1>1, <1>2, <1>3, <1>4, <1>5, <1>6, <1>7, <1>8, <1>9, <1>10,
             <1>11, <1>12, <1>13, <1>14, <1>15, <1>16, <1>17, <1>18, <1>19,
             <1>20, <1>21, <1>22, <1>23, <1>24, <1>25, <1>26 DEF Step, Call,
             Work

-----------------------------------------------------------------------------
(* Locks: who holds, or still waits for, which lock at which stage.  Those *)
(* that have sessions in hand to close are Busy; whoever marked some holds *)
(* the lock of every one of them.                                          *)

Busy == {"shut", "downShut", "release", "settle"}

LocksOf(c) ==
  /\ at[c] = "openLock" =>
       AgentOf(key[c]) \in want[c] \/ lock[AgentOf(key[c])] = c
  /\ at[c] \in {"opening", "publish"} => lock[AgentOf(key[c])] = c
  /\ at[c] \in {"release", "settle"} =>
       \A h \in mine[c] : h \in closing /\ lock[AgentOf(KeyOf(h))] = c
  /\ at[c] \notin Busy => mine[c] = {}
  /\ at[c] = "downLock" =>
       closed /\ \A a \in Agents : a \in want[c] \/ lock[a] = c
  /\ at[c] = "downShut" => closed /\ \A a \in Agents : lock[a] = c

LocksInv == \A c \in Callers : LocksOf(c)

(* A caller's own step keeps its locks in order, and so does every other.  *)
LEMMA OwnLocksStep ==
  ASSUME TypeOK, Keyed, HeldHandle, LocksInv, NEW c \in Callers, Step(c)
  PROVE  LocksOf(c)'
<1> USE DEF Goto, pool, caller, Keyed, KeyedBy, LocksOf, Busy, Woken, TypeOK,
        PoolTypeOK, CallersTypeOK, Locking, Working, Resting
<1> USE PoolAssumption, HandleKey DEF LocksInv
<1>1. ASSUME NEW k \in Key, Open(c, k) PROVE LocksOf(c)'
  BY <1>1 DEF Open
<1>2. ASSUME NEW k \in Key, Peek(c, k) PROVE LocksOf(c)'
  BY <1>2 DEF Peek
<1>3. ASSUME NEW k \in Key, Repoint(c, k) PROVE LocksOf(c)'
  BY <1>3 DEF Repoint
<1>4. ASSUME NEW k \in Key, Close(c, k) PROVE LocksOf(c)'
  BY <1>4 DEF Close, AwaitLocks, GroupToLock
<1>5. ASSUME NEW k \in Key, KillAgentProcess(c, k) PROVE LocksOf(c)'
  BY <1>5 DEF KillAgentProcess, AwaitLocks
<1>6. CASE CloseAll(c)
  BY <1>6 DEF CloseAll, AwaitLocks, RuntimesToLock
<1>7. CASE Release(c)
  BY <1>7 DEF Release, AwaitLocks
<1>8. CASE BeginSessionUse(c)
  BY <1>8 DEF BeginSessionUse, Countable
<1>9. CASE EndSessionUse(c)
  BY <1>9 DEF EndSessionUse, Leave, Unlocked
<1>10. CASE Drop(c)
  BY <1>10 DEF Drop, Leave, Unlocked
<1>11. CASE TakeLock(c)
  BY <1>11 DEF TakeLock, InOrder
<1>12. CASE Check(c)
  BY <1>12 DEF Check, Leave, Give, Unlocked, BeingReleased
<1>13. CASE GiveUp(c)
  BY <1>13 DEF GiveUp, Leave, Unlocked
<1>14. CASE CheckLocked(c)
  BY <1>14 DEF CheckLocked, Locked, FoundLocked, Leave, Give, Unlocked
<1>15. CASE OpenFails(c)
  BY <1>15 DEF OpenFails, Leave, Unlocked
<1>16. CASE OpenSession(c)
  BY <1>16 DEF OpenSession
<1>17. CASE Publish(c)
  BY <1>17 DEF Publish, Leave, Give, Unlocked
<1>18. CASE CloseMoved(c)
  BY <1>18 DEF CloseMoved, AwaitLocks, GroupToLock
<1>19. CASE RepointRefused(c)
  BY <1>19 DEF RepointRefused, Leave, Unlocked
<1>20. CASE TakeSessions(c)
  BY <1>20 DEF TakeSessions, Taken
<1>21. CASE CloseSession(c)
  BY <1>21 DEF CloseSession
<1>22. CASE Closed(c)
  BY <1>22 DEF Closed, Leave, Unlocked
<1>23. CASE Mark(c)
  BY <1>23 DEF Mark, Locked, Unused
<1>24. CASE CloseMarked(c)
  BY <1>24 DEF CloseMarked
<1>25. CASE Settle(c)
  BY <1>25 DEF Settle
<1>26. CASE Released(c)
  BY <1>26 DEF Released, Leave, Unlocked
<1>. QED  BY <1>1, <1>2, <1>3, <1>4, <1>5, <1>6, <1>7, <1>8, <1>9, <1>10,
             <1>11, <1>12, <1>13, <1>14, <1>15, <1>16, <1>17, <1>18, <1>19,
             <1>20, <1>21, <1>22, <1>23, <1>24, <1>25, <1>26 DEF Step, Call,
             Work

(* Shutdown is for good, and marks are only taken back by Settle.          *)
LEMMA MarksStay ==
  ASSUME NEW c \in Callers, Step(c)
  PROVE  (closed => closed') /\ (closing \subseteq closing' \/ Settle(c))
<1>1. ASSUME NEW k \in Key, Call(c, k)  PROVE UNCHANGED <<closed, closing>>
  BY <1>1 DEF Call, Open, Peek, Repoint, Close, KillAgentProcess, pool
<1>2. CASE CloseAll(c) \/ Release(c) \/ GiveUp(c) \/ BeginSessionUse(c)
           \/ EndSessionUse(c) \/ Drop(c) \/ TakeLock(c)
  BY <1>2 DEF CloseAll, Release, GiveUp, BeginSessionUse, EndSessionUse, Drop,
     TakeLock, pool
<1>3. CASE Check(c) \/ CheckLocked(c) \/ OpenFails(c) \/ OpenSession(c)
           \/ Publish(c) \/ CloseMoved(c) \/ RepointRefused(c)
  BY <1>3 DEF Check, CheckLocked, OpenFails, OpenSession, Publish, CloseMoved,
     RepointRefused, pool
<1>4. CASE TakeSessions(c) \/ CloseSession(c) \/ Closed(c) \/ Mark(c)
           \/ CloseMarked(c) \/ Settle(c) \/ Released(c)
  BY <1>4 DEF TakeSessions, CloseSession, Closed, Mark, CloseMarked, Settle,
     Released, pool
<1>. QED  BY <1>1, <1>2, <1>3, <1>4 DEF Step, Work

(* The locks stay in order over any step.                                  *)
LEMMA LocksStep ==
  ASSUME TypeOK, Keyed, HeldHandle, LocksInv, [Next]_vars
  PROVE  LocksInv'
<1> USE DEF LocksInv
<1>1. CASE UNCHANGED vars
  BY <1>1 DEF vars, pool, caller, LocksOf, Busy
<1>2. ASSUME NEW c \in Callers, Step(c), NEW d \in Callers  PROVE LocksOf(d)'
  <2>1. CASE d = c
    BY <1>2, <2>1, OwnLocksStep
  <2>2. CASE d # c
    <3>1. Same(d)
      BY <1>2, <2>2, OthersAreSame
    <3>2. ASSUME at[d] \in {"release", "settle"}, NEW h \in mine[d]
          PROVE  h \in closing' /\ lock'[AgentOf(KeyOf(h))] = d
      <4>1. h \in Handle /\ h \in closing /\ lock[AgentOf(KeyOf(h))] = d
        BY <3>2 DEF LocksOf, TypeOK, PoolTypeOK, CallersTypeOK, Locking,
           Working, Resting
      <4>2. AgentOf(KeyOf(h)) \in Agents
        BY <4>1, HandleKey
      <4>3. h \in closing'
        <5>1. CASE Settle(c)
          <6>1. held[c] \in mine[c] /\ at[c] = "settle"
            BY <5>1 DEF Settle, HeldHandle, HoldsHandle
          <6>2. held[c] # h
            BY <2>2, <4>1, <6>1 DEF LocksOf
          <6>. QED  BY <4>1, <5>1, <6>2 DEF Settle
        <5>. QED  BY <1>2, <4>1, <5>1, MarksStay
      <4>. QED  BY <3>1, <4>1, <4>2, <4>3 DEF Same
    <3>3. ASSUME at[d] \in {"opening", "publish", "openLock"}
          PROVE  AgentOf(key[d]) \in Agents
      BY <3>3, HandleKey DEF Keyed, KeyedBy
    <3>4. closed => closed'
      BY <1>2, MarksStay
    <3>. QED  BY <3>1, <3>2, <3>3, <3>4 DEF Same, LocksOf, Busy
  <2>. QED  BY <2>1, <2>2
<1>. QED  BY <1>1, <1>2 DEF Next

-----------------------------------------------------------------------------
(* Uses: nobody comes to use a marked entry, and none in use is marked.    *)

LEMMA UsesStep ==
  ASSUME TypeOK, ReleaseSparesUses, [Next]_vars
  PROVE  ReleaseSparesUses'
<1> USE DEF pool, Goto, caller, Unused, Countable, TypeOK, PoolTypeOK,
        CallersTypeOK, Locking, Working, Resting
<1> SUFFICES ASSUME NEW c \in Callers, Step(c) PROVE ReleaseSparesUses'
  BY DEF Next, vars, ReleaseSparesUses
<1> USE DEF ReleaseSparesUses, Entries, InPool
<1>1. ASSUME NEW k \in Key, Open(c, k) PROVE ReleaseSparesUses'
  BY <1>1 DEF Open
<1>2. ASSUME NEW k \in Key, Peek(c, k) PROVE ReleaseSparesUses'
  BY <1>2 DEF Peek
<1>3. ASSUME NEW k \in Key, Repoint(c, k) PROVE ReleaseSparesUses'
  BY <1>3 DEF Repoint
<1>4. ASSUME NEW k \in Key, Close(c, k) PROVE ReleaseSparesUses'
  BY <1>4 DEF Close, AwaitLocks, GroupToLock
<1>5. ASSUME NEW k \in Key, KillAgentProcess(c, k) PROVE ReleaseSparesUses'
  BY <1>5 DEF KillAgentProcess, AwaitLocks
<1>6. CASE CloseAll(c)
  BY <1>6 DEF CloseAll, AwaitLocks, RuntimesToLock
<1>7. CASE Release(c)
  BY <1>7 DEF Release, AwaitLocks
<1>8. CASE BeginSessionUse(c)
  BY <1>8 DEF BeginSessionUse
<1>9. CASE EndSessionUse(c)
  BY <1>9 DEF EndSessionUse, Leave, Unlocked
<1>10. CASE Drop(c)
  BY <1>10 DEF Drop, Leave, Unlocked
<1>11. CASE TakeLock(c)
  BY <1>11 DEF TakeLock, InOrder
<1>12. CASE Check(c)
  BY <1>12 DEF Check, Leave, Give, Unlocked, BeingReleased
<1>13. CASE GiveUp(c)
  BY <1>13 DEF GiveUp, Leave, Unlocked
<1>14. CASE CheckLocked(c)
  BY <1>14 DEF CheckLocked, Locked, FoundLocked, Leave, Give, Unlocked
<1>15. CASE OpenFails(c)
  BY <1>15 DEF OpenFails, Leave, Unlocked
<1>16. CASE OpenSession(c)
  BY <1>16 DEF OpenSession
<1>17. CASE Publish(c)
  BY <1>17 DEF Publish, Leave, Give, Unlocked
<1>18. CASE CloseMoved(c)
  BY <1>18 DEF CloseMoved, AwaitLocks, GroupToLock
<1>19. CASE RepointRefused(c)
  BY <1>19 DEF RepointRefused, Leave, Unlocked
<1>20. CASE TakeSessions(c)
  BY <1>20 DEF TakeSessions, Taken
<1>21. CASE CloseSession(c)
  BY <1>21 DEF CloseSession
<1>22. CASE Closed(c)
  BY <1>22 DEF Closed, Leave, Unlocked
<1>23. CASE Mark(c)
  BY <1>23 DEF Mark, Locked
<1>24. CASE CloseMarked(c)
  BY <1>24 DEF CloseMarked
<1>25. CASE Settle(c)
  BY <1>25 DEF Settle
<1>26. CASE Released(c)
  BY <1>26 DEF Released, Leave, Unlocked
<1>. QED  BY <1>1, <1>2, <1>3, <1>4, <1>5, <1>6, <1>7, <1>8, <1>9, <1>10,
             <1>11, <1>12, <1>13, <1>14, <1>15, <1>16, <1>17, <1>18, <1>19,
             <1>20, <1>21, <1>22, <1>23, <1>24, <1>25, <1>26 DEF Step, Call,
             Work

(* Who comes out of GetOrCreate with a session does so by one of these.    *)
LEMMA GotSteps ==
  ASSUME TypeOK, NEW c \in Callers, Step(c), at'[c] = "got",
         at[c] \in {"check", "openLock", "publish"}
  PROVE  Check(c) \/ CheckLocked(c) \/ Publish(c)
<1> USE DEF Goto, pool, caller, TypeOK, PoolTypeOK, CallersTypeOK, Locking,
        Working, Resting
<1>1. ASSUME NEW k \in Key, Open(c, k) PROVE FALSE
  BY <1>1 DEF Open
<1>2. ASSUME NEW k \in Key, Peek(c, k) PROVE FALSE
  BY <1>2 DEF Peek
<1>3. ASSUME NEW k \in Key, Repoint(c, k) PROVE FALSE
  BY <1>3 DEF Repoint
<1>4. ASSUME NEW k \in Key, Close(c, k) PROVE FALSE
  BY <1>4 DEF Close, AwaitLocks, GroupToLock
<1>5. ASSUME NEW k \in Key, KillAgentProcess(c, k) PROVE FALSE
  BY <1>5 DEF KillAgentProcess, AwaitLocks
<1>6. CASE CloseAll(c)
  BY <1>6 DEF CloseAll, AwaitLocks, RuntimesToLock
<1>7. CASE Release(c)
  BY <1>7 DEF Release, AwaitLocks
<1>8. CASE BeginSessionUse(c)
  BY <1>8 DEF BeginSessionUse, Countable
<1>9. CASE EndSessionUse(c)
  BY <1>9 DEF EndSessionUse, Leave, Unlocked
<1>10. CASE Drop(c)
  BY <1>10 DEF Drop, Leave, Unlocked
<1>11. CASE TakeLock(c)
  BY <1>11 DEF TakeLock, InOrder
<1>12. CASE GiveUp(c)
  BY <1>12 DEF GiveUp, Leave, Unlocked
<1>13. CASE OpenFails(c)
  BY <1>13 DEF OpenFails, Leave, Unlocked
<1>14. CASE OpenSession(c)
  BY <1>14 DEF OpenSession
<1>15. CASE CloseMoved(c)
  BY <1>15 DEF CloseMoved, AwaitLocks, GroupToLock
<1>16. CASE RepointRefused(c)
  BY <1>16 DEF RepointRefused, Leave, Unlocked
<1>17. CASE TakeSessions(c)
  BY <1>17 DEF TakeSessions, Taken
<1>18. CASE CloseSession(c)
  BY <1>18 DEF CloseSession
<1>19. CASE Closed(c)
  BY <1>19 DEF Closed, Leave, Unlocked
<1>20. CASE Mark(c)
  BY <1>20 DEF Mark, Locked, Unused
<1>21. CASE CloseMarked(c)
  BY <1>21 DEF CloseMarked
<1>22. CASE Settle(c)
  BY <1>22 DEF Settle
<1>23. CASE Released(c)
  BY <1>23 DEF Released, Leave, Unlocked
<1>. QED  BY <1>1, <1>2, <1>3, <1>4, <1>5, <1>6, <1>7, <1>8, <1>9, <1>10,
             <1>11, <1>12, <1>13, <1>14, <1>15, <1>16, <1>17, <1>18, <1>19,
             <1>20, <1>21, <1>22, <1>23 DEF Step, Call, Work

-----------------------------------------------------------------------------
(* The map of sessions against what is open.                               *)

(* Who opens a session has the map without it, and nobody else has what    *)
(* it opened.                                                              *)
Opening(c) ==
  /\ at[c] \in {"opening", "publish"} => sessions[key[c]] = NoHandle
  /\ at[c] = "publish" =>
       /\ KeyOf(held[c]) = key[c] /\ held[c] \in live \ closing
       /\ \A d \in Callers : held[c] \notin mine[d]

(* What was taken out to be closed is out of the map, and while its lock   *)
(* is held nothing takes its place.                                        *)
TakenOut(c) ==
  at[c] \in {"shut", "downShut"} =>
    \A h \in mine[c] :
      /\ ~InPool(h)
      /\ lock[AgentOf(KeyOf(h))] = c => sessions[KeyOf(h)] = NoHandle
      /\ \A g \in mine[c] : KeyOf(g) = KeyOf(h) => g = h

(* A marked entry in the map is still open, but for the one just closed.   *)
ClosedLast(c) ==
  at[c] \in {"release", "settle"} =>
    \A h \in mine[c] :
      InPool(h) => h \in live \/ (at[c] = "settle" /\ held[c] = h)

(* Handles are numbered as they are opened; no number is used twice.       *)
Allotted(h) ==
  h \in live \/ h \in closing \/ InPool(h) \/ \E d \in Callers : h \in mine[d]

Counted == \A h \in Handle : Allotted(h) => Number(h) <= opened

(* An entry is where its key says, and open, or marked and in the hands of *)
(* the release that marked it.                                             *)
KeysFit == \A k \in Key : sessions[k] # NoHandle => KeyOf(sessions[k]) = k

EntriesOpen == \A h \in Handle : InPool(h) => h \in live \/ h \in closing

Releases(c, h) == at[c] \in {"release", "settle"} /\ h \in mine[c]

MarkedIsHeld ==
  \A h \in Handle :
    InPool(h) /\ h \in closing => \E c \in Callers : Releases(c, h)

(* An open session is in the map or in somebody's hands.                   *)
Hands(c, h) ==
  \/ at[c] = "publish" /\ held[c] = h
  \/ at[c] \in {"shut", "downShut"} /\ h \in mine[c]

Owned(h) == InPool(h) \/ \E c \in Callers : Hands(c, h)

Leakless == \A h \in live : Owned(h)

(* Once CloseAll empties the map it stays empty.                           *)
DownInv ==
  /\ down => /\ closed /\ \A h \in Handle : ~InPool(h)
             /\ \A c \in Callers : at[c] \notin {"opening", "publish"}
  /\ (\E c \in Callers : at[c] = "downShut") => \A h \in Handle : ~InPool(h)

EntriesInv ==
  /\ \A c \in Callers : Opening(c) /\ TakenOut(c) /\ ClosedLast(c)
  /\ Counted /\ KeysFit /\ EntriesOpen /\ MarkedIsHeld /\ Leakless /\ DownInv

(* The inductive invariant.                                                *)
Inv == TypeOK /\ Keyed /\ HeldHandle /\ LocksInv /\ EntriesInv

Stages == {"opening", "publish", "shut", "downShut", "release", "settle"}

(* A step that leaves the map, the marks and what is selected alone.       *)
Quiet(c) ==
  /\ UNCHANGED <<sessions, closing, live, opened, mine, down>>
  /\ closed => closed'
  /\ at[c] # "publish" /\ at'[c] \notin Stages /\ mine[c] = {}

(* The nine actions that do not.                                           *)
Loud(c) ==
  \/ CheckLocked(c) \/ OpenSession(c) \/ Publish(c) \/ TakeSessions(c)
  \/ CloseSession(c) \/ Closed(c) \/ Mark(c) \/ CloseMarked(c) \/ Settle(c)

(* Every other action is quiet, and a quiet step keeps the map in order.   *)
LEMMA QuietStep ==
  ASSUME Inv, NEW c \in Callers, Step(c), ~Loud(c)
  PROVE  Quiet(c)
<1> USE DEF Goto, pool, caller, LocksOf, Busy, Quiet, Stages, TypeOK,
        PoolTypeOK, CallersTypeOK, Locking, Working, Resting
<1> USE DEF Inv, LocksInv
<1>1. ASSUME NEW k \in Key, Open(c, k) PROVE Quiet(c)
  BY <1>1 DEF Open
<1>2. ASSUME NEW k \in Key, Peek(c, k) PROVE Quiet(c)
  BY <1>2 DEF Peek
<1>3. ASSUME NEW k \in Key, Repoint(c, k) PROVE Quiet(c)
  BY <1>3 DEF Repoint
<1>4. ASSUME NEW k \in Key, Close(c, k) PROVE Quiet(c)
  BY <1>4 DEF Close, AwaitLocks, GroupToLock
<1>5. ASSUME NEW k \in Key, KillAgentProcess(c, k) PROVE Quiet(c)
  BY <1>5 DEF KillAgentProcess, AwaitLocks
<1>6. CASE CloseAll(c)
  BY <1>6 DEF CloseAll, AwaitLocks, RuntimesToLock
<1>7. CASE Release(c)
  BY <1>7 DEF Release, AwaitLocks
<1>8. CASE BeginSessionUse(c)
  BY <1>8 DEF BeginSessionUse, Countable
<1>9. CASE EndSessionUse(c)
  BY <1>9 DEF EndSessionUse, Leave, Unlocked
<1>10. CASE Drop(c)
  BY <1>10 DEF Drop, Leave, Unlocked
<1>11. CASE TakeLock(c)
  BY <1>11 DEF TakeLock, InOrder
<1>12. CASE Check(c)
  BY <1>12 DEF Check, Leave, Give, Unlocked, BeingReleased
<1>13. CASE GiveUp(c)
  BY <1>13 DEF GiveUp, Leave, Unlocked
<1>14. CASE OpenFails(c)
  BY <1>14 DEF OpenFails, Leave, Unlocked
<1>15. CASE CloseMoved(c)
  BY <1>15 DEF CloseMoved, AwaitLocks, GroupToLock
<1>16. CASE RepointRefused(c)
  BY <1>16 DEF RepointRefused, Leave, Unlocked
<1>17. CASE Released(c)
  BY <1>17 DEF Released, Leave, Unlocked
<1>. QED  BY <1>1, <1>2, <1>3, <1>4, <1>5, <1>6, <1>7, <1>8, <1>9, <1>10,
             <1>11, <1>12, <1>13, <1>14, <1>15, <1>16, <1>17
          DEF Loud, Step, Call, Work

LEMMA QuietKeeps ==
  ASSUME Inv, TypeOK', NEW c \in Callers, Quiet(c),
         \A d \in Callers : d # c => Same(d)
  PROVE  EntriesInv'
<1> USE DEF Same
<1> USE DEF Inv, EntriesInv, Quiet, Stages, InPool
<1>0. \A h \in Handle : AgentOf(KeyOf(h)) \in Agents
  BY HandleKey
<1>1. ASSUME NEW d \in Callers  PROVE Opening(d)'
  BY DEF Opening
<1>2. ASSUME NEW d \in Callers  PROVE TakenOut(d)'
  BY <1>0 DEF TakenOut, TypeOK, PoolTypeOK, CallersTypeOK, Locking, Working,
     Resting
<1>3. ASSUME NEW d \in Callers  PROVE ClosedLast(d)'
  BY DEF ClosedLast
<1>4. Counted' /\ KeysFit' /\ EntriesOpen'
  BY DEF Counted, Allotted, KeysFit, EntriesOpen
<1>5. MarkedIsHeld'
  BY DEF MarkedIsHeld, Releases
<1>6. Leakless'
  BY DEF Leakless, Owned, Hands
<1>7. DownInv'
  BY DEF DownInv
<1>. QED  BY <1>1, <1>2, <1>3, <1>4, <1>5, <1>6, <1>7

(* The nine actions, one lemma each and in it one step per part of the     *)
(* invariant.                                                              *)
LEMMA CheckLockedKeeps ==
  ASSUME Inv, TypeOK', NEW c \in Callers, CheckLocked(c),
         \A d \in Callers : d # c => Same(d)
  PROVE  EntriesInv'
<1> USE DEF CheckLocked, Locked, FoundLocked, Leave, Give, Goto, Unlocked,
        pool, Same, TypeOK, PoolTypeOK, CallersTypeOK, Locking, Working,
        Resting
<1> USE PoolAssumption, NoneAssumption, HandleKey DEF Inv, EntriesInv, InPool,
        Keyed, KeyedBy, HeldHandle, HoldsHandle, LocksInv, LocksOf
<1>1. ASSUME NEW d \in Callers  PROVE Opening(d)'
  BY DEF Opening, Counted, Allotted
<1>2. ASSUME NEW d \in Callers  PROVE TakenOut(d)'
  BY DEF TakenOut
<1>3. ASSUME NEW d \in Callers  PROVE ClosedLast(d)'
  BY DEF ClosedLast
<1>4. Counted'
  BY DEF Counted, Allotted
<1>5. KeysFit'
  BY DEF KeysFit, Opening
<1>6. EntriesOpen'
  BY DEF EntriesOpen, Opening, TakenOut
<1>7. MarkedIsHeld'
  BY DEF MarkedIsHeld, Releases, Opening
<1>8. Leakless'
  BY DEF Leakless, Owned, Hands
<1>9. DownInv'
  BY DEF DownInv
<1>. QED  BY <1>1, <1>2, <1>3, <1>4, <1>5, <1>6, <1>7, <1>8, <1>9

LEMMA OpenSessionKeeps ==
  ASSUME Inv, TypeOK', NEW c \in Callers, OpenSession(c),
         \A d \in Callers : d # c => Same(d)
  PROVE  EntriesInv'
<1> USE DEF OpenSession, Goto, Same, TypeOK, PoolTypeOK, CallersTypeOK,
        Locking, Working, Resting
<1> USE PoolAssumption, NoneAssumption, HandleKey DEF Inv, EntriesInv, InPool,
        Keyed, KeyedBy, HeldHandle, HoldsHandle, LocksInv, LocksOf
<1>1. ASSUME NEW d \in Callers  PROVE Opening(d)'
  BY DEF Opening, Counted, Allotted
<1>2. ASSUME NEW d \in Callers  PROVE TakenOut(d)'
  BY DEF TakenOut
<1>3. ASSUME NEW d \in Callers  PROVE ClosedLast(d)'
  BY DEF ClosedLast
<1>4. Counted'
  BY DEF Counted, Allotted
<1>5. KeysFit'
  BY DEF KeysFit, Opening
<1>6. EntriesOpen'
  BY DEF EntriesOpen, Opening, TakenOut
<1>7. MarkedIsHeld'
  BY DEF MarkedIsHeld, Releases, Opening
<1>8. Leakless'
  BY DEF Leakless, Owned, Hands
<1>9. DownInv'
  BY DEF DownInv
<1>. QED  BY <1>1, <1>2, <1>3, <1>4, <1>5, <1>6, <1>7, <1>8, <1>9

LEMMA PublishKeeps ==
  ASSUME Inv, TypeOK', NEW c \in Callers, Publish(c),
         \A d \in Callers : d # c => Same(d)
  PROVE  EntriesInv'
<1> USE DEF TypeOK, PoolTypeOK, CallersTypeOK, Locking, Working, Resting
<1> USE PoolAssumption, NoneAssumption, HandleKey DEF Inv, EntriesInv, InPool,
        Keyed, KeyedBy, HeldHandle, HoldsHandle, LocksInv, LocksOf
<1>1. /\ sessions[key[c]] = NoHandle /\ key[c] \in Key /\ held[c] \in Handle
      /\ KeyOf(held[c]) = key[c] /\ held[c] \in live
      /\ \A d \in Callers : held[c] \notin mine[d]
      /\ lock[AgentOf(key[c])] = c /\ at[c] = "publish"
      /\ \A d \in Callers : mine'[d] = mine[d]
  BY DEF Publish, Opening, Leave, Give
<1>2. at'[c] \in {"idle", "got"} /\ opened' = opened /\ closing' = closing
  BY DEF Publish, Leave, Give, Goto
<1>3. \/ sessions' = sessions /\ live' = live \ {held[c]}
      \/ sessions' = [sessions EXCEPT ![key[c]] = held[c]] /\ live' = live
  BY <1>1 DEF Publish
<1>4. \A h \in Handle : h # held[c] => InPool(h)' = InPool(h)
  BY <1>1, <1>3
<1>5. ASSUME NEW d \in Callers  PROVE Opening(d)'
  BY DEF Publish, Leave, Give, Goto, Unlocked, Opening, Same, Counted, Allotted
<1>6. ASSUME NEW d \in Callers  PROVE TakenOut(d)'
  BY <1>1, <1>2, <1>3, <1>4 DEF TakenOut, Same
<1>7. ASSUME NEW d \in Callers  PROVE ClosedLast(d)'
  BY <1>1, <1>2, <1>3, <1>4 DEF ClosedLast, Same
<1>8. Counted'
  BY <1>1, <1>2, <1>3, <1>4 DEF Counted, Allotted
<1>9. KeysFit'
  BY DEF Publish, Leave, Give, Goto, Unlocked, KeysFit, Opening
<1>10. EntriesOpen'
  BY DEF Publish, Leave, Give, Goto, Unlocked, EntriesOpen, Opening, TakenOut
<1>11. MarkedIsHeld'
  BY DEF Publish, Leave, Give, Goto, Unlocked, MarkedIsHeld, Releases, Same,
     Opening
<1>12. ASSUME NEW h \in live'  PROVE Owned(h)'
  <2>1. h \in Handle /\ h \in live
    BY <1>1, <1>3
  <2>2. CASE h = held[c]
    BY <1>1, <1>3, <2>2 DEF Owned
  <2>3. CASE h # held[c]
    <3>1. CASE InPool(h)
      BY <1>4, <2>1, <2>3, <3>1 DEF Owned
    <3>2. ASSUME NEW d \in Callers, Hands(d, h)  PROVE Owned(h)'
      <4>1. d # c
        BY <1>1, <2>3, <3>2 DEF Hands
      <4>2. Hands(d, h)'
        BY <3>2, <4>1 DEF Hands, Same
      <4>. QED  BY <4>2 DEF Owned
    <3>. QED  BY <2>1, <3>1, <3>2 DEF Leakless, Owned
  <2>. QED  BY <2>2, <2>3
<1>13. DownInv'
  BY DEF Publish, Leave, Give, Goto, Unlocked, DownInv, Same
<1>. QED  BY <1>5, <1>6, <1>7, <1>8, <1>9, <1>10, <1>11, <1>12, <1>13
          DEF Leakless

LEMMA TakeSessionsKeeps ==
  ASSUME Inv, TypeOK', NEW c \in Callers, TakeSessions(c),
         \A d \in Callers : d # c => Same(d)
  PROVE  EntriesInv'
<1> USE DEF TakeSessions, Taken, Entries, Goto, Same, TypeOK, PoolTypeOK,
        CallersTypeOK, Locking, Working, Resting
<1> USE PoolAssumption, NoneAssumption, HandleKey DEF Inv, EntriesInv, InPool,
        Keyed, KeyedBy, HeldHandle, HoldsHandle, LocksInv, LocksOf
<1>1. ASSUME NEW d \in Callers  PROVE Opening(d)'
  BY DEF Opening, Counted, Allotted
<1>2. ASSUME NEW d \in Callers  PROVE TakenOut(d)'
  BY DEF TakenOut
<1>3. ASSUME NEW d \in Callers  PROVE ClosedLast(d)'
  BY DEF ClosedLast
<1>4. Counted'
  BY DEF Counted, Allotted
<1>5. KeysFit'
  BY DEF KeysFit, Opening
<1>6. EntriesOpen'
  BY DEF EntriesOpen, Opening, TakenOut
<1>7. MarkedIsHeld'
  BY DEF MarkedIsHeld, Releases, Opening
<1>8. Leakless'
  BY DEF Leakless, Owned, Hands
<1>9. DownInv'
  BY DEF DownInv
<1>. QED  BY <1>1, <1>2, <1>3, <1>4, <1>5, <1>6, <1>7, <1>8, <1>9

LEMMA CloseSessionKeeps ==
  ASSUME Inv, TypeOK', NEW c \in Callers, CloseSession(c),
         \A d \in Callers : d # c => Same(d)
  PROVE  EntriesInv'
<1> USE DEF CloseSession, pool, Same, TypeOK, PoolTypeOK, CallersTypeOK,
        Locking, Working, Resting
<1> USE PoolAssumption, NoneAssumption, HandleKey DEF Inv, EntriesInv, InPool,
        Keyed, KeyedBy, HeldHandle, HoldsHandle, LocksInv, LocksOf
<1>1. ASSUME NEW d \in Callers  PROVE Opening(d)'
  BY DEF Opening, Counted, Allotted
<1>2. ASSUME NEW d \in Callers  PROVE TakenOut(d)'
  BY DEF TakenOut
<1>3. ASSUME NEW d \in Callers  PROVE ClosedLast(d)'
  BY DEF ClosedLast, TakenOut
<1>4. Counted'
  BY DEF Counted, Allotted
<1>5. KeysFit'
  BY DEF KeysFit, Opening
<1>6. EntriesOpen'
  BY DEF EntriesOpen, Opening, TakenOut
<1>7. MarkedIsHeld'
  BY DEF MarkedIsHeld, Releases, Opening
<1>8. Leakless'
  BY DEF Leakless, Owned, Hands
<1>9. DownInv'
  BY DEF DownInv
<1>. QED  BY <1>1, <1>2, <1>3, <1>4, <1>5, <1>6, <1>7, <1>8, <1>9

LEMMA ClosedKeeps ==
  ASSUME Inv, TypeOK', NEW c \in Callers, Closed(c),
         \A d \in Callers : d # c => Same(d)
  PROVE  EntriesInv'
<1> USE DEF Closed, Leave, Goto, Unlocked, Same, TypeOK, PoolTypeOK,
        CallersTypeOK, Locking, Working, Resting
<1> USE PoolAssumption, NoneAssumption, HandleKey DEF Inv, EntriesInv, InPool,
        Keyed, KeyedBy, HeldHandle, HoldsHandle, LocksInv, LocksOf
<1>1. ASSUME NEW d \in Callers  PROVE Opening(d)'
  BY DEF Opening, Counted, Allotted
<1>2. ASSUME NEW d \in Callers  PROVE TakenOut(d)'
  BY DEF TakenOut
<1>3. ASSUME NEW d \in Callers  PROVE ClosedLast(d)'
  BY DEF ClosedLast
<1>4. Counted'
  BY DEF Counted, Allotted
<1>5. KeysFit'
  BY DEF KeysFit, Opening
<1>6. EntriesOpen'
  BY DEF EntriesOpen, Opening, TakenOut
<1>7. MarkedIsHeld'
  BY DEF MarkedIsHeld, Releases, Opening
<1>8. Leakless'
  BY DEF Leakless, Owned, Hands
<1>9. DownInv'
  BY DEF DownInv
<1>. QED  BY <1>1, <1>2, <1>3, <1>4, <1>5, <1>6, <1>7, <1>8, <1>9

LEMMA MarkKeeps ==
  ASSUME Inv, TypeOK', NEW c \in Callers, Mark(c),
         \A d \in Callers : d # c => Same(d)
  PROVE  EntriesInv'
<1> USE DEF Mark, Locked, Unused, Entries, Goto, Same, TypeOK, PoolTypeOK,
        CallersTypeOK, Locking, Working, Resting
<1> USE PoolAssumption, NoneAssumption, HandleKey DEF Inv, EntriesInv, InPool,
        Keyed, KeyedBy, HeldHandle, HoldsHandle, LocksInv, LocksOf
<1>1. ASSUME NEW d \in Callers  PROVE Opening(d)'
  BY DEF Opening, Counted, Allotted
<1>2. ASSUME NEW d \in Callers  PROVE TakenOut(d)'
  BY DEF TakenOut
<1>3. ASSUME NEW d \in Callers  PROVE ClosedLast(d)'
  BY DEF ClosedLast, EntriesOpen
<1>4. Counted'
  BY DEF Counted, Allotted
<1>5. KeysFit'
  BY DEF KeysFit, Opening
<1>6. EntriesOpen'
  BY DEF EntriesOpen, Opening, TakenOut
<1>7. MarkedIsHeld'
  BY DEF MarkedIsHeld, Releases, Opening
<1>8. Leakless'
  BY DEF Leakless, Owned, Hands
<1>9. DownInv'
  BY DEF DownInv
<1>. QED  BY <1>1, <1>2, <1>3, <1>4, <1>5, <1>6, <1>7, <1>8, <1>9

LEMMA CloseMarkedKeeps ==
  ASSUME Inv, TypeOK', NEW c \in Callers, CloseMarked(c),
         \A d \in Callers : d # c => Same(d)
  PROVE  EntriesInv'
<1> USE DEF CloseMarked, Goto, Same, TypeOK, PoolTypeOK, CallersTypeOK,
        Locking, Working, Resting
<1> USE PoolAssumption, NoneAssumption, HandleKey DEF Inv, EntriesInv, InPool,
        Keyed, KeyedBy, HeldHandle, HoldsHandle, LocksInv, LocksOf
<1>1. ASSUME NEW d \in Callers  PROVE Opening(d)'
  BY DEF Opening, Counted, Allotted
<1>2. ASSUME NEW d \in Callers  PROVE TakenOut(d)'
  BY DEF TakenOut
<1>3. ASSUME NEW d \in Callers  PROVE ClosedLast(d)'
  BY DEF ClosedLast
<1>4. Counted'
  BY DEF Counted, Allotted
<1>5. KeysFit'
  BY DEF KeysFit, Opening
<1>6. EntriesOpen'
  BY DEF EntriesOpen, Opening, TakenOut
<1>7. MarkedIsHeld'
  BY DEF MarkedIsHeld, Releases, Opening
<1>8. Leakless'
  BY DEF Leakless, Owned, Hands
<1>9. DownInv'
  BY DEF DownInv
<1>. QED  BY <1>1, <1>2, <1>3, <1>4, <1>5, <1>6, <1>7, <1>8, <1>9

LEMMA SettleKeeps ==
  ASSUME Inv, TypeOK', NEW c \in Callers, Settle(c),
         \A d \in Callers : d # c => Same(d)
  PROVE  EntriesInv'
<1> USE DEF Settle, Woken, InPool, Same, TypeOK, PoolTypeOK, CallersTypeOK,
        Locking, Working, Resting
<1> USE PoolAssumption, NoneAssumption, HandleKey DEF Inv, EntriesInv, InPool,
        Keyed, KeyedBy, HeldHandle, HoldsHandle, LocksInv, LocksOf
<1>1. ASSUME NEW d \in Callers  PROVE Opening(d)'
  BY DEF Opening, Counted, Allotted
<1>2. ASSUME NEW d \in Callers  PROVE TakenOut(d)'
  BY DEF TakenOut
<1>3. ASSUME NEW d \in Callers  PROVE ClosedLast(d)'
  BY DEF ClosedLast
<1>4. Counted'
  BY DEF Counted, Allotted
<1>5. KeysFit'
  BY DEF KeysFit, Opening
<1>6. EntriesOpen'
  BY DEF EntriesOpen, Opening, TakenOut
<1>7. MarkedIsHeld'
  BY DEF MarkedIsHeld, Releases, Opening
<1>8. Leakless'
  BY DEF Leakless, Owned, Hands
<1>9. DownInv'
  BY DEF DownInv
<1>. QED  BY <1>1, <1>2, <1>3, <1>4, <1>5, <1>6, <1>7, <1>8, <1>9

-----------------------------------------------------------------------------
(* The invariant holds at the start and is kept by every step.             *)
LEMMA InvInit ==
  Init => Inv /\ ReleaseSparesUses
<1> SUFFICES ASSUME Init  PROVE Inv /\ ReleaseSparesUses
  OBVIOUS
<1> USE PoolAssumption, NoneAssumption DEF Init
<1>1. TypeOK
  <2>1. PoolTypeOK
    <3>1. uses \in [Handle -> SUBSET Callers]
      OBVIOUS
    <3>2. sessions \in [Key -> Handle \cup {NoHandle}]
      OBVIOUS
    <3>3. closed \in BOOLEAN /\ down \in BOOLEAN
      BY Zenon
    <3>4. opened \in 0..MaxOpens /\ failures \in 0..MaxFailures
      OBVIOUS
    <3>. QED  BY <3>1, <3>2, <3>3, <3>4 DEF PoolTypeOK
  <2>2. CallersTypeOK
    BY DEF CallersTypeOK, Locking, Working, Resting
  <2>. QED  BY <2>1, <2>2 DEF TypeOK
<1>2. Keyed /\ HeldHandle /\ LocksInv
  BY DEF Keyed, KeyedBy, HeldHandle, HoldsHandle, LocksInv, LocksOf, Busy
<1>3. \A h \in Handle : KeyOf(h) \in Key /\ ~InPool(h)
  BY HandleKey DEF InPool
<1>4. EntriesInv
  BY <1>3 DEF EntriesInv, Opening, TakenOut, ClosedLast, Counted, Allotted,
     KeysFit, EntriesOpen, MarkedIsHeld, Leakless, DownInv
<1>5. ReleaseSparesUses
  BY DEF ReleaseSparesUses
<1>. QED  BY <1>1, <1>2, <1>4, <1>5 DEF Inv

LEMMA InvStep ==
  ASSUME Inv, [Next]_vars
  PROVE  Inv'
<1>1. TypeOK' /\ Keyed' /\ HeldHandle' /\ LocksInv'
  BY TypeStep, BaseStep, LocksStep DEF Inv
<1>2. EntriesInv'
  <2>1. CASE UNCHANGED vars
    BY <2>1 DEF vars, pool, caller, Inv, EntriesInv, Opening, TakenOut,
       ClosedLast, Counted, Allotted, KeysFit, EntriesOpen, MarkedIsHeld,
       Releases, Leakless, Owned, Hands, DownInv, InPool
  <2>2. ASSUME NEW c \in Callers, Step(c)  PROVE EntriesInv'
    <3>1. \A d \in Callers : d # c => Same(d)
      BY <2>2, OthersAreSame DEF Inv
    <3>2. CASE Loud(c)
      BY <1>1, <3>1, <3>2, CheckLockedKeeps, OpenSessionKeeps, PublishKeeps,
         TakeSessionsKeeps, CloseSessionKeeps, ClosedKeeps, MarkKeeps,
         CloseMarkedKeeps, SettleKeeps DEF Loud
    <3>. QED  BY <1>1, <2>2, <3>1, <3>2, QuietStep, QuietKeeps
  <2>. QED  BY <2>1, <2>2 DEF Next
<1>. QED  BY <1>1, <1>2 DEF Inv

(* Every reachable state of the pool has its locks and its map in order.   *)
THEOREM InvCorrect == Spec => []Inv
<1>1. Init => Inv
  BY InvInit
<1>2. Inv /\ [Next]_vars => Inv'
  BY InvStep
<1>. QED  BY <1>1, <1>2, PTL DEF Spec

(* The variables of the pool have their types, for any number of agents,   *)
(* sessions and callers.                                                   *)
THEOREM PoolTypeCorrect == Spec => []TypeOK
BY InvCorrect, PTL DEF Inv

(* The release never closes a session whose use was counted                *)
(* (releaseSessionsDetailed looks again under the locks, BeginSessionUse   *)
(* refuses a marked entry).                                                *)
THEOREM ReleaseCorrect == Spec => []ReleaseSparesUses
<1>1. Init => ReleaseSparesUses
  BY InvInit
<1>2. Inv /\ ReleaseSparesUses /\ [Next]_vars => ReleaseSparesUses'
  BY UsesStep DEF Inv
<1>. QED  BY <1>1, <1>2, InvCorrect, PTL DEF Spec

(* A session runs in one process at a time: GetOrCreate looks again under  *)
(* the lock of the runtime group, and whoever closes holds it.             *)
THEOREM OneProcessCorrect == Spec => []OneProcess
<1>1. ASSUME Inv  PROVE OneProcess
  <2> SUFFICES ASSUME NEW g \in live, NEW h \in live, KeyOf(g) = KeyOf(h),
                      ~Stray(g), ~Stray(h)
               PROVE  g = h
    BY DEF OneProcess
  <2> USE DEF Inv, EntriesInv
  <2>1. g \in Handle /\ h \in Handle /\ AgentOf(KeyOf(h)) \in Agents
    BY <1>1, HandleKey DEF TypeOK, PoolTypeOK, CallersTypeOK, Locking, Working,
       Resting
  (* Who has a session in hand holds the lock of its group, and the map     *)
  (* has no entry for it.                                                   *)
  <2>2. ASSUME NEW x \in live, KeyOf(x) = KeyOf(h), ~Stray(x),
               NEW c \in Callers, Hands(c, x)
        PROVE  lock[AgentOf(KeyOf(h))] = c /\ sessions[KeyOf(h)] = NoHandle
    <3>1. CASE at[c] = "publish" /\ held[c] = x
      BY <1>1, <2>2, <3>1 DEF Opening, LocksInv, LocksOf
    <3>2. CASE at[c] = "shut" /\ x \in mine[c]
      BY <1>1, <2>2, <3>2 DEF Stray, TakenOut
    <3>3. CASE at[c] = "downShut" /\ x \in mine[c]
      BY <1>1, <2>1, <2>2, <3>3 DEF LocksInv, LocksOf, TakenOut
    <3>. QED  BY <2>2, <3>1, <3>2, <3>3 DEF Hands
  <2>3. CASE InPool(g) /\ InPool(h)
    BY <2>3 DEF InPool
  <2>4. ASSUME NEW c \in Callers, Hands(c, g)  PROVE g = h
    <3>1. lock[AgentOf(KeyOf(h))] = c /\ sessions[KeyOf(h)] = NoHandle
      BY <2>2, <2>4
    <3>2. ~InPool(h)
      BY <2>1, <3>1, NoneAssumption DEF InPool
    <3>3. Hands(c, h)
      BY <1>1, <2>2, <3>1, <3>2 DEF Leakless, Owned
    <3>. QED  BY <1>1, <2>4, <3>3 DEF Hands, TakenOut
  <2>5. ASSUME NEW c \in Callers, Hands(c, h)  PROVE g = h
    <3>1. lock[AgentOf(KeyOf(h))] = c /\ sessions[KeyOf(h)] = NoHandle
      BY <2>2, <2>5
    <3>2. ~InPool(g)
      BY <2>1, <3>1, NoneAssumption DEF InPool
    <3>. QED  BY <1>1, <2>4, <3>2 DEF Leakless, Owned
  <2>. QED  BY <1>1, <2>3, <2>4, <2>5 DEF Leakless, Owned
<1>. QED  BY <1>1, InvCorrect, PTL

(* No open session is lost: it is in the map, or somebody is about to      *)
(* enter or to close it; once CloseAll has returned there is none to come. *)
THEOREM LeaksCorrect == Spec => []NothingLeaks
<1>1. ASSUME Inv  PROVE NothingLeaks
  <2>1. ASSUME NEW h \in live
        PROVE  \/ InPool(h)
               \/ \E c \in Callers : at[c] = "publish" /\ held[c] = h
               \/ \E c \in Callers :
                    at[c] \in {"shut", "downShut"} /\ h \in mine[c]
    BY <1>1, <2>1 DEF Inv, EntriesInv, Leakless, Owned, Hands
  <2>2. down => /\ Entries = {}
                /\ \A c \in Callers : at[c] \notin {"opening", "publish"}
    BY <1>1 DEF Inv, EntriesInv, DownInv, Entries
  <2>. QED  BY <2>1, <2>2 DEF NothingLeaks
<1>. QED  BY <1>1, InvCorrect, PTL

(* What GetOrCreate hands out is open, not being released and registered.  *)
THEOREM HandedOutCorrect == Spec => HandedOutOpen
<1> DEFINE GivesOpen(c) ==
             at[c] \in {"check", "openLock", "publish"} /\ at'[c] = "got"
                       => /\ held'[c] \in live' \ closing'
                          /\ sessions'[key[c]] = held'[c]
<1>1. ASSUME Inv, [Next]_vars, NEW c \in Callers  PROVE GivesOpen(c)
  <2> SUFFICES ASSUME at[c] \in {"check", "openLock", "publish"}, at'[c] = "got"
               PROVE  /\ held'[c] \in live' \ closing'
                      /\ sessions'[key[c]] = held'[c]
    OBVIOUS
  <2> USE DEF Inv
  <2>1. PICK d \in Callers : Step(d)
    BY <1>1 DEF Next, vars, caller
  <2>2. d = c
    BY <1>1, <2>1, OthersAreSame DEF Same
  <2>3. Check(c) \/ CheckLocked(c) \/ Publish(c)
    BY <1>1, <2>1, <2>2, GotSteps
  <2>4. key[c] \in Key
    BY <1>1 DEF Keyed, KeyedBy
  <2>5. CASE Check(c)
    <3>1. sessions[key[c]] # NoHandle /\ ~(sessions[key[c]] \in closing)
      BY <1>1, <2>5 DEF Check, Leave, Give, Goto, BeingReleased, TypeOK,
         PoolTypeOK, CallersTypeOK, Locking, Working, Resting
    <3>2. InPool(sessions[key[c]]) /\ sessions[key[c]] \in Handle
      BY <1>1, <2>4, <3>1 DEF EntriesInv, KeysFit, InPool, TypeOK, PoolTypeOK,
         CallersTypeOK, Locking, Working, Resting
    <3>3. sessions[key[c]] \in live
      BY <1>1, <3>1, <3>2 DEF EntriesInv, EntriesOpen
    <3>4. held'[c] = sessions[key[c]]
      BY <1>1, <2>5 DEF Check, Leave, Give, Goto, TypeOK, PoolTypeOK,
         CallersTypeOK, Locking, Working, Resting
    <3>. QED  BY <2>5, <3>1, <3>3, <3>4 DEF Check, pool
  <2>6. CASE CheckLocked(c)
    <3>1. sessions[key[c]] # NoHandle /\ held'[c] = sessions[key[c]]
      BY <1>1, <2>6 DEF CheckLocked, Locked, FoundLocked, Leave, Give, Goto,
         TypeOK, PoolTypeOK, CallersTypeOK, Locking, Working, Resting
    <3>2. InPool(sessions[key[c]]) /\ sessions[key[c]] \in Handle
          /\ KeyOf(sessions[key[c]]) = key[c]
      BY <1>1, <2>4, <3>1 DEF EntriesInv, KeysFit, InPool, TypeOK, PoolTypeOK,
         CallersTypeOK, Locking, Working, Resting
    <3>3. lock[AgentOf(key[c])] = c /\ at[c] = "openLock"
      BY <1>1, <2>6 DEF CheckLocked, Locked, LocksInv, LocksOf
    <3>4. sessions[key[c]] \notin closing
      BY <1>1, <3>2, <3>3 DEF EntriesInv, MarkedIsHeld, Releases, LocksInv,
         LocksOf
    <3>5. sessions[key[c]] \in live
      BY <1>1, <3>2, <3>4 DEF EntriesInv, EntriesOpen
    <3>. QED  BY <2>6, <3>1, <3>4, <3>5 DEF CheckLocked, pool
  <2>7. CASE Publish(c)
    <3>1. /\ sessions[key[c]] = NoHandle /\ held[c] \in live \ closing
          /\ at[c] = "publish"
      BY <1>1, <2>7 DEF Publish, EntriesInv, Opening
    <3>2. /\ sessions' = [sessions EXCEPT ![key[c]] = held[c]] /\ live' = live
          /\ held' = [held EXCEPT ![c] = held[c]] /\ closing' = closing
      BY <1>1, <2>7, <3>1 DEF Publish, Leave, Give, Goto, TypeOK, PoolTypeOK,
         CallersTypeOK, Locking, Working, Resting
    <3>. QED  BY <1>1, <2>4, <3>1, <3>2 DEF TypeOK, PoolTypeOK, CallersTypeOK,
                 Locking, Working, Resting
  <2>. QED  BY <2>3, <2>5, <2>6, <2>7
<1>2. Inv /\ [Next]_vars => [\A c \in Callers : GivesOpen(c)]_vars
  BY <1>1
<1>. QED  BY <1>2, InvCorrect, PTL DEF Spec, HandedOutOpen
=============================================================================
