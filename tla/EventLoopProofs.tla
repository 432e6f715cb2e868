--------------------------- MODULE EventLoopProofs ---------------------------
(***************************************************************************)
(* Type correctness and mutual exclusion of EventLoop for any number of    *)
(* application threads, timers and idle functions, and that it implements  *)
(* OneShotTimers.                                                          *)
(***************************************************************************)
EXTENDS EventLoop, TLAPS

LockedSteps == {"register", "erase", "rearm", "purge"}
TimerSteps  == {"postTimer", "register", "lockCancel", "erase", "lockRearm", "rearm"}
WorkerSteps == {"ready", "loadGeneration", "postIdle"}

\* Every call works on an argument of its kind.
ArgsFit ==
  /\ \A t \in Threads :
       /\ pc[t] \in TimerSteps => arg[t] \in Timers
       /\ pc[t] \in {"loadGeneration", "postIdle"} => arg[t] \in Idles
  /\ phase \in {"checked", "removing"} => cur \in Timers

\* The mutex is held in exactly the steps that say so; while the loop runs
\* only the loop thread holds it across a step.
MutexInv ==
  /\ \A t \in Threads : pc[t] \in LockedSteps <=> mutex = t
  /\ running /\ mutex # NoThread => mutex = Main

\* m_loopRunning is set exactly while Main is inside enterLoop().
LoopInv ==
  /\ running <=> phase \notin {"out", "left"}
  /\ phase \in {"checked", "removing", "leaving"} => pc[Main] = "ready"
  /\ \A t \in Threads : pc[t] = "purge" => t = Main /\ running

\* No call can touch loop state any more.
Down == terminate /\ ~running /\ mutex = NoThread

CleanupInv ==
  /\ \A t \in Threads : pc[t] \in {"readRunning", "postStop"} => terminate
  /\ \A t \in Threads : pc[t] = "cleanup" => Down
  /\ \A t \in Threads : pc[t] \in CleanupSteps => cleaned
  /\ \A t, u \in Threads : pc[t] \in CleanupSteps /\ pc[u] \in CleanupSteps => t = u
  /\ cleaned => Down
  /\ ~executorUp => cleaned /\ ~gathererUp

WorkerInv ==
  /\ pc[Gatherer] \in WorkerSteps
  /\ gathererUp \/ pc[Gatherer] = "ready"
  /\ \A t \in Threads : pc[t] \in {"clearTimers", "resetLoop"} => ~gathererUp

\* The inductive invariant.
IInv == TypeOK /\ ArgsFit /\ MutexInv /\ LoopInv /\ CleanupInv /\ WorkerInv
-----------------------------------------------------------------------------
\* What the executor's queue holds stays well formed when a closure is posted
\* and when the oldest one is taken.
LEMMA PostKeepsQueue ==
  ASSUME queue \in Seq(Closures), NEW c \in Closures, Post(c)
  PROVE  queue' \in Seq(Closures)
BY DEF Post

LEMMA TakeKeepsQueue ==
  ASSUME queue \in Seq(Closures), queue # <<>>
  PROVE  Head(queue) \in Closures /\ Tail(queue) \in Seq(Closures)
OBVIOUS

\* A closure carries what its kind says.
LEMMA ClosureFits ==
  ASSUME NEW c \in Closures
  PROVE  /\ c.kind = "timer" => c.id \in Timers
         /\ c.kind = "idle"  => c.id \in Idles
BY DEF Closures
-----------------------------------------------------------------------------

\* Every step preserves the inductive invariant.
THEOREM Inductive == IInv /\ [Next]_vars => IInv'
<1> SUFFICES ASSUME IInv, [Next]_vars
             PROVE  IInv'
  OBVIOUS
<1> USE EventLoopAssumption
    DEF IInv, TypeOK, ArgsFit, MutexInv, LoopInv, CleanupInv, WorkerInv, Down,
        Steps, Phases, TimerSteps, LockedSteps, CleanupSteps, WorkerSteps,
        Threads, AppThreads, mutexVars, stateVars, loopVars, lifeVars, timerVars,
        idleVars, history
<1>1. ASSUME NEW t \in Threads, NEW tm \in Timers, AddTimer(t, tm)
      PROVE  IInv'
  <2>1. TypeOK'
    <3>1. calls' \in [Timers -> Nat]
      BY <1>1 DEF AddTimer
    <3>2. QED
      BY <1>1, <3>1, SMTT(60) DEF AddTimer, Begin
  <2>2. QED
    BY <1>1, <2>1 DEF AddTimer, MayCall, OffLoop, Begin
<1>2. ASSUME NEW t \in Threads, PostTimer(t)
      PROVE  IInv'
  <2>1. [kind |-> "timer", id |-> arg[t]] \in Closures
    BY <1>2 DEF PostTimer, Closures
  <2>2. queue' \in Seq(Closures)
    BY <1>2, <2>1, PostKeepsQueue DEF PostTimer
  <2>3. QED
    BY <1>2, <2>2 DEF PostTimer, Return, Begin
<1>3. ASSUME NEW t \in Threads, RegisterTimer(t)
      PROVE  IInv'
  BY <1>3 DEF RegisterTimer, Unlock, Return, Begin
<1>4. ASSUME NEW t \in Threads, NEW tm \in Timers, Cancel(t, tm)
      PROVE  IInv'
  BY <1>4 DEF Cancel, MayCall, Held, Begin
<1>5. ASSUME NEW t \in Threads, NEW tm \in Timers, Rearm(t, tm)
      PROVE  IInv'
  BY <1>5 DEF Rearm, MayCall, Held, Begin
<1>6. ASSUME NEW t \in Threads, LockCancel(t)
      PROVE  IInv'
  <2>1. TypeOK'
    BY <1>6 DEF LockCancel, LockTimer, Goto, Return, Begin, Lock
  <2>2. QED
    BY <1>6, <2>1 DEF LockCancel, LockTimer, OffLoop, Goto, Return, Begin, Lock
<1>7. ASSUME NEW t \in Threads, LockRearm(t)
      PROVE  IInv'
  BY <1>7 DEF LockRearm, LockTimer, OffLoop, Goto, Return, Begin, Lock
<1>8. ASSUME NEW t \in Threads, Erase(t)
      PROVE  IInv'
  BY <1>8 DEF Erase, Unlock, Return, Begin
<1>9. ASSUME NEW t \in Threads, UpdateLoopTimer(t)
      PROVE  IInv'
  BY <1>9 DEF UpdateLoopTimer, Unlock, Return, Begin
<1>10. ASSUME NEW tm \in Timers, Expire(tm)
      PROVE  IInv'
  BY <1>10 DEF Expire
<1>11. ASSUME NEW tm \in Timers, ComeDue(tm)
      PROVE  IInv'
  BY <1>11 DEF ComeDue
<1>12. ASSUME NEW t \in Threads, NEW i \in Idles, AddIdle(t, i)
      PROVE  IInv'
  BY <1>12 DEF AddIdle, MayCall, Begin
<1>13. ASSUME NEW t \in Threads, LoadGeneration(t)
      PROVE  IInv'
  BY <1>13 DEF LoadGeneration, Goto
<1>14. ASSUME NEW t \in Threads, PostIdle(t)
      PROVE  IInv'
  <2>1. [kind |-> "idle", id |-> arg[t]] \in Closures
    BY <1>14 DEF PostIdle, Closures
  <2>2. queue' \in Seq(Closures)
    BY <1>14, <2>1, PostKeepsQueue DEF PostIdle
  <2>3. QED
    BY <1>14, <2>2 DEF PostIdle, Return, Begin
<1>15. CASE CancelPending
  BY <1>15 DEF CancelPending, MayCall, Lock, Goto
<1>16. CASE Purge
  BY <1>16 DEF Purge, Unlock, Return, Begin
<1>17. ASSUME NEW t \in Threads, Terminate(t)
      PROVE  IInv'
  BY <1>17 DEF Terminate, MayCall, Goto
<1>18. ASSUME NEW t \in Threads, ReadRunning(t)
      PROVE  IInv'
  BY <1>18 DEF ReadRunning, Goto
<1>19. ASSUME NEW t \in Threads, PostStop(t)
      PROVE  IInv'
  <2>1. [kind |-> "stop"] \in Closures
    BY <1>19 DEF PostStop, Closures
  <2>2. queue' \in Seq(Closures)
    BY <1>19, <2>1, PostKeepsQueue DEF PostStop
  <2>3. QED
    <3>1. TypeOK'
      BY <1>19, <2>2, SMTT(60) DEF PostStop, Return, Begin, Goto
    <3>2. QED
      BY <1>19, <2>2, <3>1, SMTT(60) DEF PostStop, Return, Begin, Goto
<1>20. ASSUME NEW t \in Threads, Cleanup(t)
      PROVE  IInv'
  <2>1. TypeOK'
    BY <1>20, SMTT(60) DEF Cleanup, Return, Begin, Goto
  <2>2. QED
    BY <1>20, <2>1, SMTT(60) DEF Cleanup, Return, Begin, Goto
<1>21. ASSUME NEW t \in Threads, JoinGatherer(t)
      PROVE  IInv'
  BY <1>21 DEF JoinGatherer, Goto
<1>22. ASSUME NEW t \in Threads, ClearTimers(t)
      PROVE  IInv'
  BY <1>22 DEF ClearTimers, Goto
<1>23. ASSUME NEW t \in Threads, ResetLoop(t)
      PROVE  IInv'
  <2>1. queue' \in Seq(Closures)
    BY <1>23 DEF ResetLoop
  <2>2. QED
    BY <1>23, <2>1 DEF ResetLoop, Return, Begin
<1>24. CASE EnterLoop
  BY <1>24 DEF EnterLoop
<1>25. CASE StartLoop
  BY <1>25 DEF StartLoop
<1>26. CASE DispatchEvent
  BY <1>26 DEF DispatchEvent
<1>27. CASE RunClosure
  <2>1. Head(queue) \in Closures /\ queue' \in Seq(Closures)
    BY <1>27, TakeKeepsQueue DEF RunClosure
  <2>2. CASE RunTimerClosure
    <3>1. Head(queue).id \in Timers
      BY <2>1, <2>2, ClosureFits DEF RunTimerClosure
    <3>2. QED
      BY <1>27, <2>1, <2>2, <3>1 DEF RunClosure, RunTimerClosure, Lock, Begin
  <2>3. CASE RunIdleClosure
    <3>1. Head(queue).id \in Idles
      BY <2>1, <2>3, ClosureFits DEF RunIdleClosure
    <3>2. QED
      BY <1>27, <2>1, <2>3, <3>1 DEF RunClosure, RunIdleClosure
  <2>4. CASE RunStopClosure
    BY <1>27, <2>1, <2>4 DEF RunClosure, RunStopClosure
  <2>5. QED
    BY <1>27, <2>2, <2>3, <2>4 DEF RunClosure
<1>28. ASSUME NEW tm \in Timers, FireLoopTimer(tm)
      PROVE  IInv'
  BY <1>28 DEF FireLoopTimer
<1>29. CASE PostponeTimer
  BY <1>29 DEF PostponeTimer
<1>30. CASE CallTimer
  BY <1>30 DEF CallTimer
<1>31. CASE EndCallback
  BY <1>31 DEF EndCallback
<1>32. CASE RemoveFired
  BY <1>32 DEF RemoveFired
<1>33. CASE LeaveLoop
  BY <1>33 DEF LeaveLoop
<1>34. CASE FinishLoop
  BY <1>34 DEF FinishLoop, Goto
<1>35. CASE UNCHANGED vars
  BY <1>35 DEF vars
<1>36. QED
  BY <1>1, <1>2, <1>3, <1>4, <1>5, <1>6, <1>7, <1>8, <1>9, <1>10, <1>11,
     <1>12, <1>13, <1>14, <1>15, <1>16, <1>17, <1>18, <1>19, <1>20, <1>21,
     <1>22, <1>23, <1>24, <1>25, <1>26, <1>27, <1>28, <1>29, <1>30, <1>31,
     <1>32, <1>33, <1>34, <1>35
     DEF Next, Call, Continue, LoopStep
-----------------------------------------------------------------------------
\* The initial state satisfies the inductive invariant.
LEMMA InitIInv == Init => IInv
<1> SUFFICES ASSUME Init PROVE IInv
  OBVIOUS
<1> USE EventLoopAssumption DEF Init, Threads
<1>1. TypeOK
  <2>1. queue \in Seq(Closures) /\ 0 \in Nat
    OBVIOUS
  <2>2. pc \in [Threads -> Steps] /\ phase \in Phases
    BY DEF Steps, Phases
  <2>3. QED
    BY <2>1, <2>2 DEF TypeOK
<1>2. ArgsFit /\ LoopInv /\ WorkerInv
  BY DEF ArgsFit, TimerSteps, LoopInv, WorkerInv, WorkerSteps
<1>3. MutexInv /\ CleanupInv
  BY DEF MutexInv, LockedSteps, CleanupInv, CleanupSteps
<1>4. QED
  BY <1>1, <1>2, <1>3 DEF IInv

\* The inductive invariant holds throughout.
THEOREM Invariance == Spec => []IInv
BY InitIInv, Inductive, PTL DEF Spec

\* Every variable keeps its type, for any number of threads and timers.
THEOREM TypeCorrect == Spec => []TypeOK
<1>1. IInv => TypeOK
  BY DEF IInv
<1>2. QED
  BY <1>1, Invariance, PTL

\* m_timers is never touched by two threads at once: who may touch it follows
\* from the owner of the mutex, from m_loopRunning and from m_terminate.
THEOREM TimerListRaceFree == Spec => []TimerListExclusive
<1>1. IInv => TimerListExclusive
  BY EventLoopAssumption
     DEF IInv, TimerListExclusive, UsesTimers, MutexInv, LockedSteps, LoopInv,
         CleanupInv, CleanupSteps, Down, Threads
<1>2. QED
  BY <1>1, Invariance, PTL

\* The backend is torn down by one thread, and not under a running loop.
THEOREM CleanupIsExclusive == Spec => []CleanupExclusive
<1>1. IInv => CleanupExclusive
  BY DEF IInv, CleanupExclusive, CleanupInv, CleanupSteps, Down, LoopInv
<1>2. QED
  BY <1>1, Invariance, PTL

\* The resource worker's addIdle() finds the executor alive.
THEOREM WorkerIsSafe == Spec => []WorkerPostsToLiveExecutor
<1>1. IInv => WorkerPostsToLiveExecutor
  BY DEF IInv, WorkerPostsToLiveExecutor, CleanupInv, WorkerInv, WorkerSteps
<1>2. QED
  BY <1>1, Invariance, PTL

-----------------------------------------------------------------------------
\* What the history variables remember: the loop never holds a timer it was
\* told about in time, and a purged function captured an older generation.
HistoryInv ==
  /\ silenced \subseteq cancelled
  /\ phase = "checked" => cur \notin silenced
  /\ \A i \in Idles : idleGen[i] <= gen
  /\ \A i \in purged :
       /\ i \in added /\ idleGen[i] < gen
       /\ \A t \in Threads : arg[t] = i => pc[t] # "loadGeneration"

\* HistoryInv is preserved by every step from a state that satisfies IInv.
LEMMA HistoryStep == IInv /\ HistoryInv /\ [Next]_vars => HistoryInv'
<1> SUFFICES ASSUME IInv, HistoryInv, [Next]_vars
             PROVE  HistoryInv'
  OBVIOUS
<1> USE EventLoopAssumption
    DEF IInv, TypeOK, ArgsFit, LoopInv, HistoryInv, Threads, AppThreads, mutexVars,
        stateVars, loopVars, lifeVars, timerVars, idleVars, history
<1>1. ASSUME NEW t \in Threads, NEW tm \in Timers, AddTimer(t, tm)
      PROVE  HistoryInv'
  BY <1>1 DEF AddTimer, MayCall, OffLoop, Begin
<1>2. ASSUME NEW t \in Threads, PostTimer(t)
      PROVE  HistoryInv'
  BY <1>2 DEF PostTimer, Post, Return, Begin
<1>3. ASSUME NEW t \in Threads, RegisterTimer(t)
      PROVE  HistoryInv'
  BY <1>3 DEF RegisterTimer, Unlock, Return, Begin
<1>4. ASSUME NEW t \in Threads, NEW tm \in Timers, Cancel(t, tm)
      PROVE  HistoryInv'
  BY <1>4 DEF Cancel, MayCall, Held, Begin
<1>5. ASSUME NEW t \in Threads, NEW tm \in Timers, Rearm(t, tm)
      PROVE  HistoryInv'
  BY <1>5 DEF Rearm, MayCall, Held, Begin
<1>6. ASSUME NEW t \in Threads, LockCancel(t)
      PROVE  HistoryInv'
  BY <1>6 DEF LockCancel, LockTimer, OffLoop, Goto, Return, Begin, Lock
<1>7. ASSUME NEW t \in Threads, LockRearm(t)
      PROVE  HistoryInv'
  BY <1>7 DEF LockRearm, LockTimer, OffLoop, Goto, Return, Begin, Lock
<1>8. ASSUME NEW t \in Threads, Erase(t)
      PROVE  HistoryInv'
  BY <1>8 DEF Erase, Unlock, Return, Begin
<1>9. ASSUME NEW t \in Threads, UpdateLoopTimer(t)
      PROVE  HistoryInv'
  BY <1>9 DEF UpdateLoopTimer, Unlock, Return, Begin
<1>10. ASSUME NEW tm \in Timers, Expire(tm)
      PROVE  HistoryInv'
  BY <1>10 DEF Expire
<1>11. ASSUME NEW tm \in Timers, ComeDue(tm)
      PROVE  HistoryInv'
  BY <1>11 DEF ComeDue
<1>12. ASSUME NEW t \in Threads, NEW i \in Idles, AddIdle(t, i)
      PROVE  HistoryInv'
  BY <1>12 DEF AddIdle, MayCall, Begin
<1>13. ASSUME NEW t \in Threads, LoadGeneration(t)
      PROVE  HistoryInv'
  BY <1>13 DEF LoadGeneration, Goto
<1>14. ASSUME NEW t \in Threads, PostIdle(t)
      PROVE  HistoryInv'
  BY <1>14 DEF PostIdle, Post, Return, Begin
<1>15. CASE CancelPending
  BY <1>15 DEF CancelPending, MayCall, Lock, Goto
<1>16. CASE Purge
  BY <1>16 DEF Purge, Unlock, Return, Begin
<1>17. ASSUME NEW t \in Threads, Terminate(t)
      PROVE  HistoryInv'
  BY <1>17 DEF Terminate, MayCall, Goto
<1>18. ASSUME NEW t \in Threads, ReadRunning(t)
      PROVE  HistoryInv'
  BY <1>18 DEF ReadRunning, Goto
<1>19. ASSUME NEW t \in Threads, PostStop(t)
      PROVE  HistoryInv'
  BY <1>19 DEF PostStop, Post, Return, Begin, Goto
<1>20. ASSUME NEW t \in Threads, Cleanup(t)
      PROVE  HistoryInv'
  BY <1>20 DEF Cleanup, Return, Begin, Goto
<1>21. ASSUME NEW t \in Threads, JoinGatherer(t)
      PROVE  HistoryInv'
  BY <1>21 DEF JoinGatherer, Goto
<1>22. ASSUME NEW t \in Threads, ClearTimers(t)
      PROVE  HistoryInv'
  BY <1>22 DEF ClearTimers, Goto
<1>23. ASSUME NEW t \in Threads, ResetLoop(t)
      PROVE  HistoryInv'
  BY <1>23 DEF ResetLoop, Return, Begin
<1>24. CASE EnterLoop
  BY <1>24 DEF EnterLoop
<1>25. CASE StartLoop
  BY <1>25 DEF StartLoop
<1>26. CASE DispatchEvent
  BY <1>26 DEF DispatchEvent
<1>27. CASE RunClosure
  BY <1>27 DEF RunClosure, RunTimerClosure, RunIdleClosure, RunStopClosure, Lock, Begin
<1>28. ASSUME NEW tm \in Timers, FireLoopTimer(tm)
      PROVE  HistoryInv'
  BY <1>28 DEF FireLoopTimer
<1>29. CASE PostponeTimer
  BY <1>29 DEF PostponeTimer
<1>30. CASE CallTimer
  BY <1>30 DEF CallTimer
<1>31. CASE EndCallback
  BY <1>31 DEF EndCallback
<1>32. CASE RemoveFired
  BY <1>32 DEF RemoveFired
<1>33. CASE LeaveLoop
  BY <1>33 DEF LeaveLoop
<1>34. CASE FinishLoop
  BY <1>34 DEF FinishLoop, Goto
<1>35. CASE UNCHANGED vars
  BY <1>35 DEF vars
<1>36. QED
  BY <1>1, <1>2, <1>3, <1>4, <1>5, <1>6, <1>7, <1>8, <1>9, <1>10, <1>11,
     <1>12, <1>13, <1>14, <1>15, <1>16, <1>17, <1>18, <1>19, <1>20, <1>21,
     <1>22, <1>23, <1>24, <1>25, <1>26, <1>27, <1>28, <1>29, <1>30, <1>31,
     <1>32, <1>33, <1>34, <1>35
     DEF Next, Call, Continue, LoopStep


\* HistoryInv holds throughout.
LEMMA HistoryInvariance == Spec => []HistoryInv
<1>1. Init => HistoryInv
  BY EventLoopAssumption DEF Init, HistoryInv, Threads
<1>2. QED
  BY <1>1, HistoryStep, Invariance, PTL DEF Spec

\* Only CallTimer calls a timer, and only the one the loop is handling.
LEMMA FiredBy ==
  ASSUME IInv, [Next]_vars, NEW tm \in Timers, calls'[tm] # calls[tm]
  PROVE  phase = "checked" /\ tm = cur
<1> USE DEF mutexVars, stateVars, loopVars, lifeVars, timerVars, idleVars, history
<1>1. ASSUME NEW t \in Threads, Call(t) \/ Continue(t)
      PROVE  calls' = calls
  <2>1. CASE Call(t)
    BY <2>1 DEF Call, AddTimer, Cancel, Rearm, AddIdle, Terminate
  <2>2. CASE PostTimer(t) \/ RegisterTimer(t) \/ Erase(t) \/ UpdateLoopTimer(t)
    BY <2>2 DEF PostTimer, RegisterTimer, Erase, UpdateLoopTimer
  <2>3. CASE LockCancel(t) \/ LockRearm(t) \/ LoadGeneration(t) \/ PostIdle(t)
    BY <2>3 DEF LockCancel, LockRearm, LockTimer, LoadGeneration, PostIdle
  <2>4. CASE ReadRunning(t) \/ PostStop(t) \/ Cleanup(t) \/ JoinGatherer(t)
               \/ ClearTimers(t) \/ ResetLoop(t)
    BY <2>4 DEF ReadRunning, PostStop, Cleanup, JoinGatherer, ClearTimers, ResetLoop
  <2>5. QED
    BY <1>1, <2>1, <2>2, <2>3, <2>4 DEF Continue
<1>2. CASE CancelPending \/ Purge \/ EnterLoop \/ UNCHANGED vars
             \/ \E tm1 \in Timers : Expire(tm1) \/ ComeDue(tm1)
  BY <1>2 DEF CancelPending, Purge, EnterLoop, Expire, ComeDue, vars
<1>3. CASE CallTimer
  BY <1>3 DEF CallTimer, IInv, TypeOK
<1>4. CASE LoopStep /\ ~CallTimer
  BY <1>4 DEF LoopStep, StartLoop, DispatchEvent, RunClosure, FireLoopTimer,
     PostponeTimer, EndCallback, RemoveFired, LeaveLoop, FinishLoop
<1>5. QED
  BY <1>1, <1>2, <1>3, <1>4 DEF Next

\* A timer whose cancellation came before the loop read the flag never fires.
THEOREM CancellationWins == Spec => CancelledTimerStaysSilent
<1>1. IInv /\ HistoryInv /\ [Next]_vars
        => [\A tm \in Timers : calls'[tm] # calls[tm] => tm \notin silenced]_vars
  BY FiredBy DEF HistoryInv
<1>2. QED
  BY <1>1, HistoryInvariance, Invariance, PTL DEF Spec, CancelledTimerStaysSilent

\* Only RunClosure runs an idle function, and only under its own generation.
LEMMA RanBy ==
  ASSUME [Next]_vars, NEW i \in ran' \ ran
  PROVE  idleGen[i] = gen
<1> USE DEF mutexVars, stateVars, loopVars, lifeVars, timerVars, idleVars, history
<1>1. ASSUME NEW t \in Threads, Call(t) \/ Continue(t)
      PROVE  ran' = ran
  <2>1. CASE Call(t)
    BY <2>1 DEF Call, AddTimer, Cancel, Rearm, AddIdle, Terminate
  <2>2. CASE PostTimer(t) \/ RegisterTimer(t) \/ Erase(t) \/ UpdateLoopTimer(t)
    BY <2>2 DEF PostTimer, RegisterTimer, Erase, UpdateLoopTimer
  <2>3. CASE LockCancel(t) \/ LockRearm(t) \/ LoadGeneration(t) \/ PostIdle(t)
    BY <2>3 DEF LockCancel, LockRearm, LockTimer, LoadGeneration, PostIdle
  <2>4. CASE ReadRunning(t) \/ PostStop(t) \/ Cleanup(t) \/ JoinGatherer(t)
               \/ ClearTimers(t) \/ ResetLoop(t)
    BY <2>4 DEF ReadRunning, PostStop, Cleanup, JoinGatherer, ClearTimers, ResetLoop
  <2>5. QED
    BY <1>1, <2>1, <2>2, <2>3, <2>4 DEF Continue
<1>2. CASE CancelPending \/ Purge \/ EnterLoop \/ UNCHANGED vars
             \/ \E tm1 \in Timers : Expire(tm1) \/ ComeDue(tm1)
  BY <1>2 DEF CancelPending, Purge, EnterLoop, Expire, ComeDue, vars
<1>3. CASE LoopStep
  BY <1>3 DEF LoopStep, StartLoop, DispatchEvent, RunClosure, RunTimerClosure,
     RunIdleClosure, RunStopClosure, FireLoopTimer,
     PostponeTimer, CallTimer, EndCallback, RemoveFired, LeaveLoop, FinishLoop
<1>4. QED
  BY <1>1, <1>2, <1>3 DEF Next

\* cancelPending() stops every idle function posted before it.
THEOREM PurgeIsFinal == Spec => PurgedIdleNeverRuns
<1>1. IInv /\ HistoryInv /\ [Next]_vars
        => [\A i \in Idles : i \in ran' \ ran => i \notin purged]_vars
  BY RanBy DEF HistoryInv, IInv, TypeOK
<1>2. QED
  BY <1>1, HistoryInvariance, Invariance, PTL DEF Spec, PurgedIdleNeverRuns
-----------------------------------------------------------------------------
\* Thread t brings tm to the list, directly or through the queue.
Carries(t, tm) == arg[t] = tm /\ pc[t] \in {"postTimer", "register"}

Posted(k, tm) == k \in 1..Len(queue) /\ queue[k] = [kind |-> "timer", id |-> tm]

\* A timer waits in one place at a time, and a called one in none but the list,
\* until the loop is done with it.
PlaceInv ==
  /\ fired \subseteq added /\ timers \subseteq added
  /\ \A t \in Threads, tm \in Timers : Carries(t, tm) =>
       /\ tm \in added /\ tm \notin timers /\ tm \notin fired
       /\ \A u \in Threads : Carries(u, tm) => u = t
       /\ \A k \in Nat : ~Posted(k, tm)
  /\ \A k \in Nat, tm \in Timers : Posted(k, tm) =>
       /\ tm \in added /\ tm \notin timers /\ tm \notin fired
       /\ \A j \in Nat : Posted(j, tm) => j = k
  /\ \A tm \in timers \cap fired : phase \in {"callback", "removing"} /\ cur = tm

\* What the loop and the cancelling threads work on.
HandledInv ==
  /\ phase = "checked" => cur \in timers
  /\ phase = "removing" => cur \in cancelled \cup fired
  /\ phase = "callback" => cur \in fired \cup {NoTimer}
  /\ phase \notin {"checked", "callback", "removing"} => cur = NoTimer
  /\ \A t \in Threads : pc[t] \in {"lockCancel", "erase"} => arg[t] \in cancelled

\* Only timers are called.
LEMMA CalledAreTimers == fired \subseteq Timers
BY DEF fired

\* A step that calls no timer.
LEMMA CalledStay == calls' = calls => fired' = fired
BY DEF fired

\* A call counts.
LEMMA CallCounts ==
  ASSUME calls \in [Timers -> Nat], NEW tm \in Timers, calls' = [calls EXCEPT ![tm] = @ + 1]
  PROVE  fired' = fired \cup {tm}
BY DEF fired

\* HandledInv is preserved by every step that also has PlaceInv.
LEMMA HandledStep == IInv /\ PlaceInv /\ HandledInv /\ [Next]_vars => HandledInv'
<1> SUFFICES ASSUME IInv, PlaceInv, HandledInv, [Next]_vars
             PROVE  HandledInv'
  OBVIOUS
<1>a. timers \subseteq Timers /\ cur \in Timers \cup {NoTimer} /\ pc \in [Threads -> Steps]
      /\ arg \in [Threads -> Timers \cup Idles \cup {NoTimer}] /\ Main \in Threads
  BY DEF IInv, TypeOK, Threads
<1>b. LoopInv /\ CleanupInv
  BY DEF IInv
<1>c. /\ phase = "checked" => pc[Main] = "ready"
      /\ \A t \in Threads : pc[t] \in {"clearTimers", "purge"} => phase # "checked"
      /\ \A t \in Threads : pc[t] = "erase" => phase # "checked"
  <2>1. phase = "checked" => pc[Main] = "ready" /\ running
    BY <1>b DEF LoopInv
  <2>2. \A t \in Threads : pc[t] = "clearTimers" => ~running
    BY <1>b DEF CleanupInv, CleanupSteps, Down
  <2>3. \A t \in Threads : pc[t] = "erase" /\ running => t = Main
    BY EventLoopAssumption DEF IInv, MutexInv, LockedSteps, Threads
  <2>4. \A t \in Threads : pc[t] = "purge" => t = Main
    BY <1>b DEF LoopInv
  <2>5. QED
    BY <2>1, <2>2, <2>3, <2>4
<1> USE EventLoopAssumption, CalledStay, <1>a, <1>b, <1>c
    DEF LoopInv, HandledInv, AppThreads, mutexVars, stateVars, loopVars, lifeVars,
        timerVars, idleVars, history
<1>1. ASSUME NEW t \in Threads, NEW tm \in Timers, AddTimer(t, tm)
      PROVE  HandledInv'
  BY <1>1 DEF AddTimer, MayCall, OffLoop, Begin
<1>2. ASSUME NEW t \in Threads, PostTimer(t)
      PROVE  HandledInv'
  BY <1>2 DEF PostTimer, Post, Return, Begin
<1>3. ASSUME NEW t \in Threads, RegisterTimer(t)
      PROVE  HandledInv'
  BY <1>3 DEF RegisterTimer, Unlock, Return, Begin
<1>4. ASSUME NEW t \in Threads, NEW tm \in Timers, Cancel(t, tm)
      PROVE  HandledInv'
  BY <1>4 DEF Cancel, MayCall, Held, Begin
<1>5. ASSUME NEW t \in Threads, NEW tm \in Timers, Rearm(t, tm)
      PROVE  HandledInv'
  BY <1>5 DEF Rearm, MayCall, Held, Begin
<1>6. ASSUME NEW t \in Threads, LockCancel(t)
      PROVE  HandledInv'
  BY <1>6 DEF LockCancel, LockTimer, OffLoop, Goto, Return, Begin, Lock
<1>7. ASSUME NEW t \in Threads, LockRearm(t)
      PROVE  HandledInv'
  BY <1>7 DEF LockRearm, LockTimer, OffLoop, Goto, Return, Begin, Lock
<1>8. ASSUME NEW t \in Threads, Erase(t)
      PROVE  HandledInv'
  BY <1>8 DEF Erase, Unlock, Return, Begin
<1>9. ASSUME NEW t \in Threads, UpdateLoopTimer(t)
      PROVE  HandledInv'
  BY <1>9 DEF UpdateLoopTimer, Unlock, Return, Begin
<1>10. ASSUME NEW tm \in Timers, Expire(tm)
      PROVE  HandledInv'
  BY <1>10 DEF Expire
<1>11. ASSUME NEW tm \in Timers, ComeDue(tm)
      PROVE  HandledInv'
  BY <1>11 DEF ComeDue
<1>12. ASSUME NEW t \in Threads, NEW i \in Idles, AddIdle(t, i)
      PROVE  HandledInv'
  BY <1>12 DEF AddIdle, MayCall, Begin
<1>13. ASSUME NEW t \in Threads, LoadGeneration(t)
      PROVE  HandledInv'
  BY <1>13 DEF LoadGeneration, Goto
<1>14. ASSUME NEW t \in Threads, PostIdle(t)
      PROVE  HandledInv'
  BY <1>14 DEF PostIdle, Post, Return, Begin
<1>15. CASE CancelPending
  BY <1>15 DEF CancelPending, MayCall, Lock, Goto
<1>16. CASE Purge
  BY <1>16 DEF Purge, Unlock, Return, Begin
<1>17. ASSUME NEW t \in Threads, Terminate(t)
      PROVE  HandledInv'
  BY <1>17 DEF Terminate, MayCall, Goto
<1>18. ASSUME NEW t \in Threads, ReadRunning(t)
      PROVE  HandledInv'
  BY <1>18 DEF ReadRunning, Goto
<1>19. ASSUME NEW t \in Threads, PostStop(t)
      PROVE  HandledInv'
  BY <1>19 DEF PostStop, Post, Return, Begin, Goto
<1>20. ASSUME NEW t \in Threads, Cleanup(t)
      PROVE  HandledInv'
  BY <1>20 DEF Cleanup, Return, Begin, Goto
<1>21. ASSUME NEW t \in Threads, JoinGatherer(t)
      PROVE  HandledInv'
  BY <1>21 DEF JoinGatherer, Goto
<1>22. ASSUME NEW t \in Threads, ClearTimers(t)
      PROVE  HandledInv'
  BY <1>22 DEF ClearTimers, Goto
<1>23. ASSUME NEW t \in Threads, ResetLoop(t)
      PROVE  HandledInv'
  BY <1>23 DEF ResetLoop, Return, Begin
<1>24. CASE EnterLoop
  BY <1>24 DEF EnterLoop
<1>25. CASE StartLoop
  BY <1>25 DEF StartLoop
<1>26. CASE DispatchEvent
  BY <1>26 DEF DispatchEvent
<1>27. CASE RunClosure
  BY <1>27 DEF RunClosure, RunTimerClosure, RunIdleClosure, RunStopClosure, Lock, Begin
<1>28. ASSUME NEW tm \in Timers, FireLoopTimer(tm)
      PROVE  HandledInv'
  BY <1>28 DEF FireLoopTimer
<1>29. CASE PostponeTimer
  BY <1>29 DEF PostponeTimer
<1>30. CASE CallTimer
  <2>1. cur \in Timers /\ fired' = fired \cup {cur}
    BY <1>30, CallCounts DEF CallTimer, IInv, TypeOK, ArgsFit
  <2>2. QED
    BY <1>30, <2>1 DEF CallTimer
<1>31. CASE EndCallback
  BY <1>31 DEF EndCallback
<1>32. CASE RemoveFired
  BY <1>32 DEF RemoveFired
<1>33. CASE LeaveLoop
  BY <1>33 DEF LeaveLoop
<1>34. CASE FinishLoop
  BY <1>34 DEF FinishLoop, Goto
<1>35. CASE UNCHANGED vars
  BY <1>35 DEF vars
<1>36. QED
  BY <1>1, <1>2, <1>3, <1>4, <1>5, <1>6, <1>7, <1>8, <1>9, <1>10, <1>11,
     <1>12, <1>13, <1>14, <1>15, <1>16, <1>17, <1>18, <1>19, <1>20, <1>21,
     <1>22, <1>23, <1>24, <1>25, <1>26, <1>27, <1>28, <1>29, <1>30, <1>31,
     <1>32, <1>33, <1>34, <1>35
     DEF Next, Call, Continue, LoopStep

\* Posting a closure adds one entry at the end, taking one moves the rest up.
LEMMA PostAdds ==
  ASSUME queue \in Seq(Closures), NEW c, Post(c), NEW k \in Nat, NEW tm \in Timers, Posted(k, tm)'
  PROVE  Posted(k, tm) \/ (k = Len(queue) + 1 /\ c = [kind |-> "timer", id |-> tm])
BY DEF Post, Posted

LEMMA TakeMoves ==
  ASSUME queue \in Seq(Closures), queue # <<>>, queue' = Tail(queue),
         NEW k \in Nat, NEW tm \in Timers
  PROVE  Posted(k, tm)' <=> k # 0 /\ Posted(k + 1, tm)
BY DEF Posted

\* PlaceInv is preserved by every step that also has HandledInv.
LEMMA PlaceStep == IInv /\ PlaceInv /\ HandledInv /\ [Next]_vars => PlaceInv'
<1> SUFFICES ASSUME IInv, PlaceInv, HandledInv, [Next]_vars
             PROVE  PlaceInv'
  OBVIOUS
<1>a. /\ timers \subseteq Timers /\ cur \in Timers \cup {NoTimer} /\ fired \subseteq Timers
      /\ pc \in [Threads -> Steps] /\ queue \in Seq(Closures)
      /\ arg \in [Threads -> Timers \cup Idles \cup {NoTimer}] /\ Main \in Threads
  BY CalledAreTimers DEF IInv, TypeOK, Threads
<1>b. /\ phase = "checked" => pc[Main] = "ready"
      /\ phase = "removing" => pc[Main] = "ready"
      /\ phase = "leaving" => pc[Main] = "ready"
      /\ \A t \in Threads : pc[t] \in {"postTimer", "register"} => arg[t] \in Timers
      /\ \A t \in Threads : pc[t] \in {"loadGeneration", "postIdle"} => arg[t] \in Idles
      /\ phase = "checked" => cur \in Timers
  BY DEF IInv, LoopInv, ArgsFit, TimerSteps
<1> USE EventLoopAssumption, CalledStay, <1>a, <1>b
    DEF HandledInv, PlaceInv, Carries, AppThreads, mutexVars, stateVars, loopVars,
        lifeVars, timerVars, idleVars, history
<1>1. ASSUME NEW t \in Threads, NEW tm \in Timers, AddTimer(t, tm)
      PROVE  PlaceInv'
  BY <1>1 DEF AddTimer, MayCall, OffLoop, Begin, Posted
<1>2. ASSUME NEW t \in Threads, PostTimer(t)
      PROVE  PlaceInv'
  <2>1. Post([kind |-> "timer", id |-> arg[t]]) /\ Carries(t, arg[t]) /\ arg[t] \in Timers
    BY <1>2 DEF PostTimer
  <2>2. \A k \in Nat, tm \in Timers : Posted(k, tm)' =>
          Posted(k, tm) \/ (k = Len(queue) + 1 /\ tm = arg[t])
    BY <2>1, PostAdds
  <2>3. \A k \in Nat : ~Posted(k, arg[t])
    BY <2>1
  <2>4. \A u \in Threads, tm \in Timers : Carries(u, tm)' => Carries(u, tm) /\ u # t
    BY <1>2 DEF PostTimer, Return, Begin
  <2>5. QED
    BY <1>2, <2>1, <2>2, <2>3, <2>4 DEF PostTimer
<1>3. ASSUME NEW t \in Threads, RegisterTimer(t)
      PROVE  PlaceInv'
  <2>1. /\ Carries(t, arg[t]) /\ arg[t] \in Timers
        /\ timers' \subseteq timers \cup {arg[t]}
        /\ UNCHANGED <<fired, added, queue, phase, cur>>
    BY <1>3 DEF RegisterTimer
  <2>2. \A u \in Threads, tm \in Timers : Carries(u, tm)' => Carries(u, tm) /\ tm # arg[t]
    <3>1. \A u \in Threads, tm \in Timers : Carries(u, tm)' => Carries(u, tm) /\ u # t
      BY <1>3 DEF RegisterTimer, Return, Begin
    <3>2. QED
      BY <2>1, <3>1
  <2>3. \A k \in Nat, tm \in Timers : Posted(k, tm)' => Posted(k, tm) /\ tm # arg[t]
    BY <2>1 DEF Posted
  <2>4. timers' \cap fired' \subseteq timers \cap fired
    <3>1. arg[t] \notin fired
      BY <2>1
    <3>2. QED
      BY <2>1, <3>1
  <2>5. QED
    BY <2>1, <2>2, <2>3, <2>4
<1>4. ASSUME NEW t \in Threads, NEW tm \in Timers, Cancel(t, tm)
      PROVE  PlaceInv'
  BY <1>4 DEF Cancel, MayCall, Held, Begin, Posted
<1>5. ASSUME NEW t \in Threads, NEW tm \in Timers, Rearm(t, tm)
      PROVE  PlaceInv'
  BY <1>5 DEF Rearm, MayCall, Held, Begin, Posted
<1>6. ASSUME NEW t \in Threads, LockCancel(t)
      PROVE  PlaceInv'
  BY <1>6 DEF LockCancel, LockTimer, OffLoop, Goto, Return, Begin, Lock, Posted
<1>7. ASSUME NEW t \in Threads, LockRearm(t)
      PROVE  PlaceInv'
  BY <1>7 DEF LockRearm, LockTimer, OffLoop, Goto, Return, Begin, Lock, Posted
<1>8. ASSUME NEW t \in Threads, Erase(t)
      PROVE  PlaceInv'
  BY <1>8 DEF Erase, Unlock, Return, Begin, Posted
<1>9. ASSUME NEW t \in Threads, UpdateLoopTimer(t)
      PROVE  PlaceInv'
  BY <1>9 DEF UpdateLoopTimer, Unlock, Return, Begin, Posted
<1>10. ASSUME NEW tm \in Timers, Expire(tm)
      PROVE  PlaceInv'
  BY <1>10 DEF Expire, Posted
<1>11. ASSUME NEW tm \in Timers, ComeDue(tm)
      PROVE  PlaceInv'
  BY <1>11 DEF ComeDue, Posted
<1>12. ASSUME NEW t \in Threads, NEW i \in Idles, AddIdle(t, i)
      PROVE  PlaceInv'
  BY <1>12 DEF AddIdle, MayCall, Begin, Posted
<1>13. ASSUME NEW t \in Threads, LoadGeneration(t)
      PROVE  PlaceInv'
  BY <1>13 DEF LoadGeneration, Goto, Posted
<1>14. ASSUME NEW t \in Threads, PostIdle(t)
      PROVE  PlaceInv'
  <2>1. \A k \in Nat, tm \in Timers : Posted(k, tm)' => Posted(k, tm)
    <3>1. CASE Post([kind |-> "idle", id |-> arg[t]])
      BY <3>1, PostAdds
    <3>2. CASE UNCHANGED queue
      BY <3>2 DEF Posted
    <3>3. QED
      BY <1>14, <3>1, <3>2 DEF PostIdle
  <2>2. \A u \in Threads, tm \in Timers : Carries(u, tm)' => Carries(u, tm)
    BY <1>14 DEF PostIdle, Goto, Return, Begin
  <2>3. QED
    BY <1>14, <2>1, <2>2 DEF PostIdle
<1>15. CASE CancelPending
  BY <1>15 DEF CancelPending, MayCall, Lock, Goto, Posted
<1>16. CASE Purge
  BY <1>16 DEF Purge, Unlock, Return, Begin, Posted
<1>17. ASSUME NEW t \in Threads, Terminate(t)
      PROVE  PlaceInv'
  BY <1>17 DEF Terminate, MayCall, Goto, Posted
<1>18. ASSUME NEW t \in Threads, ReadRunning(t)
      PROVE  PlaceInv'
  BY <1>18 DEF ReadRunning, Goto, Posted
<1>19. ASSUME NEW t \in Threads, PostStop(t)
      PROVE  PlaceInv'
  <2>1. \A k \in Nat, tm \in Timers : Posted(k, tm)' => Posted(k, tm)
    <3>1. CASE Post([kind |-> "stop"])
      BY <3>1, PostAdds
    <3>2. CASE UNCHANGED queue
      BY <3>2 DEF Posted
    <3>3. QED
      BY <1>19, <3>1, <3>2 DEF PostStop
  <2>2. \A u \in Threads, tm \in Timers : Carries(u, tm)' => Carries(u, tm)
    BY <1>19 DEF PostStop, Goto, Return, Begin
  <2>3. QED
    BY <1>19, <2>1, <2>2 DEF PostStop
<1>20. ASSUME NEW t \in Threads, Cleanup(t)
      PROVE  PlaceInv'
  BY <1>20 DEF Cleanup, Return, Begin, Goto, Posted
<1>21. ASSUME NEW t \in Threads, JoinGatherer(t)
      PROVE  PlaceInv'
  BY <1>21 DEF JoinGatherer, Goto, Posted
<1>22. ASSUME NEW t \in Threads, ClearTimers(t)
      PROVE  PlaceInv'
  BY <1>22 DEF ClearTimers, Goto, Posted
<1>23. ASSUME NEW t \in Threads, ResetLoop(t)
      PROVE  PlaceInv'
  <2>1. \A k \in Nat, tm \in Timers : ~Posted(k, tm)'
    BY <1>23 DEF ResetLoop, Posted
  <2>2. \A u \in Threads, tm \in Timers : Carries(u, tm)' => Carries(u, tm)
    BY <1>23 DEF ResetLoop, Return, Begin
  <2>3. QED
    BY <1>23, <2>1, <2>2 DEF ResetLoop
<1>24. CASE EnterLoop
  BY <1>24 DEF EnterLoop, Posted
<1>25. CASE StartLoop
  BY <1>25 DEF StartLoop, Posted
<1>26. CASE DispatchEvent
  BY <1>26 DEF DispatchEvent, Posted
<1>27. CASE RunClosure
  <2>1. \A k \in Nat, tm \in Timers : Posted(k, tm)' <=> k # 0 /\ Posted(k + 1, tm)
    BY <1>27, TakeMoves DEF RunClosure
  <2>2. ASSUME NEW u \in Threads, NEW tm \in Timers, Carries(u, tm)'
        PROVE  Carries(u, tm) \/ (u = Main /\ Posted(1, tm))
    <3>1. CASE RunTimerClosure
      <4>1. Head(queue) \in Closures
        BY <1>27, TakeKeepsQueue DEF RunClosure
      <4>2. Head(queue) = [kind |-> "timer", id |-> Head(queue).id] /\ Head(queue) = queue[1]
            /\ 1 \in 1..Len(queue)
        BY <4>1, <3>1, <1>27 DEF Closures, RunTimerClosure, RunClosure
      <4>3. CASE u = Main
        BY <2>2, <3>1, <4>2, <4>3 DEF RunTimerClosure, Begin, Posted
      <4>4. CASE u # Main
        BY <2>2, <3>1, <4>4 DEF RunTimerClosure, Begin
      <4>5. QED
        BY <4>3, <4>4
    <3>2. CASE RunIdleClosure \/ RunStopClosure
      BY <2>2, <3>2 DEF RunIdleClosure, RunStopClosure
    <3>3. QED
      BY <1>27, <3>1, <3>2 DEF RunClosure
  <2>3. ~Carries(Main, arg[Main])
    BY <1>27 DEF RunClosure
  <2>4. \A tm \in timers : tm \notin fired
    BY <1>27 DEF RunClosure
  <2>5. QED
    BY <1>27, <2>1, <2>2, <2>3, <2>4 DEF RunClosure
<1>28. ASSUME NEW tm \in Timers, FireLoopTimer(tm)
      PROVE  PlaceInv'
  BY <1>28 DEF FireLoopTimer, Posted
<1>29. CASE PostponeTimer
  BY <1>29 DEF PostponeTimer, Posted
<1>30. CASE CallTimer
  <2>1. cur \in Timers /\ fired' = fired \cup {cur}
    BY <1>30, CallCounts DEF CallTimer, IInv, TypeOK
  <2>2. QED
    BY <1>30, <2>1 DEF CallTimer, Posted
<1>31. CASE EndCallback
  BY <1>31 DEF EndCallback, Posted
<1>32. CASE RemoveFired
  BY <1>32 DEF RemoveFired, Posted
<1>33. CASE LeaveLoop
  BY <1>33 DEF LeaveLoop, Posted
<1>34. CASE FinishLoop
  BY <1>34 DEF FinishLoop, Goto, Posted
<1>35. CASE UNCHANGED vars
  BY <1>35 DEF vars, Posted
<1>36. QED
  BY <1>1, <1>2, <1>3, <1>4, <1>5, <1>6, <1>7, <1>8, <1>9, <1>10, <1>11,
     <1>12, <1>13, <1>14, <1>15, <1>16, <1>17, <1>18, <1>19, <1>20, <1>21,
     <1>22, <1>23, <1>24, <1>25, <1>26, <1>27, <1>28, <1>29, <1>30, <1>31,
     <1>32, <1>33, <1>34, <1>35
     DEF Next, Call, Continue, LoopStep

-----------------------------------------------------------------------------
\* A timer waits with a thread, in the queue or in the list.
LEMMA WaitsWhere ==
  ASSUME NEW tm \in Timers
  PROVE  Waiting(tm) <=> \/ tm \in timers
                         \/ \E t \in Threads : Carries(t, tm)
                         \/ \E k \in Nat : Posted(k, tm)
BY DEF Waiting, Carries, Posted

LEMMA WaitsWhereNext ==
  ASSUME NEW tm \in Timers
  PROVE  Waiting(tm)' <=> \/ tm \in timers'
                          \/ \E t \in Threads : Carries(t, tm)'
                          \/ \E k \in Nat : Posted(k, tm)'
BY DEF Waiting, Carries, Posted

\* The status of a timer, read off the histories and the places it may wait in.
LEMMA StatusIs ==
  ASSUME fired \subseteq added, NEW tm \in Timers
  PROVE  Status[tm] = IF tm \notin added THEN "new" ELSE IF tm \in fired THEN "fired"
                      ELSE IF Waiting(tm) THEN "pending" ELSE "dropped"
BY DEF Status

LEMMA StatusIsNext ==
  ASSUME fired' \subseteq added', NEW tm \in Timers
  PROVE  Status'[tm] = IF tm \notin added' THEN "new" ELSE IF tm \in fired' THEN "fired"
                       ELSE IF Waiting(tm)' THEN "pending" ELSE "dropped"
BY DEF Status

\* Status is a function of the timers.
LEMMA StatusMaps ==
  /\ Status  = [tm \in Timers |-> Status[tm]]
  /\ Status' = [tm \in Timers |-> Status'[tm]]
BY DEF Status

\* A step that accepts and calls nothing, and after which the same timers wait,
\* changes no status.
LEMMA SameStatus ==
  ASSUME fired \subseteq added \cap Timers, UNCHANGED <<added \cap Timers, calls>>,
         \A tm \in Timers : Waiting(tm)' <=> Waiting(tm)
  PROVE  UNCHANGED Status
<1>1. ASSUME NEW tm \in Timers PROVE Status'[tm] = Status[tm]
  BY StatusIs, StatusIsNext, CalledStay
<1>2. QED
  BY <1>1, StatusMaps

\* A step that accepts and calls nothing, and after which fewer timers wait,
\* discards the others.
LEMMA Discarding ==
  ASSUME fired \subseteq added \cap Timers, UNCHANGED <<added \cap Timers, calls>>,
         \A tm \in Timers : Waiting(tm)' => Waiting(tm)
  PROVE  \E S \in SUBSET Timers : Promise!Discard(S)
<1> DEFINE S == {tm \in Timers : tm \in added \ fired /\ Waiting(tm) /\ ~Waiting(tm)'}
<1>1. ASSUME NEW tm \in Timers
      PROVE  Status'[tm] = IF tm \in S THEN "dropped" ELSE Status[tm]
  BY StatusIs, StatusIsNext, CalledStay
<1>2. ASSUME NEW tm \in S PROVE Status[tm] = "pending"
  BY StatusIs
<1> HIDE DEF S
<1>3. Status' = [tm \in Timers |-> IF tm \in S THEN "dropped" ELSE Status[tm]]
  BY <1>1, StatusMaps
<1>4. S \in SUBSET Timers
  BY DEF S
<1>5. QED
  BY <1>2, <1>3, <1>4 DEF Promise!Discard

\* One timer changes its status.
LEMMA OneSettles ==
  ASSUME NEW tm \in Timers, NEW from, NEW to, Status[tm] = from, Status'[tm] = to,
         \A other \in Timers \ {tm} : Status'[other] = Status[other]
  PROVE  Promise!Settle(tm, from, to)
<1>1. Status' = [Status EXCEPT ![tm] = to]
  BY StatusMaps
<1>2. QED
  BY <1>1 DEF Promise!Settle

\* One timer stops waiting without having been called: it is dropped, unless
\* it was called before or did not wait at all.
LEMMA OneDrops ==
  ASSUME fired \subseteq added \cap Timers, UNCHANGED <<added \cap Timers, calls>>, NEW tm \in Timers,
         \A other \in Timers \ {tm} : Waiting(other)' <=> Waiting(other),
         Waiting(tm)' => Waiting(tm)
  PROVE  Promise!Settle(tm, "pending", "dropped") \/ UNCHANGED Status
<1>1. ASSUME NEW other \in Timers \ {tm} PROVE Status'[other] = Status[other]
  BY StatusIs, StatusIsNext, CalledStay
<1>2. CASE tm \in added \ fired /\ Waiting(tm) /\ ~Waiting(tm)'
  <2>1. Status[tm] = "pending" /\ Status'[tm] = "dropped"
    BY <1>2, StatusIs, StatusIsNext, CalledStay
  <2>2. QED
    BY <1>1, <2>1, OneSettles
<1>3. CASE tm \notin added \ fired \/ (Waiting(tm) <=> Waiting(tm)')
  <2>1. Status'[tm] = Status[tm]
    BY <1>3, StatusIs, StatusIsNext, CalledStay
  <2>2. QED
    BY <1>1, <2>1, StatusMaps
<1>4. QED
  BY <1>2, <1>3

\* A step that moves no timer and raises no flag of the promise stutters.
LEMMA QuietStep ==
  ASSUME fired \subseteq added \cap Timers, UNCHANGED <<added \cap Timers, calls, passed, cancelled, terminate>>,
         (pc[Main] = "purge")' <=> pc[Main] = "purge",
         \A tm \in Timers : Waiting(tm)' <=> Waiting(tm)
  PROVE  UNCHANGED Promise!promiseVars
<1>1. UNCHANGED Status
  BY SameStatus
<1>2. QED
  BY <1>1 DEF Promise!promiseVars

LEMMA StayingPut ==
  ASSUME UNCHANGED <<timers, queue>>,
         \A t \in Threads, tm \in Timers : Carries(t, tm)' <=> Carries(t, tm)
  PROVE  \A tm \in Timers : Waiting(tm)' <=> Waiting(tm)
<1>1. \A tm \in Timers, k \in Nat : Posted(k, tm)' <=> Posted(k, tm)
  BY DEF Posted
<1>2. ASSUME NEW tm \in Timers PROVE Waiting(tm)' <=> Waiting(tm)
  BY <1>1, WaitsWhere, WaitsWhereNext
<1>3. QED
  BY <1>2

\* The loop's own bookkeeping and its clock.
LEMMA LoopIsQuiet ==
  ASSUME fired \subseteq added \cap Timers,
         \/ \E tm \in Timers : ComeDue(tm) \/ FireLoopTimer(tm)
         \/ EnterLoop \/ StartLoop \/ DispatchEvent \/ PostponeTimer \/ EndCallback
         \/ LeaveLoop \/ UNCHANGED vars
  PROVE  UNCHANGED Promise!promiseVars
<1>1. UNCHANGED <<added \cap Timers, calls, passed, cancelled, terminate, timers, queue, pc, arg>>
  BY DEF ComeDue, FireLoopTimer, EnterLoop, StartLoop, DispatchEvent,
         PostponeTimer, EndCallback, LeaveLoop, vars, mutexVars, stateVars, loopVars,
         lifeVars, timerVars, idleVars, history
<1>2. \A t \in Threads, tm \in Timers : Carries(t, tm)' <=> Carries(t, tm)
  BY <1>1 DEF Carries
<1>3. \A tm \in Timers : Waiting(tm)' <=> Waiting(tm)
  BY <1>1, <1>2, StayingPut
<1>4. QED
  BY <1>1, <1>3, QuietStep

\* Steps of a thread that carries no timer, before or after.
LEMMA CallsAreQuiet ==
  ASSUME fired \subseteq added \cap Timers, pc \in [Threads -> Steps],
         arg \in [Threads -> Timers \cup Idles \cup {NoTimer}], NEW t \in Threads,
         \/ \E i \in Idles : AddIdle(t, i)
         \/ LockCancel(t) \/ LockRearm(t) \/ UpdateLoopTimer(t) \/ LoadGeneration(t)
         \/ ReadRunning(t) \/ Cleanup(t) \/ JoinGatherer(t)
  PROVE  UNCHANGED Promise!promiseVars
<1>1. UNCHANGED <<added \cap Timers, calls, passed, cancelled, terminate, timers, queue>>
  BY EventLoopAssumption
     DEF AddIdle, LockCancel, LockRearm, LockTimer, UpdateLoopTimer,
         LoadGeneration, ReadRunning, Cleanup, JoinGatherer, stateVars, timerVars, history
<1>2. /\ \A u \in Threads : u # t => pc'[u] = pc[u] /\ arg'[u] = arg[u]
      /\ pc[t] \notin {"postTimer", "register", "purge"}
      /\ pc'[t] \notin {"postTimer", "register", "purge"}
  BY DEF AddIdle, MayCall, LockCancel, LockRearm, LockTimer, UpdateLoopTimer,
         LoadGeneration, ReadRunning, Cleanup, JoinGatherer, Begin, Return, Goto
<1>3. \A u \in Threads, tm \in Timers : Carries(u, tm)' <=> Carries(u, tm)
  BY <1>2 DEF Carries
<1>4. (pc[Main] = "purge")' <=> pc[Main] = "purge"
  BY <1>2 DEF Threads
<1>5. \A tm \in Timers : Waiting(tm)' <=> Waiting(tm)
  BY <1>1, <1>3, StayingPut
<1>6. QED
  BY <1>1, <1>4, <1>5, QuietStep

\* A deadline passes, or the application sets a new one.
LEMMA DeadlinesMove ==
  ASSUME IInv, PlaceInv, NEW tm \in Timers, Expire(tm) \/ \E t \in Threads : Rearm(t, tm)
  PROVE  Promise!Expire(tm) \/ Promise!Rearm(tm)
<1>1. /\ fired \subseteq added \cap Timers /\ tm \in added
      /\ UNCHANGED <<added, calls, cancelled, terminate, timers, queue>>
      /\ pc \in [Threads -> Steps] /\ arg \in [Threads -> Timers \cup Idles \cup {NoTimer}]
      /\ Main \in Threads
  BY CalledAreTimers
     DEF Expire, Rearm, Held, stateVars, timerVars, history, PlaceInv, IInv, TypeOK, Threads
<1>2. /\ \A u \in Threads, x \in Timers : Carries(u, x)' <=> Carries(u, x)
      /\ (pc[Main] = "purge")' <=> pc[Main] = "purge"
  BY <1>1 DEF Expire, Rearm, MayCall, Begin, mutexVars, Carries
<1>3. UNCHANGED Status
  BY <1>1, <1>2, StayingPut, SameStatus
<1>4. Status[tm] # "new"
  BY <1>1, StatusIs
<1>5. passed' = passed \cup {tm} \/ passed' = passed \ {tm}
  BY DEF Expire, Rearm
<1>6. QED
  BY <1>1, <1>2, <1>3, <1>4, <1>5 DEF Promise!Expire, Promise!Rearm

\* An application thread hands a timer over: the backend accepts it.
LEMMA AddAccepts ==
  ASSUME IInv, PlaceInv, NEW t \in Threads, NEW tm \in Timers, AddTimer(t, tm)
  PROVE  Promise!Accept(tm)
<1>1. /\ fired \subseteq added /\ fired' \subseteq added'
      /\ fired' = fired /\ added' = added \cup {tm}
      /\ tm \notin added /\ ~terminate /\ pc[t] = "ready"
      /\ UNCHANGED <<calls, passed, cancelled, terminate, timers, queue>>
      /\ \A u \in Threads : u # t => pc'[u] = pc[u] /\ arg'[u] = arg[u]
      /\ pc'[t] \in {"postTimer", "register"} /\ arg'[t] = tm
  BY EventLoopAssumption
     DEF AddTimer, MayCall, Begin, stateVars, timerVars, PlaceInv, IInv, TypeOK, fired
<1>2. \A u \in Threads, x \in Timers :
        Carries(u, x)' <=> Carries(u, x) \/ (u = t /\ x = tm)
  BY <1>1 DEF Carries
<1>3. \A x \in Timers, k \in Nat : Posted(k, x)' <=> Posted(k, x)
  BY <1>1 DEF Posted
<1>4. \A x \in Timers : Waiting(x)' <=> Waiting(x) \/ x = tm
  BY <1>1, <1>2, <1>3, WaitsWhere, WaitsWhereNext
<1>5. Status[tm] = "new" /\ Status'[tm] = "pending"
  BY <1>1, <1>4, StatusIs, StatusIsNext
<1>6. ASSUME NEW x \in Timers \ {tm} PROVE Status'[x] = Status[x]
  BY <1>1, <1>4, StatusIs, StatusIsNext
<1>7. (pc[Main] = "purge")' <=> pc[Main] = "purge"
  BY <1>1 DEF Threads
<1>8. QED
  BY <1>1, <1>5, <1>6, <1>7, OneSettles DEF Promise!Accept

\* The loop calls a timer that was pending.
LEMMA CallFires ==
  ASSUME IInv, PlaceInv, HandledInv, CallTimer
  PROVE  Promise!Fire(cur)
<1>1. /\ fired \subseteq added /\ fired' \subseteq added' /\ cur \in timers /\ cur \in Timers /\ timers \subseteq added
      /\ fired' = fired \cup {cur} /\ phase = "checked" /\ cur \notin fired
      /\ cur \in passed /\ calls' = [calls EXCEPT ![cur] = @ + 1]
      /\ UNCHANGED <<added, passed, cancelled, terminate, timers, queue, pc, arg>>
  <2>1. cur \in Timers /\ fired' = fired \cup {cur}
    BY CallCounts DEF CallTimer, IInv, TypeOK, ArgsFit
  <2>2. QED
    BY <2>1 DEF CallTimer, mutexVars, stateVars, timerVars, PlaceInv, HandledInv
<1>2. \A u \in Threads, x \in Timers : Carries(u, x)' <=> Carries(u, x)
  BY <1>1 DEF Carries
<1>3. \A x \in Timers : Waiting(x)' <=> Waiting(x)
  BY <1>1, <1>2, StayingPut
<1>4. Waiting(cur)
  BY <1>1, WaitsWhere
<1>5. Status[cur] = "pending" /\ Status'[cur] = "fired"
  BY <1>1, <1>4, StatusIs, StatusIsNext
<1>6. ASSUME NEW x \in Timers \ {cur} PROVE Status'[x] = Status[x]
  BY <1>1, <1>3, StatusIs, StatusIsNext
<1>7. QED
  BY <1>1, <1>5, <1>6, OneSettles DEF Promise!Fire

\* A cancelled timer leaves the list or does not enter it.
LEMMA CancelledDrops ==
  ASSUME IInv, PlaceInv, HandledInv,
         \/ \E t \in Threads : RegisterTimer(t) \/ Erase(t)
         \/ RemoveFired
  PROVE  [Promise!PromiseNext]_(Promise!promiseVars)
<1>1. /\ fired \subseteq added \cap Timers /\ timers \subseteq Timers /\ pc \in [Threads -> Steps]
      /\ arg \in [Threads -> Timers \cup Idles \cup {NoTimer}] /\ cur \in Timers \cup {NoTimer}
      /\ \A t \in Threads : pc[t] = "register" => arg[t] \in Timers
      /\ \A t \in Threads : pc[t] = "erase" => arg[t] \in cancelled \cap Timers
      /\ phase = "removing" => cur \in Timers
  BY CalledAreTimers DEF IInv, TypeOK, PlaceInv, ArgsFit, TimerSteps, HandledInv
<1>2. UNCHANGED <<added \cap Timers, calls, passed, cancelled, terminate, queue>>
  BY DEF RegisterTimer, Erase, RemoveFired, stateVars, timerVars, history
<1>3. \A x \in Timers, k \in Nat : Posted(k, x)' <=> Posted(k, x)
  BY <1>2 DEF Posted
<1>4. (pc[Main] = "purge")' <=> pc[Main] = "purge"
  BY <1>1 DEF RegisterTimer, Erase, RemoveFired, Return, Begin, Threads, mutexVars
<1>5. ASSUME NEW tm \in Timers, tm \in cancelled \cup fired,
             \A x \in Timers \ {tm} : Waiting(x)' <=> Waiting(x),
             Waiting(tm)' => Waiting(tm)
      PROVE  [Promise!PromiseNext]_(Promise!promiseVars)
  <2>1. CASE UNCHANGED Status
    BY <1>2, <1>4, <2>1 DEF Promise!promiseVars
  <2>2. CASE Promise!Settle(tm, "pending", "dropped")
    <3>1. tm \notin fired
      BY <1>1, <2>2, StatusIs DEF Promise!Settle
    <3>2. Promise!Drop(tm)
      BY <1>2, <1>4, <1>5, <2>2, <3>1 DEF Promise!Drop
    <3>3. QED
      BY <3>2, <1>5 DEF Promise!PromiseNext
  <2>3. QED
    BY <1>1, <1>2, <1>5, <2>1, <2>2, OneDrops
<1>6. ASSUME NEW t \in Threads, RegisterTimer(t)
      PROVE  [Promise!PromiseNext]_(Promise!promiseVars)
  <2>0. PICK tm \in Timers : tm = arg[t]
    BY <1>1, <1>6 DEF RegisterTimer
  <2>1. Carries(t, tm) /\ tm \in Timers
    BY <2>0, <1>1, <1>6 DEF RegisterTimer, Carries
  <2>2. \A u \in Threads, x \in Timers : u # t => (Carries(u, x)' <=> Carries(u, x))
    BY <2>0, <1>1, <1>6 DEF RegisterTimer, Return, Begin, Carries
  <2>3. \A x \in Timers : (Carries(t, x) <=> x = tm) /\ ~Carries(t, x)'
    BY <2>0, <1>1, <1>6 DEF RegisterTimer, Return, Begin, Carries
  <2>4. /\ timers \subseteq timers' /\ timers' \subseteq timers \cup {tm}
        /\ ~terminate /\ tm \notin cancelled => tm \in timers'
    BY <2>0, <1>6 DEF RegisterTimer
  <2>5. \A x \in Timers \ {tm} : Waiting(x)' <=> Waiting(x)
    BY <2>0, <1>3, <2>2, <2>3, <2>4, WaitsWhere, WaitsWhereNext
  <2>6. Waiting(tm)
    BY <2>0, <2>1, WaitsWhere
  <2>7. CASE tm \in cancelled
    BY <2>0, <1>5, <2>1, <2>5, <2>6, <2>7
  <2>8. CASE terminate
    <3>1. \A x \in Timers : Waiting(x)' => Waiting(x)
      BY <2>0, <2>5, <2>6
    <3>2. \E S \in SUBSET Timers : Promise!Discard(S)
      BY <2>0, <1>1, <1>2, <3>1, Discarding
    <3>3. Promise!ShutDown
      BY <2>0, <1>2, <1>4, <2>8, <3>2 DEF Promise!ShutDown
    <3>4. QED
      BY <2>0, <3>3 DEF Promise!PromiseNext
  <2>9. CASE ~terminate /\ tm \notin cancelled
    <3>1. Waiting(tm)'
      BY <2>0, <2>1, <2>4, <2>9, WaitsWhereNext
    <3>2. \A x \in Timers : Waiting(x)' <=> Waiting(x)
      BY <2>0, <2>5, <2>6, <3>1
    <3>3. QED
      BY <2>0, <1>1, <1>2, <1>4, <3>2, QuietStep
  <2>10. QED
    BY <2>0, <2>7, <2>8, <2>9
<1>7. ASSUME NEW t \in Threads, Erase(t)
      PROVE  [Promise!PromiseNext]_(Promise!promiseVars)
  <2>0. PICK tm \in Timers : tm = arg[t]
    BY <1>1, <1>7 DEF Erase
  <2>1. tm \in cancelled \cap Timers /\ timers' = timers \ {tm}
    BY <2>0, <1>1, <1>7 DEF Erase
  <2>2. \A u \in Threads, x \in Timers : Carries(u, x)' <=> Carries(u, x)
    BY <2>0, <1>1, <1>7 DEF Erase, Return, Begin, Carries
  <2>3. \A x \in Timers \ {tm} : Waiting(x)' <=> Waiting(x)
    BY <2>0, <1>3, <2>1, <2>2, WaitsWhere, WaitsWhereNext
  <2>4. Waiting(tm)' => Waiting(tm)
    BY <2>0, <1>3, <2>1, <2>2, WaitsWhere, WaitsWhereNext
  <2>5. QED
    BY <2>0, <1>5, <2>1, <2>3, <2>4
<1>8. CASE RemoveFired
  <2>0. PICK tm \in Timers : tm = cur
    BY <1>1, <1>8 DEF RemoveFired
  <2>1. tm \in Timers /\ tm \in cancelled \cup fired /\ timers' = timers \ {tm}
    BY <2>0, <1>1, <1>8 DEF RemoveFired, HandledInv
  <2>2. \A u \in Threads, x \in Timers : Carries(u, x)' <=> Carries(u, x)
    BY <2>0, <1>8 DEF RemoveFired, mutexVars, Carries
  <2>3. \A x \in Timers \ {tm} : Waiting(x)' <=> Waiting(x)
    BY <2>0, <1>3, <2>1, <2>2, WaitsWhere, WaitsWhereNext
  <2>4. Waiting(tm)' => Waiting(tm)
    BY <2>0, <1>3, <2>1, <2>2, WaitsWhere, WaitsWhereNext
  <2>5. QED
    BY <2>0, <1>5, <2>1, <2>3, <2>4
<1>9. QED
  BY <1>6, <1>7, <1>8

\* What a queue without a timer's closure at its end, or its head, still holds.
LEMMA QueueKeepsTimers ==
  ASSUME queue \in Seq(Closures), NEW c \in Closures, c.kind # "timer", Post(c),
         NEW k \in Nat, NEW tm \in Timers
  PROVE  Posted(k, tm)' <=> Posted(k, tm)
<1>1. Posted(k, tm) => Posted(k, tm)'
  BY DEF Post, Posted
<1>2. c # [kind |-> "timer", id |-> tm]
  OBVIOUS
<1>3. QED
  BY <1>1, <1>2, PostAdds

\* Posting moves a timer from its thread to the queue, unless the executor is
\* gone: then the backend is closed and the timer is discarded.
LEMMA PostingIsQuiet ==
  ASSUME IInv, PlaceInv, NEW t \in Threads, PostTimer(t) \/ PostIdle(t) \/ PostStop(t)
  PROVE  [Promise!PromiseNext]_(Promise!promiseVars)
<1>1. /\ fired \subseteq added \cap Timers /\ queue \in Seq(Closures) /\ pc \in [Threads -> Steps]
      /\ arg \in [Threads -> Timers \cup Idles \cup {NoTimer}]
      /\ ~executorUp => terminate
      /\ pc[t] = "postTimer" => arg[t] \in Timers
      /\ pc[t] = "postIdle" => arg[t] \in Idles
  BY CalledAreTimers DEF IInv, TypeOK, PlaceInv, ArgsFit, TimerSteps, CleanupInv, Down
<1>2. UNCHANGED <<added \cap Timers, calls, passed, cancelled, terminate, timers>>
  BY DEF PostTimer, PostIdle, PostStop, stateVars, timerVars, history
<1>3. (pc[Main] = "purge")' <=> pc[Main] = "purge"
  BY <1>1 DEF PostTimer, PostIdle, PostStop, Return, Begin, Goto, Threads
<1>4. CASE PostIdle(t) \/ PostStop(t)
  <2>1. \A x \in Timers, k \in Nat : Posted(k, x)' <=> Posted(k, x)
    <3>1. PICK c \in Closures : c.kind # "timer" /\ (Post(c) \/ UNCHANGED queue)
      <4>1. CASE PostIdle(t)
        <5>1. [kind |-> "idle", id |-> arg[t]] \in Closures
          BY <1>1, <4>1 DEF PostIdle, Closures
        <5>2. QED
          BY <4>1, <5>1 DEF PostIdle
      <4>2. CASE PostStop(t)
        <5>1. [kind |-> "stop"] \in Closures
          BY DEF Closures
        <5>2. QED
          BY <4>2, <5>1 DEF PostStop
      <4>3. QED
        BY <1>4, <4>1, <4>2
    <3>2. CASE Post(c)
      BY <1>1, <3>1, <3>2, QueueKeepsTimers
    <3>3. CASE UNCHANGED queue
      BY <3>3 DEF Posted
    <3>4. QED
      BY <3>1, <3>2, <3>3
  <2>2. \A u \in Threads, x \in Timers : Carries(u, x)' <=> Carries(u, x)
    BY <1>1, <1>4 DEF PostIdle, PostStop, Return, Begin, Goto, Carries
  <2>3. ASSUME NEW x \in Timers PROVE Waiting(x)' <=> Waiting(x)
    BY <1>2, <2>1, <2>2, WaitsWhere, WaitsWhereNext
  <2>4. QED
    BY <1>1, <1>2, <1>3, <2>3, QuietStep
<1>5. CASE PostTimer(t)
  <2>1. PICK tm \in Timers : tm = arg[t]
    BY <1>1, <1>5 DEF PostTimer
  <2>2. Post([kind |-> "timer", id |-> tm]) /\ Carries(t, tm)
    BY <1>5, <2>1 DEF PostTimer, Carries
  <2>3. \A u \in Threads, x \in Timers : Carries(u, x)' <=> Carries(u, x) /\ u # t
    BY <1>1, <1>5 DEF PostTimer, Return, Begin, Carries
  <2>4. \A x \in Timers, k \in Nat : Posted(k, x) => Posted(k, x)'
    BY <1>1, <2>2 DEF Post, Posted
  <2>5. \A x \in Timers, k \in Nat : Posted(k, x)' => Posted(k, x) \/ x = tm
    BY <1>1, <2>2, PostAdds
  <2>6. Waiting(tm) /\ \A u \in Threads, x \in Timers : Carries(u, x) => u # t \/ x = tm
    BY <2>1, <2>2, WaitsWhere DEF Carries
  <2>7. ASSUME NEW x \in Timers \ {tm} PROVE Waiting(x)' <=> Waiting(x)
    BY <1>2, <2>3, <2>4, <2>5, <2>6, WaitsWhere, WaitsWhereNext
  <2>8. CASE executorUp
    <3>1. \E k \in Nat : Posted(k, tm)'
      <4>1. queue' = Append(queue, [kind |-> "timer", id |-> tm])
        BY <2>2, <2>8 DEF Post
      <4>2. ASSUME NEW k \in Nat, k = Len(queue) + 1 PROVE Posted(k, tm)'
        BY <1>1, <4>1, <4>2 DEF Posted
      <4>3. QED
        BY <1>1, <4>2
    <3>2. Waiting(tm)'
      BY <1>1, <3>1, WaitsWhereNext
    <3>3. QED
      BY <1>1, <1>2, <1>3, <2>6, <2>7, <3>2, QuietStep
  <2>9. CASE ~executorUp
    <3>1. \E S \in SUBSET Timers : Promise!Discard(S)
      BY <1>1, <1>2, <2>6, <2>7, Discarding
    <3>2. Promise!ShutDown
      BY <1>1, <1>2, <1>3, <2>9, <3>1 DEF Promise!ShutDown
    <3>3. QED
      BY <3>2 DEF Promise!PromiseNext
  <2>10. QED
    BY <2>8, <2>9
<1>6. QED
  BY <1>4, <1>5

\* Taking the oldest closure moves a timer from the queue to the loop thread.
LEMMA TakingIsQuiet ==
  ASSUME IInv, PlaceInv, RunClosure
  PROVE  UNCHANGED Promise!promiseVars
<1>1. /\ fired \subseteq added \cap Timers /\ queue \in Seq(Closures) /\ pc \in [Threads -> Steps]
      /\ arg \in [Threads -> Timers \cup Idles \cup {NoTimer}] /\ Main \in Threads
  BY CalledAreTimers DEF IInv, TypeOK, PlaceInv, Threads
<1>2. /\ UNCHANGED <<added \cap Timers, calls, passed, cancelled, terminate, timers>>
      /\ (pc[Main] = "purge")' <=> pc[Main] = "purge"
      /\ queue # <<>> /\ queue' = Tail(queue) /\ pc[Main] = "ready"
  BY <1>1 DEF RunClosure, RunTimerClosure, RunIdleClosure, RunStopClosure, Begin,
         stateVars, timerVars, mutexVars
<1>3. Head(queue) \in Closures /\ Head(queue) = queue[1] /\ 1 \in 1..Len(queue)
  BY <1>1, <1>2, TakeKeepsQueue
<1>4. \A k \in Nat, tm \in Timers : Posted(k, tm)' <=> k # 0 /\ Posted(k + 1, tm)
  BY <1>1, <1>2, TakeMoves
<1>5. ASSUME NEW tm \in Timers
      PROVE  (\E k \in Nat : Posted(k, tm)) <=> Posted(1, tm) \/ \E k \in Nat : Posted(k, tm)'
  <2>1. ASSUME NEW k \in Nat, Posted(k, tm), k # 1
        PROVE  k - 1 \in Nat /\ k - 1 # 0 /\ Posted((k - 1) + 1, tm)
    <3>1. k \in 1..Len(queue) /\ (k - 1) + 1 = k
      BY <2>1 DEF Posted
    <3>2. QED
      BY <2>1, <3>1
  <2>2. QED
    BY <1>4, <2>1
<1>6. ASSUME NEW u \in Threads, NEW tm \in Timers
      PROVE  Carries(u, tm)' <=> Carries(u, tm) \/ (u = Main /\ Posted(1, tm))
  <2>1. ~Carries(Main, tm)
    BY <1>2 DEF Carries
  <2>2. CASE RunTimerClosure
    <3>1. Head(queue) = [kind |-> "timer", id |-> Head(queue).id]
      BY <1>3, <2>2 DEF Closures, RunTimerClosure
    <3>2. pc' = [pc EXCEPT ![Main] = "register"] /\ arg' = [arg EXCEPT ![Main] = Head(queue).id]
      BY <2>2 DEF RunTimerClosure, Begin
    <3>3. Posted(1, tm) <=> Head(queue).id = tm
      BY <1>3, <3>1 DEF Posted
    <3>4. QED
      BY <1>1, <2>1, <3>2, <3>3 DEF Carries
  <2>3. CASE RunIdleClosure \/ RunStopClosure
    <3>1. UNCHANGED <<pc, arg>> /\ Head(queue).kind # "timer"
      BY <2>3 DEF RunIdleClosure, RunStopClosure, mutexVars
    <3>2. ~Posted(1, tm)
      BY <1>3, <3>1 DEF Posted
    <3>3. QED
      BY <3>1, <3>2 DEF Carries
  <2>4. QED
    BY <2>2, <2>3 DEF RunClosure
<1>7. ASSUME NEW tm \in Timers PROVE Waiting(tm)' <=> Waiting(tm)
  BY <1>1, <1>2, <1>5, <1>6, WaitsWhere, WaitsWhereNext
<1>8. QED
  BY <1>1, <1>2, <1>7, QuietStep

\* cancelPending() and the teardown throw away what waits in the list or the queue.
LEMMA PurgesDiscard ==
  ASSUME IInv, PlaceInv,
         Purge \/ \E t \in Threads : ClearTimers(t) \/ ResetLoop(t)
  PROVE  [Promise!PromiseNext]_(Promise!promiseVars)
<1>1. /\ fired \subseteq added \cap Timers /\ pc \in [Threads -> Steps] /\ Main \in Threads
      /\ arg \in [Threads -> Timers \cup Idles \cup {NoTimer}]
  BY CalledAreTimers DEF IInv, TypeOK, PlaceInv, Threads
<1>2. /\ UNCHANGED <<added \cap Timers, calls, passed, cancelled, terminate>>
      /\ timers' \subseteq timers
  BY DEF Purge, ClearTimers, ResetLoop, stateVars, timerVars, history
<1>3. \A x \in Timers, k \in Nat : Posted(k, x)' => Posted(k, x)
  BY DEF Purge, ClearTimers, ResetLoop, Posted
<1>4. \A u \in Threads, x \in Timers : Carries(u, x)' => Carries(u, x)
  BY <1>1 DEF Purge, ClearTimers, ResetLoop, Goto, Return, Begin, Carries
<1>5. ASSUME NEW x \in Timers PROVE Waiting(x)' => Waiting(x)
  BY <1>2, <1>3, <1>4, WaitsWhere, WaitsWhereNext
<1>6. \E S \in SUBSET Timers : Promise!Discard(S)
  BY <1>1, <1>2, <1>5, Discarding
<1>7. CASE Purge
  <2>1. Promise!EndPurge
    BY <1>1, <1>2, <1>6, <1>7 DEF Promise!EndPurge, Purge, Return, Begin
  <2>2. QED
    BY <2>1 DEF Promise!PromiseNext
<1>8. ASSUME NEW t \in Threads, ClearTimers(t) \/ ResetLoop(t)
      PROVE  [Promise!PromiseNext]_(Promise!promiseVars)
  <2>1. terminate
    BY <1>8 DEF ClearTimers, ResetLoop, IInv, CleanupInv, CleanupSteps, Down
  <2>2. (pc[Main] = "purge")' <=> pc[Main] = "purge"
    BY <1>1, <1>8 DEF ClearTimers, ResetLoop, Return, Begin, Goto
  <2>3. Promise!ShutDown
    BY <1>2, <1>6, <2>1, <2>2 DEF Promise!ShutDown
  <2>4. QED
    BY <2>3 DEF Promise!PromiseNext
<1>9. QED
  BY <1>7, <1>8

\* Flags: a cancellation, the start of a purge, the end of the backend.
LEMMA FlagsAreRaised ==
  ASSUME IInv, PlaceInv,
         \/ \E t \in Threads : Terminate(t) \/ \E tm \in Timers : Cancel(t, tm)
         \/ CancelPending \/ FinishLoop
  PROVE  [Promise!PromiseNext]_(Promise!promiseVars)
<1>1. /\ fired \subseteq added \cap Timers /\ pc \in [Threads -> Steps] /\ Main \in Threads
      /\ arg \in [Threads -> Timers \cup Idles \cup {NoTimer}]
      /\ phase = "leaving" => pc[Main] = "ready"
  BY CalledAreTimers DEF IInv, TypeOK, PlaceInv, LoopInv, Threads
<1>2. UNCHANGED <<added \cap Timers, calls, passed, timers, queue>>
  BY DEF Terminate, Cancel, CancelPending, FinishLoop, timerVars, history
<1>3. \A u \in Threads, x \in Timers : Carries(u, x)' <=> Carries(u, x)
  BY <1>1 DEF Terminate, Cancel, CancelPending, FinishLoop, MayCall, Goto, Begin, Carries
<1>4. UNCHANGED Status
  BY <1>1, <1>2, <1>3, StayingPut, SameStatus
<1>5. ASSUME NEW t \in Threads, Terminate(t)
      PROVE  Promise!Close
  BY <1>1, <1>2, <1>4, <1>5 DEF Promise!Close, Terminate, MayCall, Goto, timerVars
<1>6. ASSUME NEW t \in Threads, NEW tm \in Timers, Cancel(t, tm)
      PROVE  Promise!GiveUp(tm)
  <2>1. Status[tm] # "new"
    BY <1>1, <1>6, StatusIs DEF Cancel, Held
  <2>2. QED
    BY <1>1, <1>2, <1>4, <1>6, <2>1 DEF Promise!GiveUp, Cancel, MayCall, Begin, stateVars
<1>7. CASE CancelPending
  <2>1. Promise!BeginPurge
    BY <1>1, <1>2, <1>4, <1>7 DEF Promise!BeginPurge, CancelPending, MayCall, Goto, stateVars, timerVars
  <2>2. QED
    BY <2>1 DEF Promise!PromiseNext
<1>8. CASE FinishLoop
  <2>1. Promise!Close
    BY <1>1, <1>2, <1>4, <1>8 DEF Promise!Close, FinishLoop, Goto, timerVars
  <2>2. QED
    BY <2>1 DEF Promise!PromiseNext
<1>9. QED
  BY <1>5, <1>6, <1>7, <1>8 DEF Promise!PromiseNext

\* Every step of the threads is one the promise allows, or none.
LEMMA PromiseStep ==
  ASSUME IInv, PlaceInv, HandledInv, [Next]_vars
  PROVE  [Promise!PromiseNext]_(Promise!promiseVars)
<1>a. /\ fired \subseteq added \cap Timers /\ pc \in [Threads -> Steps]
      /\ arg \in [Threads -> Timers \cup Idles \cup {NoTimer}]
  BY CalledAreTimers DEF IInv, TypeOK, PlaceInv
<1>1. ASSUME NEW t \in Threads, Call(t)
      PROVE  [Promise!PromiseNext]_(Promise!promiseVars)
  <2>1. ASSUME NEW tm \in Timers, AddTimer(t, tm)
        PROVE  [Promise!PromiseNext]_(Promise!promiseVars)
    BY <2>1, AddAccepts DEF Promise!PromiseNext
  <2>2. CASE Terminate(t) \/ \E tm \in Timers : Cancel(t, tm)
    BY <2>2, FlagsAreRaised
  <2>3. CASE \E i \in Idles : AddIdle(t, i)
    BY <1>a, <2>3, CallsAreQuiet
  <2>4. ASSUME NEW tm \in Timers, Rearm(t, tm)
        PROVE  [Promise!PromiseNext]_(Promise!promiseVars)
    BY <2>4, DeadlinesMove DEF Promise!PromiseNext
  <2>5. QED
    BY <1>1, <2>1, <2>2, <2>3, <2>4 DEF Call
<1>2. ASSUME NEW t \in Threads, Continue(t)
      PROVE  [Promise!PromiseNext]_(Promise!promiseVars)
  <2>1. CASE PostTimer(t) \/ PostIdle(t) \/ PostStop(t)
    BY <2>1, PostingIsQuiet
  <2>2. CASE RegisterTimer(t) \/ Erase(t)
    BY <2>2, CancelledDrops
  <2>3. CASE ClearTimers(t) \/ ResetLoop(t)
    BY <2>3, PurgesDiscard
  <2>4. CASE LockCancel(t) \/ LockRearm(t) \/ UpdateLoopTimer(t) \/ LoadGeneration(t)
               \/ ReadRunning(t) \/ Cleanup(t) \/ JoinGatherer(t)
    BY <1>a, <2>4, CallsAreQuiet
  <2>5. QED
    BY <1>2, <2>1, <2>2, <2>3, <2>4 DEF Continue
<1>3. CASE LoopStep
  <2>1. CASE CallTimer
    <3>1. cur \in Timers
      BY <2>1 DEF CallTimer, IInv, ArgsFit
    <3>2. QED
      BY <2>1, <3>1, CallFires DEF Promise!PromiseNext
  <2>2. CASE RunClosure
    BY <2>2, TakingIsQuiet
  <2>3. CASE RemoveFired
    BY <2>3, CancelledDrops
  <2>4. CASE FinishLoop
    BY <2>4, FlagsAreRaised
  <2>5. CASE \/ StartLoop \/ DispatchEvent \/ PostponeTimer \/ EndCallback \/ LeaveLoop
             \/ \E tm \in Timers : FireLoopTimer(tm)
    BY <1>a, <2>5, LoopIsQuiet
  <2>6. QED
    BY <1>3, <2>1, <2>2, <2>3, <2>4, <2>5 DEF LoopStep
<1>4. CASE CancelPending
  BY <1>4, FlagsAreRaised
<1>5. CASE Purge
  BY <1>5, PurgesDiscard
<1>6. CASE EnterLoop \/ UNCHANGED vars \/ \E tm \in Timers : ComeDue(tm)
  BY <1>a, <1>6, LoopIsQuiet
<1>7. ASSUME NEW tm \in Timers, Expire(tm)
      PROVE  [Promise!PromiseNext]_(Promise!promiseVars)
  BY <1>7, DeadlinesMove DEF Promise!PromiseNext
<1>8. QED
  BY <1>1, <1>2, <1>3, <1>4, <1>5, <1>6, <1>7 DEF Next

\* The threaded event loop implements the sequential promise of OneShotTimers:
\* no accepted timer is lost between the threads before its call, no call is a
\* second one, and none comes before the deadline the timer was last given.
THEOREM TimersKeepPromise == Spec => KeepsTimerPromise
<1>1. Init => PlaceInv /\ HandledInv /\ Promise!PromiseInit
  <2> SUFFICES ASSUME Init PROVE PlaceInv /\ HandledInv /\ Promise!PromiseInit
    OBVIOUS
  <2>0. fired = {}
    BY DEF Init, fired
  <2>1. \A t \in Threads : pc[t] = "ready"
    BY DEF Init
  <2>2. \A k \in Nat, tm \in Timers : ~Posted(k, tm)
    BY DEF Init, Posted
  <2>3. PlaceInv
    BY <2>1, <2>2, <2>0 DEF Init, PlaceInv, Carries
  <2>4. HandledInv
    BY <2>1 DEF Init, HandledInv
  <2>5. ASSUME NEW tm \in Timers PROVE Status[tm] = "new"
    BY <2>0, StatusIs DEF Init
  <2>6. Promise!PromiseInit
    BY <2>1, <2>5, StatusMaps DEF Init, Promise!PromiseInit, Threads
  <2>7. QED
    BY <2>3, <2>4, <2>6
<1>2. IInv /\ PlaceInv /\ HandledInv /\ [Next]_vars => PlaceInv' /\ HandledInv'
  BY PlaceStep, HandledStep
<1>3. IInv /\ PlaceInv /\ HandledInv /\ [Next]_vars
        => [Promise!PromiseNext]_(Promise!promiseVars)
  BY PromiseStep
<1>4. QED
  BY <1>1, <1>2, <1>3, Invariance, PTL DEF Spec, KeepsTimerPromise, Promise!PromiseSpec
=============================================================================
