------------------------------ MODULE EventLoop ------------------------------
(***************************************************************************)
(* The native backend's event loop: CBackend (src/core/Backend.cpp) with   *)
(* the CTimer objects it hands out (src/helpers/Timer.cpp).                *)
(*                                                                         *)
(* Main is the thread that calls enterLoop().  Others are application      *)
(* threads that may add, cancel and re-arm timers and destroy the backend. *)
(* Gatherer is the worker of the asynchronous resource gatherer: its       *)
(* "resource finished" callbacks call addIdle().                           *)
(*                                                                         *)
(* Every lock of m_loopStateMutex, every access to m_timers and every load *)
(* or exchange of an atomic is a step of its own, so the interleavings of  *)
(* the threads are those of the program.  Real time is abstracted: a timer *)
(* is "passed" once its m_expires lies in the past and "due" once the      *)
(* loop-side timer would fire; either may happen at any moment.            *)
(***************************************************************************)
EXTENDS Naturals, Sequences

CONSTANTS
  Main,       \* the thread that enters the loop
  Gatherer,   \* the worker thread of g_asyncResourceGatherer
  Others,     \* further application threads
  NoThread,   \* value of the mutex when it is free
  Timers,     \* CTimer objects the application may create, each added once
  NoTimer,    \* no timer
  Idles,      \* functions passed to addIdle, each posted once
  MaxPurges   \* bound on the calls of cancelPending

ASSUME EventLoopAssumption ==
  /\ Main # Gatherer
  /\ Main \notin Others
  /\ Gatherer \notin Others
  /\ NoThread \notin Others \cup {Main, Gatherer}
  /\ NoTimer \notin Timers
  /\ Timers \cap Idles = {}
  /\ MaxPurges \in Nat

Threads == Others \cup {Main, Gatherer}
AppThreads == Others \cup {Main}

VARIABLES
  mutex,       \* owner of m_loopStateMutex
  pc,          \* next step of the toolkit call each thread is inside of
  arg,         \* the timer or idle function that call works on
  terminate,   \* m_terminate
  cleaned,     \* m_cleaned
  running,     \* m_loopRunning (m_loopThread is Main whenever it is set)
  phase,       \* where Main is in enterLoop()
  cur,         \* the timer whose callback Main is handling
  stopped,     \* IEventLoop::stop() was called
  executorUp,  \* m_eventLoopExecutor and m_eventLoop are not reset
  gathererUp,  \* g_asyncResourceGatherer is not reset
  queue,       \* closures posted to the executor
  timers,      \* the CTimers listed in m_timers
  due,         \* loop timers that have reached their deadline
  passed,      \* CTimers with m_expires in the past
  cancelled,   \* CTimers with m_wasCancelled set
  gen,         \* m_pendingGeneration
  idleGen,     \* the generation each addIdle() captured
  added,       \* history: timers and idle functions the backend accepted
  calls,       \* history: how often each timer's callback was called
  silenced,    \* history: timers cancelled before the loop looked at the flag
  rearmed,     \* history: timers given a new timeout
  ran,         \* history: idle functions that were called
  purged       \* history: idle functions accepted before a cancelPending()

mutexVars  == <<mutex, pc, arg>>
stateVars  == <<terminate, cleaned, running>>
loopVars   == <<phase, cur, stopped>>
lifeVars   == <<executorUp, gathererUp>>
timerVars  == <<timers, due, passed, cancelled>>
idleVars   == <<gen, idleGen>>
history    == <<added, calls, silenced, rearmed, ran, purged>>
vars == <<mutexVars, stateVars, loopVars, lifeVars, queue, timerVars,
          idleVars, history>>

Steps == {"ready", "postTimer", "register", "lockCancel", "erase", "lockRearm",
          "rearm", "loadGeneration", "postIdle", "purge", "readRunning",
          "postStop", "cleanup", "joinGatherer", "clearTimers", "resetLoop"}

Phases == {"out", "entering", "polling", "checked", "callback", "removing",
           "leaving", "left"}

Closures == [kind : {"timer"}, id : Timers] \cup [kind : {"idle"}, id : Idles]
              \cup [kind : {"stop"}]

-----------------------------------------------------------------------------
Init ==
  /\ mutex = NoThread
  /\ pc = [t \in Threads |-> "ready"]
  /\ arg = [t \in Threads |-> NoTimer]
  /\ terminate = FALSE /\ cleaned = FALSE /\ running = FALSE
  /\ phase = "out" /\ cur = NoTimer /\ stopped = FALSE
  /\ executorUp = TRUE /\ gathererUp = TRUE
  /\ queue = <<>>
  /\ timers = {} /\ due = {} /\ passed = {} /\ cancelled = {}
  /\ gen = 0 /\ idleGen = [i \in Idles |-> 0]
  /\ added = {} /\ calls = [tm \in Timers |-> 0] /\ silenced = {} /\ rearmed = {}
  /\ ran = {} /\ purged = {}

\* The call thread t is inside of: its next step and what it works on.
Goto(t, step)      == pc' = [pc EXCEPT ![t] = step] /\ UNCHANGED arg
Begin(t, step, x)  == /\ pc' = [pc EXCEPT ![t] = step]
                      /\ arg' = [arg EXCEPT ![t] = x]
Return(t)          == Begin(t, "ready", NoTimer)

Lock(t)   == mutex = NoThread /\ mutex' = t
Unlock(t) == mutex' = NoThread

\* Application code runs on Main before the loop, in callbacks and in the
\* event handlers enterLoop() dispatches; on the other threads at any time.
MayCall(t) ==
  /\ pc[t] = "ready"
  /\ t = Main => phase \in {"out", "entering", "callback"}

\* m_loopRunning && m_loopThread != this_thread
OffLoop(t) == running /\ t # Main

\* A closure posted to a loop that is already gone is dropped.
Post(c) == queue' = IF executorUp THEN Append(queue, c) ELSE queue

-----------------------------------------------------------------------------
(* CBackend::addTimer *)

AddTimer(t, tm) ==
  /\ t \in AppThreads /\ MayCall(t) /\ tm \notin added
  /\ mutex = NoThread /\ ~terminate /\ executorUp
  /\ added' = added \cup {tm}
  /\ \/ /\ OffLoop(t)
        /\ Begin(t, "postTimer", tm) /\ UNCHANGED mutex
     \/ /\ ~OffLoop(t)
        /\ Begin(t, "register", tm) /\ mutex' = t
  /\ UNCHANGED <<stateVars, loopVars, lifeVars, queue, timerVars, idleVars,
                 calls, silenced, rearmed, ran, purged>>

PostTimer(t) ==
  /\ pc[t] = "postTimer"
  /\ Post([kind |-> "timer", id |-> arg[t]])
  /\ Return(t)
  /\ UNCHANGED <<mutex, stateVars, loopVars, lifeVars, timerVars, idleVars, history>>

\* registerTimer(), reached with the mutex held from addTimer() or from the
\* closure addTimer() posted.
RegisterTimer(t) ==
  /\ pc[t] = "register"
  /\ timers' = IF terminate \/ arg[t] \in cancelled THEN timers
                                                    ELSE timers \cup {arg[t]}
  /\ Unlock(t) /\ Return(t)
  /\ UNCHANGED <<stateVars, loopVars, lifeVars, queue, due, passed, cancelled,
                 idleVars, history>>

-----------------------------------------------------------------------------
(* CTimer::cancel, CTimer::updateTimeout and their CBackend halves *)

\* addTimer() has returned the handle.
Held(tm) ==
  /\ tm \in added
  /\ \A t \in Threads : arg[t] = tm => pc[t] \notin {"postTimer", "register"}

\* The flag is set before the backend is asked to drop the entry.
Cancel(t, tm) ==
  /\ t \in AppThreads /\ MayCall(t) /\ Held(tm) /\ tm \notin cancelled
  /\ cancelled' = cancelled \cup {tm}
  /\ silenced' = IF phase = "checked" /\ cur = tm THEN silenced
                                                  ELSE silenced \cup {tm}
  /\ Begin(t, "lockCancel", tm)
  /\ UNCHANGED <<mutex, stateVars, loopVars, lifeVars, queue, timers, due, passed,
                 idleVars, added, calls, rearmed, ran, purged>>

\* Bound: every timer gets a new timeout at most once.
Rearm(t, tm) ==
  /\ t \in AppThreads /\ MayCall(t) /\ Held(tm) /\ tm \notin rearmed
  /\ rearmed' = rearmed \cup {tm}
  /\ passed' = passed \ {tm}
  /\ Begin(t, "lockRearm", tm)
  /\ UNCHANGED <<mutex, stateVars, loopVars, lifeVars, queue, timers, due, cancelled,
                 idleVars, added, calls, silenced, ran, purged>>

\* cancelTimer() and updateTimer() do nothing off the loop thread: the loop
\* reads the flag and m_expires itself when the loop timer fires.
LockTimer(t, from, to) ==
  /\ pc[t] = from /\ mutex = NoThread
  /\ \/ (terminate \/ OffLoop(t)) /\ Return(t) /\ UNCHANGED mutex
     \/ ~(terminate \/ OffLoop(t)) /\ Goto(t, to) /\ Lock(t)
  /\ UNCHANGED <<stateVars, loopVars, lifeVars, queue, timerVars, idleVars, history>>

LockCancel(t) == LockTimer(t, "lockCancel", "erase")
LockRearm(t)  == LockTimer(t, "lockRearm", "rearm")

Erase(t) ==
  /\ pc[t] = "erase"
  /\ timers' = timers \ {arg[t]}
  /\ Unlock(t) /\ Return(t)
  /\ UNCHANGED <<stateVars, loopVars, lifeVars, queue, due, passed, cancelled,
                 idleVars, history>>

UpdateLoopTimer(t) ==
  /\ pc[t] = "rearm"
  /\ due' = IF arg[t] \in timers THEN due \ {arg[t]} ELSE due
  /\ Unlock(t) /\ Return(t)
  /\ UNCHANGED <<stateVars, loopVars, lifeVars, queue, timers, passed, cancelled,
                 idleVars, history>>

\* The clock: m_expires moves into the past (CTimer::passed).
Expire(tm) ==
  /\ tm \in added \ passed
  /\ passed' = passed \cup {tm}
  /\ UNCHANGED <<mutexVars, stateVars, loopVars, lifeVars, queue, timers, due,
                 cancelled, idleVars, history>>

\* The clock: the loop-side timer reaches its own deadline.
ComeDue(tm) ==
  /\ tm \in timers \ due
  /\ due' = due \cup {tm}
  /\ UNCHANGED <<mutexVars, stateVars, loopVars, lifeVars, queue, timers, passed,
                 cancelled, idleVars, history>>

-----------------------------------------------------------------------------
(* CBackend::addIdle, which the toolkit calls from the loop thread and from *)
(* the gatherer's worker.  Nothing in it is locked.                         *)

AddIdle(t, i) ==
  /\ t \in {Main, Gatherer} /\ MayCall(t) /\ i \notin added
  /\ t = Gatherer => gathererUp
  /\ executorUp /\ ~terminate
  /\ added' = added \cup {i}
  /\ Begin(t, "loadGeneration", i)
  /\ UNCHANGED <<mutex, stateVars, loopVars, lifeVars, queue, timerVars, idleVars,
                 calls, silenced, rearmed, ran, purged>>

LoadGeneration(t) ==
  /\ pc[t] = "loadGeneration"
  /\ idleGen' = [idleGen EXCEPT ![arg[t]] = gen]
  /\ Goto(t, "postIdle")
  /\ UNCHANGED <<mutex, stateVars, loopVars, lifeVars, queue, timerVars, gen, history>>

\* Seeded fault: functions posted before the loop runs are dropped.
PostIdleWhileRunning(t) ==
  /\ pc[t] = "postIdle"
  /\ IF running THEN Post([kind |-> "idle", id |-> arg[t]]) ELSE UNCHANGED queue
  /\ Return(t)
  /\ UNCHANGED <<mutex, stateVars, loopVars, lifeVars, timerVars, idleVars, history>>

PostIdle(t) ==
  /\ pc[t] = "postIdle"
  /\ Post([kind |-> "idle", id |-> arg[t]])
  /\ Return(t)
  /\ UNCHANGED <<mutex, stateVars, loopVars, lifeVars, timerVars, idleVars, history>>

-----------------------------------------------------------------------------
(* CBackend::cancelPending, called by the surfaces' owner inside the loop.  *)

CancelPending ==
  /\ MayCall(Main) /\ running /\ gen < MaxPurges
  /\ Lock(Main)
  /\ gen' = gen + 1
  /\ purged' = purged \cup {i \in Idles \cap added :
                              \A t \in Threads : arg[t] # i \/ pc[t] = "postIdle"}
  /\ Goto(Main, "purge")
  /\ UNCHANGED <<stateVars, loopVars, lifeVars, queue, timerVars, idleGen,
                 added, calls, silenced, rearmed, ran>>

Purge ==
  /\ pc[Main] = "purge"
  /\ timers' = {}
  /\ Unlock(Main) /\ Return(Main)
  /\ UNCHANGED <<stateVars, loopVars, lifeVars, queue, due, passed, cancelled,
                 idleVars, history>>

-----------------------------------------------------------------------------
(* CBackend::terminate and CBackend::cleanup *)

Terminate(t) ==
  /\ t \in AppThreads /\ MayCall(t) /\ ~terminate
  /\ terminate' = TRUE
  /\ Goto(t, "readRunning")
  /\ UNCHANGED <<mutex, cleaned, running, loopVars, lifeVars, queue, timerVars,
                 idleVars, history>>

\* Seeded fault: terminate() leaves the teardown to enterLoop().
TerminateLater(t) ==
  /\ pc[t] = "readRunning" /\ mutex = NoThread
  /\ IF running THEN Goto(t, "postStop") ELSE Return(t)
  /\ UNCHANGED <<mutex, stateVars, loopVars, lifeVars, queue, timerVars, idleVars,
                 history>>

ReadRunning(t) ==
  /\ pc[t] = "readRunning" /\ mutex = NoThread
  /\ Goto(t, IF running THEN "postStop" ELSE "cleanup")
  /\ UNCHANGED <<mutex, stateVars, loopVars, lifeVars, queue, timerVars, idleVars,
                 history>>

PostStop(t) ==
  /\ pc[t] = "postStop"
  /\ \/ executorUp /\ Post([kind |-> "stop"]) /\ Return(t)
     \/ ~executorUp /\ Goto(t, "cleanup") /\ UNCHANGED queue
  /\ UNCHANGED <<mutex, stateVars, loopVars, lifeVars, timerVars, idleVars, history>>

Cleanup(t) ==
  /\ pc[t] = "cleanup"
  /\ cleaned' = TRUE
  /\ IF cleaned THEN Return(t) ELSE Goto(t, "joinGatherer")
  /\ UNCHANGED <<mutex, terminate, running, loopVars, lifeVars, queue, timerVars,
                 idleVars, history>>

\* Seeded fault: the worker is detached instead of joined.
DetachGatherer(t) ==
  /\ pc[t] = "joinGatherer"
  /\ gathererUp' = FALSE
  /\ Goto(t, "clearTimers")
  /\ UNCHANGED <<mutex, stateVars, loopVars, executorUp, queue, timerVars, idleVars,
                 history>>

\* Destroying the gatherer waits for its worker to finish the current call.
JoinGatherer(t) ==
  /\ pc[t] = "joinGatherer" /\ pc[Gatherer] = "ready"
  /\ gathererUp' = FALSE
  /\ Goto(t, "clearTimers")
  /\ UNCHANGED <<mutex, stateVars, loopVars, executorUp, queue, timerVars, idleVars,
                 history>>

ClearTimers(t) ==
  /\ pc[t] = "clearTimers"
  /\ timers' = {}
  /\ gen' = gen + 1
  /\ Goto(t, "resetLoop")
  /\ UNCHANGED <<mutex, stateVars, loopVars, lifeVars, queue, due, passed, cancelled,
                 idleGen, history>>

\* The executor and the event loop go, and the rest of the globals after them.
ResetLoop(t) ==
  /\ pc[t] = "resetLoop"
  /\ executorUp' = FALSE
  /\ queue' = <<>>
  /\ Return(t)
  /\ UNCHANGED <<mutex, stateVars, loopVars, gathererUp, timerVars, idleVars, history>>

-----------------------------------------------------------------------------
(* CBackend::enterLoop on Main *)

EnterLoop ==
  /\ pc[Main] = "ready" /\ phase = "out"
  /\ mutex = NoThread /\ ~terminate /\ executorUp
  /\ running' = TRUE
  /\ phase' = "entering"
  /\ UNCHANGED <<mutexVars, terminate, cleaned, cur, stopped, lifeVars, queue,
                 timerVars, idleVars, history>>

\* After the pending Wayland events were dispatched.
StartLoop ==
  /\ pc[Main] = "ready" /\ phase = "entering"
  /\ phase' = IF terminate THEN "leaving" ELSE "polling"
  /\ UNCHANGED <<mutexVars, stateVars, cur, stopped, lifeVars, queue, timerVars,
                 idleVars, history>>

\* A Wayland or fd event handler runs on the loop thread.
DispatchEvent ==
  /\ pc[Main] = "ready" /\ phase = "polling"
  /\ phase' = "callback"
  /\ UNCHANGED <<mutexVars, stateVars, cur, stopped, lifeVars, queue, timerVars,
                 idleVars, history>>

\* The loop takes the oldest posted closure.
RunTimerClosure ==
  /\ Head(queue).kind = "timer"
  /\ Lock(Main)
  /\ Begin(Main, "register", Head(queue).id)
  /\ UNCHANGED <<phase, stopped, ran>>

\* Seeded fault: the captured generation is not compared.
RunAnyIdleClosure ==
  /\ Head(queue).kind = "idle"
  /\ ran' = ran \cup {Head(queue).id}
  /\ phase' = "callback"
  /\ UNCHANGED <<mutexVars, stopped>>

RunIdleClosure ==
  /\ Head(queue).kind = "idle"
  /\ \/ /\ idleGen[Head(queue).id] = gen
        /\ ran' = ran \cup {Head(queue).id}
        /\ phase' = "callback"
     \/ /\ idleGen[Head(queue).id] # gen
        /\ UNCHANGED <<ran, phase>>
  /\ UNCHANGED <<mutexVars, stopped>>

RunStopClosure ==
  /\ Head(queue).kind = "stop"
  /\ stopped' = TRUE
  /\ UNCHANGED <<mutexVars, phase, ran>>

RunClosure ==
  /\ pc[Main] = "ready" /\ phase = "polling" /\ queue # <<>>
  /\ queue' = Tail(queue)
  /\ RunTimerClosure \/ RunIdleClosure \/ RunStopClosure
  /\ UNCHANGED <<stateVars, cur, lifeVars, timerVars, idleVars,
                 added, calls, silenced, rearmed, purged>>

\* Seeded fault: the callback does not look at cancelled().
FireCancelledTimer(tm) ==
  /\ pc[Main] = "ready" /\ phase = "polling" /\ tm \in timers \cap due
  /\ cur' = tm
  /\ phase' = "checked"
  /\ UNCHANGED <<mutexVars, stateVars, stopped, lifeVars, queue, timerVars, idleVars,
                 history>>

\* The loop timer of tm fires: its callback first looks at cancelled().
FireLoopTimer(tm) ==
  /\ pc[Main] = "ready" /\ phase = "polling" /\ tm \in timers \cap due
  /\ cur' = tm
  /\ phase' = IF tm \in cancelled THEN "removing" ELSE "checked"
  /\ UNCHANGED <<mutexVars, stateVars, stopped, lifeVars, queue, timerVars, idleVars,
                 history>>

\* Seeded fault: a timer that fired too early is given up.
ForgetEarlyTimer ==
  /\ phase = "checked" /\ cur \notin passed
  /\ timers' = timers \ {cur}
  /\ phase' = "polling" /\ cur' = NoTimer
  /\ UNCHANGED <<mutexVars, stateVars, stopped, lifeVars, queue, due, passed,
                 cancelled, idleVars, history>>

\* Too early: the loop timer is armed again for at least one millisecond.
PostponeTimer ==
  /\ phase = "checked" /\ cur \notin passed
  /\ due' = due \ {cur}
  /\ phase' = "polling" /\ cur' = NoTimer
  /\ UNCHANGED <<mutexVars, stateVars, stopped, lifeVars, queue, timers, passed,
                 cancelled, idleVars, history>>

\* Seeded fault: passed() is not asked before the call.
CallEarly ==
  /\ phase = "checked"
  /\ calls' = [calls EXCEPT ![cur] = @ + 1]
  /\ phase' = "callback"
  /\ UNCHANGED <<mutexVars, stateVars, cur, stopped, lifeVars, queue, timerVars,
                 idleVars, added, silenced, rearmed, ran, purged>>

\* passed() and the call are one step: a new deadline set on another thread
\* between the two counts as set after the call.
CallTimer ==
  /\ phase = "checked" /\ cur \in passed
  /\ calls' = [calls EXCEPT ![cur] = @ + 1]
  /\ phase' = "callback"
  /\ UNCHANGED <<mutexVars, stateVars, cur, stopped, lifeVars, queue, timerVars,
                 idleVars, added, silenced, rearmed, ran, purged>>

EndCallback ==
  /\ pc[Main] = "ready" /\ phase = "callback"
  /\ phase' = IF cur = NoTimer THEN "polling" ELSE "removing"
  /\ UNCHANGED <<mutexVars, stateVars, cur, stopped, lifeVars, queue, timerVars,
                 idleVars, history>>

\* Seeded fault: a timer given a new deadline in its callback stays listed.
KeepRearmed ==
  /\ phase = "removing"
  /\ timers' = IF cur \in cancelled \cup passed THEN timers \ {cur} ELSE timers
  /\ phase' = "polling" /\ cur' = NoTimer
  /\ UNCHANGED <<mutexVars, stateVars, stopped, lifeVars, queue, due, passed,
                 cancelled, idleVars, history>>

\* removeTimer() at the end of the loop timer's callback takes no lock.
RemoveFired ==
  /\ phase = "removing"
  /\ timers' = timers \ {cur}
  /\ phase' = "polling" /\ cur' = NoTimer
  /\ UNCHANGED <<mutexVars, stateVars, stopped, lifeVars, queue, due, passed,
                 cancelled, idleVars, history>>

\* IEventLoop::enterLoop() returns, stopped or with an error.
LeaveLoop ==
  /\ pc[Main] = "ready" /\ phase = "polling"
  /\ phase' = "leaving"
  /\ UNCHANGED <<mutexVars, stateVars, cur, stopped, lifeVars, queue, timerVars,
                 idleVars, history>>

FinishLoop ==
  /\ phase = "leaving" /\ mutex = NoThread
  /\ running' = FALSE /\ terminate' = TRUE
  /\ phase' = "left"
  /\ Goto(Main, "cleanup")
  /\ UNCHANGED <<mutex, cleaned, cur, stopped, lifeVars, queue, timerVars, idleVars,
                 history>>

-----------------------------------------------------------------------------
\* The steps a thread takes on its own once it is inside a toolkit call.
Continue(t) ==
  \/ PostTimer(t) \/ RegisterTimer(t)
  \/ LockCancel(t) \/ Erase(t) \/ LockRearm(t) \/ UpdateLoopTimer(t)
  \/ LoadGeneration(t) \/ PostIdle(t)
  \/ ReadRunning(t) \/ PostStop(t)
  \/ Cleanup(t) \/ JoinGatherer(t) \/ ClearTimers(t) \/ ResetLoop(t)

\* What the application may ask for, in any order.
Call(t) ==
  \/ \E tm \in Timers : AddTimer(t, tm) \/ Cancel(t, tm) \/ Rearm(t, tm)
  \/ \E i \in Idles : AddIdle(t, i)
  \/ Terminate(t)

LoopStep ==
  \/ StartLoop \/ DispatchEvent \/ RunClosure
  \/ \E tm \in Timers : FireLoopTimer(tm)
  \/ PostponeTimer \/ CallTimer \/ EndCallback \/ RemoveFired
  \/ LeaveLoop \/ FinishLoop

Next ==
  \/ \E t \in Threads : Call(t) \/ Continue(t)
  \/ CancelPending \/ Purge
  \/ EnterLoop \/ LoopStep
  \/ \E tm \in Timers : Expire(tm) \/ ComeDue(tm)

Spec == Init /\ [][Next]_vars

\* A thread inside a toolkit call finishes it; the loop's iterations reach
\* every posted closure and every due timer; a stopped loop returns; time
\* passes.  Nothing is assumed about what the application calls.
Fairness ==
  /\ \A t \in Threads : WF_vars(Continue(t))
  /\ WF_vars(Purge)
  /\ WF_vars(StartLoop) /\ WF_vars(PostponeTimer) /\ WF_vars(CallTimer)
  /\ WF_vars(EndCallback) /\ WF_vars(RemoveFired) /\ WF_vars(FinishLoop)
  /\ SF_vars(RunClosure) /\ SF_vars(stopped /\ LeaveLoop)
  /\ \A tm \in Timers : SF_vars(FireLoopTimer(tm)) /\ WF_vars(Expire(tm)) /\ WF_vars(ComeDue(tm))

FairSpec == Spec /\ Fairness

-----------------------------------------------------------------------------
TypeOK ==
  /\ mutex \in Threads \cup {NoThread}
  /\ pc \in [Threads -> Steps]
  /\ arg \in [Threads -> Timers \cup Idles \cup {NoTimer}]
  /\ terminate \in BOOLEAN /\ cleaned \in BOOLEAN /\ running \in BOOLEAN
  /\ phase \in Phases /\ cur \in Timers \cup {NoTimer} /\ stopped \in BOOLEAN
  /\ executorUp \in BOOLEAN /\ gathererUp \in BOOLEAN
  /\ queue \in Seq(Closures)
  /\ timers \subseteq Timers /\ due \subseteq Timers /\ passed \subseteq Timers
  /\ cancelled \subseteq Timers
  /\ gen \in Nat /\ idleGen \in [Idles -> Nat]
  /\ added \subseteq Timers \cup Idles
  /\ calls \in [Timers -> Nat] /\ silenced \subseteq Timers /\ rearmed \subseteq Timers
  /\ ran \subseteq Idles /\ purged \subseteq Idles

\* m_timers is read or written by t in its current step.
UsesTimers(t) ==
  \/ pc[t] \in {"register", "erase", "rearm", "purge", "clearTimers"}
  \/ t = Main /\ phase = "removing"

\* m_timers is touched by one thread at a time, although the loop erases from
\* it without the mutex and cleanup() clears it without the mutex.
TimerListExclusive ==
  \A t, u \in Threads : UsesTimers(t) /\ UsesTimers(u) => t = u

CleanupSteps == {"joinGatherer", "clearTimers", "resetLoop"}

\* cleanup() tears the backend down on one thread only, and never under a
\* running loop: the mutex in terminate() and enterLoop() decides who does it.
CleanupExclusive ==
  /\ \A t, u \in Threads : pc[t] \in CleanupSteps /\ pc[u] \in CleanupSteps => t = u
  /\ (\E t \in Threads : pc[t] \in CleanupSteps) \/ ~executorUp
       => phase \in {"out", "left"}

\* The resource worker never posts to an executor that cleanup() has reset.
WorkerPostsToLiveExecutor ==
  pc[Gatherer] \in {"loadGeneration", "postIdle"} => executorUp

\* A timer cancelled, on any thread, before the loop looked at the flag is
\* never called, whether it was posted, listed or already due.
CancelledTimerStaysSilent ==
  [][\A tm \in Timers : calls'[tm] # calls[tm] => tm \notin silenced]_vars

\* A function posted before cancelPending() does not run after it.
PurgedIdleNeverRuns ==
  [][\A i \in Idles : i \in ran' \ ran => i \notin purged]_vars

\* A posted idle function runs unless purged or the backend is going down.
IdleSettles ==
  \A i \in Idles : (i \in added /\ running) ~> (i \in ran \cup purged \/ terminate)

\* destroy() on any thread, in or out of the loop, at any moment of
\* enterLoop(), ends with the loop left and the backend torn down.
TerminationCompletes ==
  terminate ~> (~executorUp /\ ~running)

-----------------------------------------------------------------------------
\* Where an accepted timer still waits: with the thread that is adding it, in
\* the executor's queue, or in m_timers.
Waiting(tm) ==
  \/ tm \in timers
  \/ \E t \in Threads : arg[t] = tm /\ pc[t] \in {"postTimer", "register"}
  \/ \E k \in 1..Len(queue) : queue[k] = [kind |-> "timer", id |-> tm]

\* The timers whose callback was called.
fired == {tm \in Timers : calls[tm] > 0}

\* What became of each timer.
Status ==
  [tm \in Timers |->
     CASE tm \notin added -> "new"
       [] tm \in fired    -> "fired"
       [] tm \in added \ fired /\ Waiting(tm) -> "pending"
       [] OTHER           -> "dropped"]

\* A waiting timer is called unless it is cancelled, purged, or the backend is
\* going down: neither an early loop timer nor a new deadline lets it sleep on.
TimerSettles ==
  \A tm \in Timers :
    (Status[tm] = "pending" /\ running)
      ~> (calls[tm] > 0 \/ tm \in cancelled \/ pc[Main] = "purge" \/ terminate)

Promise == INSTANCE OneShotTimers WITH
  status  <- Status,
  expired <- passed,
  purging <- pc[Main] = "purge",
  closed  <- terminate

\* The threaded implementation keeps the promise of OneShotTimers: no timer is
\* lost between the threads before its call, none is called a second time, and
\* none before the deadline it was last given.
KeepsTimerPromise == Promise!PromiseSpec
=============================================================================
