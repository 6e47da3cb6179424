------------------------------- MODULE Scheduler -------------------------------
(***************************************************************************)
(* sylar::Scheduler (scheduler.h, scheduler.cc) together with the life     *)
(* cycle of the fibers it runs (fiber.cc): a pool of threads takes tasks   *)
(* (a callback or a fiber, possibly pinned to one thread) from the list    *)
(* m_fibers, swaps into them, and afterwards re-queues or parks them       *)
(* according to the state the fiber left behind.                           *)
(*                                                                         *)
(* Every section under m_mutex is one step.  Everything else is split at   *)
(* the points where another thread can see or change shared state: a fiber *)
(* publishes its new state (YieldToHold, YieldToReady, MainFunc) one step  *)
(* before swapcontext has saved its registers, and run() decrements the    *)
(* active counter, reads the state and acts on it in separate steps.       *)
(*                                                                         *)
(* Scheduler::tickle only logs (255-258) and is left out; the IOManager    *)
(* override is the subject of another module.                              *)
(***************************************************************************)
EXTENDS Integers, FiniteSets, Sequences, SequencesExt

CONSTANTS
    Workers,        \* threads started by start() (m_threadCount of them)
    Caller,         \* the thread that constructs, starts and stops the scheduler
    UseCaller,      \* TRUE: that thread runs run() on m_rootFiber inside stop()
    Cbs,            \* callbacks that may be handed to schedule(), each once
    Fibers,         \* fiber objects
    None,           \* null pointer, empty function, thread -1
    Pins,           \* values schedule() may get as its thread argument
    TasksPin,       \* TRUE: tasks too pin what they schedule; FALSE: only the owner
    MaxYields,      \* bound: how often one callback yields before it returns
    MayHold,        \* TRUE: callbacks may wait for a wake-up (YieldToHold)
    MayReady,       \* TRUE: callbacks may give way (YieldToReady)
    WakeParkedOnly, \* TRUE: a waiting fiber is scheduled only once the thread
                    \* that ran it has finished with it; FALSE: any time after
                    \* the fiber has registered itself
    MayRepeat       \* TRUE: a task may schedule() a fiber it has a pointer to
                    \* once more, whatever that fiber is doing

Threads == Workers \union (IF UseCaller THEN {Caller} ELSE {})

ASSUME ThreadAssumption ==
    /\ IsFiniteSet(Threads)
    /\ Threads # {}            \* SYLAR_ASSERT(threads>0)
    /\ UseCaller \in BOOLEAN
    /\ Caller \notin Workers
ASSUME NoneAssumption == None \notin Threads \union Fibers \union Cbs
ASSUME PinAssumption == Pins \subseteq Threads \union {None}
ASSUME BoundAssumption == MaxYields \in Nat
ASSUME SwitchAssumption ==
    /\ MayHold \in BOOLEAN
    /\ MayReady \in BOOLEAN
    /\ TasksPin \in BOOLEAN
    /\ WakeParkedOnly \in BOOLEAN
    /\ MayRepeat \in BOOLEAN

VARIABLES
    m_fibers,            \* task list
    m_activeThreadCount, \* threads that hold a task
    m_idleThreadCount,   \* threads inside their idle fiber
    m_stopping,
    m_autoStop,
    m_state,             \* Fiber::m_state of every fiber object
    m_cb,                \* Fiber::m_cb: the callback a fiber runs
    saved,               \* the fiber's m_ctx holds all it needs to be resumed
    armed,               \* the fiber is registered with somebody who will
                         \* schedule it (an event or a timer)
    pc,                  \* where each thread is in run()
    ft,                  \* run()'s local FiberAndThread
    cbFiber,             \* run()'s local cb_fiber
    idleTerm,            \* run()'s idle_fiber has reached TERM
    running,             \* the fiber whose code the thread is executing
                         \* (thread-local t_fiber; None: the run() loop or idle)
    mainPc,              \* the owner's progress through start() and stop()
    scheduled,           \* callbacks handed to schedule() so far
    repeatable,          \* fibers that may be scheduled once more (MayRepeat)
    ended,               \* callbacks that have returned or thrown
    yields               \* yields of each callback so far, for MaxYields

taskVars  == <<m_fibers, m_activeThreadCount, scheduled, repeatable>>
fiberVars == <<m_state, m_cb, saved, armed>>
bodyVars  == <<ended, yields>>
loopVars  == <<ft, cbFiber, running>>
idleVars  == <<idleTerm, m_idleThreadCount>>
mainVars  == <<mainPc, m_stopping, m_autoStop>>
vars == <<taskVars, fiberVars, bodyVars, loopVars, idleVars, mainVars, pc>>

\* Fiber::State; "NEW" is a fiber object that has not been constructed yet.
State == {"NEW", "INIT", "HOLD", "EXEC", "TERM", "READY", "EXCEPT"}
Over  == {"TERM", "EXCEPT"}

FiberAndThread == [fiber  : Fibers \union {None},
                   cb     : Cbs \union {None},
                   thread : Threads \union {None}]
\* The assertion it->fiber || it->cb in run(): what may be in the list.
Task == {x \in FiberAndThread : x.fiber # None \/ x.cb # None}
NoTask == [fiber |-> None, cb |-> None, thread |-> None]
CbTask(c, thr)    == [fiber |-> None, cb |-> c, thread |-> thr]
FiberTask(f, thr) == [fiber |-> f, cb |-> None, thread |-> thr]

\* The fiber thread t is about to enter, has entered, or has just left.
Cur(t) == IF ft[t].fiber # None THEN ft[t].fiber ELSE cbFiber[t]

Labels == {"off", "fetch", "dispatch", "exec", "armed", "swap", "dec",
           "settle", "requeue", "hold", "idle", "idleStop", "idleRet",
           "exited"}
MainLabels == {"new", "up", "check", "checkLock", "called", "join", "done"}

Init ==
    /\ m_fibers = <<>>
    /\ m_activeThreadCount = 0
    /\ m_idleThreadCount = 0
    /\ m_stopping = TRUE
    /\ m_autoStop = FALSE
    /\ m_state = [f \in Fibers |-> "NEW"]
    /\ m_cb = [f \in Fibers |-> None]
    /\ saved = [f \in Fibers |-> FALSE]
    /\ armed = [f \in Fibers |-> FALSE]
    /\ pc = [t \in Threads |-> "off"]
    /\ ft = [t \in Threads |-> NoTask]
    /\ cbFiber = [t \in Threads |-> None]
    /\ idleTerm = [t \in Threads |-> FALSE]
    /\ running = [t \in Threads |-> None]
    /\ mainPc = "new"
    /\ scheduled = {}
    /\ repeatable = {}
    /\ ended = {}
    /\ yields = [c \in Cbs |-> 0]

Goto(t, label) == pc' = [pc EXCEPT ![t] = label]

-----------------------------------------------------------------------------
(* schedule(): the owner calls it before stop(), tasks call it while running *)

ByOwner == mainPc \in {"new", "up"}
MaySchedule == ByOwner \/ \E t \in Threads : pc[t] = "exec"
MayPin(thr) == thr = None \/ TasksPin \/ ByOwner

\* scheduleNoLock
Push(task) == m_fibers' = Append(m_fibers, task)

\* schedule(std::function<void()>, thread)
ScheduleCb(c, thr) ==
    /\ MaySchedule /\ MayPin(thr)
    /\ c \notin scheduled
    /\ Push(CbTask(c, thr))
    /\ scheduled' = scheduled \union {c}
    /\ UNCHANGED <<m_activeThreadCount, repeatable, fiberVars, bodyVars, loopVars,
                   idleVars, mainVars, pc>>

\* schedule(begin, end): a range of callbacks goes in under one lock.
ScheduleRange(c, d) ==
    /\ MaySchedule
    /\ c # d
    /\ {c, d} \intersect scheduled = {}
    /\ m_fibers' = m_fibers \o <<CbTask(c, None), CbTask(d, None)>>
    /\ scheduled' = scheduled \union {c, d}
    /\ UNCHANGED <<m_activeThreadCount, repeatable, fiberVars, bodyVars, loopVars,
                   idleVars, mainVars, pc>>

\* Fiber::Fiber(cb): a fresh context that starts in MainFunc.
Construct(f, c) ==
    /\ m_state[f] = "NEW"
    /\ m_state' = [m_state EXCEPT ![f] = "INIT"]
    /\ m_cb' = [m_cb EXCEPT ![f] = c]
    /\ saved' = [saved EXCEPT ![f] = TRUE]

\* schedule(Fiber::ptr(new Fiber(c)), thread)
ScheduleFiber(f, c, thr) ==
    /\ MaySchedule /\ MayPin(thr)
    /\ c \notin scheduled
    /\ Construct(f, c)
    /\ Push(FiberTask(f, thr))
    /\ scheduled' = scheduled \union {c}
    /\ repeatable' = IF MayRepeat THEN repeatable \union {f} ELSE repeatable
    /\ UNCHANGED <<m_activeThreadCount, armed, bodyVars, loopVars, idleVars,
                   mainVars, pc>>

\* schedule(f) for a fiber that exists: queued, executing, waiting or over.
ScheduleAgain(f) ==
    /\ MaySchedule
    /\ f \in repeatable
    /\ repeatable' = repeatable \ {f}
    /\ Push(FiberTask(f, None))
    /\ UNCHANGED <<m_activeThreadCount, scheduled, fiberVars, bodyVars,
                   loopVars, idleVars, mainVars, pc>>

-----------------------------------------------------------------------------
(* run(): choosing a task *)

Eligible(t, task) ==
    /\ task.thread \in {None, t}
    /\ task.fiber # None => m_state[task.fiber] # "EXEC"

\* The position run() stops its scan at.
IsFirst(t, i) ==
    /\ Eligible(t, m_fibers[i])
    /\ \A j \in 1..(i - 1) : ~ Eligible(t, m_fibers[j])

\* (mutant) ++m_activeThreadCount is forgotten.
TakeUncounted(t, i) ==
    /\ ft' = [ft EXCEPT ![t] = m_fibers[i]]
    /\ m_fibers' = RemoveAt(m_fibers, i)
    /\ UNCHANGED m_activeThreadCount

Take(t, i) ==
    /\ ft' = [ft EXCEPT ![t] = m_fibers[i]]
    /\ m_fibers' = RemoveAt(m_fibers, i)
    /\ m_activeThreadCount' = m_activeThreadCount + 1

\* The locked scan of m_fibers, when it finds a task.
Fetch(t) ==
    /\ pc[t] = "fetch"
    /\ \E i \in DOMAIN m_fibers : IsFirst(t, i) /\ Take(t, i)
    /\ Goto(t, "dispatch")
    /\ UNCHANGED <<scheduled, repeatable, fiberVars, bodyVars, cbFiber, running,
                   idleVars, mainVars>>

\* The locked scan, when nothing in the list is for this thread.
FetchNone(t) ==
    /\ pc[t] = "fetch"
    /\ \A i \in DOMAIN m_fibers : ~ Eligible(t, m_fibers[i])
    /\ ft' = [ft EXCEPT ![t] = NoTask]
    /\ Goto(t, "dispatch")
    /\ UNCHANGED <<taskVars, fiberVars, bodyVars, cbFiber, running, idleVars,
                   mainVars>>

-----------------------------------------------------------------------------
(* run(): entering the task.  Fiber::swapIn's assertion m_state != EXEC is   *)
(* not a guard here: FetchedFiberIsParked states it.                         *)

\* ft.fiber->swapIn()
DispatchFiber(t) ==
    LET f == ft[t].fiber IN
    /\ pc[t] = "dispatch"
    /\ f # None
    /\ m_state[f] \notin Over
    /\ m_state' = [m_state EXCEPT ![f] = "EXEC"]
    /\ saved' = [saved EXCEPT ![f] = FALSE]
    /\ running' = [running EXCEPT ![t] = f]
    /\ Goto(t, "exec")
    /\ UNCHANGED <<taskVars, m_cb, armed, bodyVars, ft, cbFiber, idleVars,
                   mainVars>>

\* The callback becomes the body of cb_fiber, an old one (Fiber::reset) or a
\* new one, and cb_fiber->swapIn() enters it.
CarrierFor(t, f) ==
    IF cbFiber[t] # None THEN f = cbFiber[t] ELSE m_state[f] = "NEW"

DispatchCb(t, f) ==
    /\ pc[t] = "dispatch"
    /\ ft[t].fiber = None
    /\ ft[t].cb # None
    /\ CarrierFor(t, f)
    /\ cbFiber' = [cbFiber EXCEPT ![t] = f]
    /\ m_cb' = [m_cb EXCEPT ![f] = ft[t].cb]
    /\ m_state' = [m_state EXCEPT ![f] = "EXEC"]
    /\ saved' = [saved EXCEPT ![f] = FALSE]
    /\ running' = [running EXCEPT ![t] = f]
    /\ ft' = [ft EXCEPT ![t] = NoTask]
    /\ Goto(t, "exec")
    /\ UNCHANGED <<taskVars, armed, bodyVars, idleVars, mainVars>>

\* (mutant) the continue without --m_activeThreadCount.
DispatchDroppedUncounted(t) ==
    /\ pc[t] = "dispatch"
    /\ ft[t].fiber # None
    /\ m_state[ft[t].fiber] \in Over
    /\ ft' = [ft EXCEPT ![t] = NoTask]
    /\ Goto(t, "fetch")
    /\ UNCHANGED <<taskVars, fiberVars, bodyVars, cbFiber, running, idleVars,
                   mainVars>>

\* The task is a fiber that is already over.
DispatchDropped(t) ==
    /\ pc[t] = "dispatch"
    /\ ft[t].fiber # None
    /\ m_state[ft[t].fiber] \in Over
    /\ m_activeThreadCount' = m_activeThreadCount - 1
    /\ ft' = [ft EXCEPT ![t] = NoTask]
    /\ Goto(t, "fetch")
    /\ UNCHANGED <<m_fibers, scheduled, repeatable, fiberVars, bodyVars, cbFiber,
                   running, idleVars, mainVars>>

\* No task and the idle fiber is over: run() returns.
DispatchExit(t) ==
    /\ pc[t] = "dispatch"
    /\ ft[t] = NoTask
    /\ idleTerm[t]
    /\ Goto(t, "exited")
    /\ UNCHANGED <<taskVars, fiberVars, bodyVars, loopVars, idleVars, mainVars>>

\* (mutant) ++m_idleThreadCount is forgotten.
DispatchIdleUncounted(t) ==
    /\ pc[t] = "dispatch"
    /\ ft[t] = NoTask
    /\ ~ idleTerm[t]
    /\ Goto(t, "idle")
    /\ UNCHANGED <<taskVars, fiberVars, bodyVars, loopVars, idleVars, mainVars>>

\* No task: idle_fiber->swapIn().
DispatchIdle(t) ==
    /\ pc[t] = "dispatch"
    /\ ft[t] = NoTask
    /\ ~ idleTerm[t]
    /\ m_idleThreadCount' = m_idleThreadCount + 1
    /\ Goto(t, "idle")
    /\ UNCHANGED <<taskVars, fiberVars, bodyVars, loopVars, idleTerm, mainVars>>

-----------------------------------------------------------------------------
(* The task's own steps *)

\* The fiber registers itself with an event or a timer (IOManager::addEvent,
\* addTimer) and goes on to YieldToHold.
Arm(t) ==
    LET f == running[t] IN
    /\ MayHold
    /\ pc[t] = "exec"
    /\ yields[m_cb[f]] < MaxYields
    /\ armed' = [armed EXCEPT ![f] = TRUE]
    /\ Goto(t, "armed")
    /\ UNCHANGED <<taskVars, m_state, m_cb, saved, bodyVars, loopVars,
                   idleVars, mainVars>>

\* The state is published; the context is saved only by the SwapOut step.
Yield(t, state) ==
    LET f == running[t] IN
    /\ m_state' = [m_state EXCEPT ![f] = state]
    /\ yields' = [yields EXCEPT ![m_cb[f]] = @ + 1]
    /\ Goto(t, "swap")
    /\ UNCHANGED <<taskVars, m_cb, saved, armed, ended, loopVars, idleVars,
                   mainVars>>

YieldToHold(t) == pc[t] = "armed" /\ Yield(t, "HOLD")

YieldToReady(t) ==
    /\ MayReady
    /\ pc[t] = "exec"
    /\ yields[m_cb[running[t]]] < MaxYields
    /\ Yield(t, "READY")

\* MainFunc after the callback has returned, or thrown.
Return(t) ==
    LET f == running[t] IN
    /\ pc[t] = "exec"
    /\ ended' = ended \union {m_cb[f]}
    /\ m_cb' = [m_cb EXCEPT ![f] = None]
    /\ m_state' = [m_state EXCEPT ![f] = "TERM"]
    /\ Goto(t, "swap")
    /\ UNCHANGED <<taskVars, saved, armed, yields, loopVars, idleVars, mainVars>>

\* (mutant) the catch clause forgets the state.
ThrowForgets(t) ==
    /\ pc[t] = "exec"
    /\ ended' = ended \union {m_cb[running[t]]}
    /\ Goto(t, "swap")
    /\ UNCHANGED <<taskVars, fiberVars, yields, loopVars, idleVars, mainVars>>

Throw(t) ==
    LET f == running[t] IN
    /\ pc[t] = "exec"
    /\ ended' = ended \union {m_cb[f]}
    /\ m_state' = [m_state EXCEPT ![f] = "EXCEPT"]
    /\ Goto(t, "swap")
    /\ UNCHANGED <<taskVars, m_cb, saved, armed, yields, loopVars, idleVars,
                   mainVars>>

\* Fiber::swapOut: swapcontext saves the fiber and resumes run().
SwapOut(t) ==
    /\ pc[t] = "swap"
    /\ saved' = [saved EXCEPT ![running[t]] = TRUE]
    /\ running' = [running EXCEPT ![t] = None]
    /\ Goto(t, "dec")
    /\ UNCHANGED <<taskVars, m_state, m_cb, armed, bodyVars, ft, cbFiber,
                   idleVars, mainVars>>

-----------------------------------------------------------------------------
(* run(): after the task has come back.  The same three outcomes for a fiber *)
(* task and for cb_fiber; they differ in what is kept in ft and cb_fiber.    *)

\* (mutant) --m_activeThreadCount is forgotten.
DecForgotten(t) ==
    /\ pc[t] = "dec"
    /\ Goto(t, "settle")
    /\ UNCHANGED <<taskVars, fiberVars, bodyVars, loopVars, idleVars, mainVars>>

\* --m_activeThreadCount
Dec(t) ==
    /\ pc[t] = "dec"
    /\ m_activeThreadCount' = m_activeThreadCount - 1
    /\ Goto(t, "settle")
    /\ UNCHANGED <<m_fibers, scheduled, repeatable, fiberVars, bodyVars, loopVars,
                   idleVars, mainVars>>

\* The task is over.  A fiber task is dropped; cb_fiber is reset(nullptr) and
\* kept for the next callback.
SettleOver(t) ==
    LET f == Cur(t) IN
    /\ pc[t] = "settle"
    /\ m_state[f] \in Over
    /\ IF ft[t].fiber # None
         THEN UNCHANGED <<m_state, m_cb>>
         ELSE /\ m_state' = [m_state EXCEPT ![f] = "INIT"]
              /\ m_cb' = [m_cb EXCEPT ![f] = None]
    /\ ft' = [ft EXCEPT ![t] = NoTask]
    /\ Goto(t, "fetch")
    /\ UNCHANGED <<taskVars, saved, armed, bodyVars, cbFiber, running, idleVars,
                   mainVars>>

\* (mutant) a fiber that only gave way is parked like one that waits.
SettleParked(t) ==
    /\ pc[t] = "settle"
    /\ m_state[Cur(t)] \notin Over
    /\ Goto(t, "hold")
    /\ UNCHANGED <<taskVars, fiberVars, bodyVars, loopVars, idleVars, mainVars>>

\* The state run() reads decides between schedule() and the write of HOLD.
SettleWaiting(t) ==
    /\ pc[t] = "settle"
    /\ m_state[Cur(t)] \notin Over
    /\ Goto(t, IF m_state[Cur(t)] = "READY" THEN "requeue" ELSE "hold")
    /\ UNCHANGED <<taskVars, fiberVars, bodyVars, loopVars, idleVars, mainVars>>

\* (mutant) cb_fiber.reset() is forgotten.
LetGoKeepsCb(t) ==
    /\ UNCHANGED cbFiber
    /\ ft' = [ft EXCEPT ![t] = NoTask]
    /\ Goto(t, "fetch")

\* run() lets go of the fiber: ft.reset(), and cb_fiber.reset() if it ran there.
LetGo(t) ==
    /\ cbFiber' = [cbFiber EXCEPT ![t] =
                     IF ft[t].fiber # None THEN cbFiber[t] ELSE None]
    /\ ft' = [ft EXCEPT ![t] = NoTask]
    /\ Goto(t, "fetch")

\* (mutant) the call of schedule() is forgotten.
RequeueForgets(t) ==
    /\ pc[t] = "requeue"
    /\ LetGo(t)
    /\ UNCHANGED <<taskVars, fiberVars, bodyVars, running, idleVars, mainVars>>

\* schedule(fiber): to any thread, whatever the task was pinned to before.
Requeue(t) ==
    /\ pc[t] = "requeue"
    /\ Push(FiberTask(Cur(t), None))
    /\ LetGo(t)
    /\ UNCHANGED <<m_activeThreadCount, scheduled, repeatable, fiberVars, bodyVars,
                   running, idleVars, mainVars>>

\* m_state = HOLD, again, without a lock.
Hold(t) ==
    /\ pc[t] = "hold"
    /\ m_state' = [m_state EXCEPT ![Cur(t)] = "HOLD"]
    /\ LetGo(t)
    /\ UNCHANGED <<taskVars, m_cb, saved, armed, bodyVars, running, idleVars,
                   mainVars>>

-----------------------------------------------------------------------------
(* The idle fiber, and stopping() *)

\* Scheduler::stopping, under m_mutex.
Stopping ==
    m_autoStop /\ m_stopping /\ m_fibers = <<>> /\ m_activeThreadCount = 0

\* (mutant) the base class's stopping(), which knows of no events.
PendingIgnored == TRUE

\* IOManager::stopping reads the pending events and timers first, unlocked.
NothingPending == \A f \in Fibers : ~ armed[f]

\* The first half of while(!stopping()).
IdlePending(t) ==
    /\ pc[t] = "idle"
    /\ Goto(t, IF NothingPending THEN "idleStop" ELSE "idleRet")
    /\ UNCHANGED <<taskVars, fiberVars, bodyVars, loopVars, idleVars, mainVars>>

\* The second half: the idle function returns (TERM) or yields.
IdleStopping(t) ==
    /\ pc[t] = "idleStop"
    /\ idleTerm' = [idleTerm EXCEPT ![t] = Stopping]
    /\ Goto(t, "idleRet")
    /\ UNCHANGED <<taskVars, fiberVars, bodyVars, loopVars, m_idleThreadCount,
                   mainVars>>

IdleRet(t) ==
    /\ pc[t] = "idleRet"
    /\ m_idleThreadCount' = m_idleThreadCount - 1
    /\ Goto(t, "fetch")
    /\ UNCHANGED <<taskVars, fiberVars, bodyVars, loopVars, idleTerm, mainVars>>

\* (mutant) the registration survives its event.
WakeKeepsArmed(t, f) ==
    /\ pc[t] = "exec" \/ (pc[t] = "idleRet" /\ ~ idleTerm[t])
    /\ armed[f]
    /\ WakeParkedOnly => \A u \in Threads : Cur(u) # f
    /\ Len(m_fibers) < 3
    /\ Push(FiberTask(f, None))
    /\ UNCHANGED <<m_activeThreadCount, scheduled, repeatable, fiberVars,
                   bodyVars, loopVars, idleVars, mainVars, pc>>

\* Somebody else's event: an idle thread that has collected it, or a task that
\* cancels it, schedules the waiting fiber (IOManager's triggerEvent).
Wake(t, f) ==
    /\ pc[t] = "exec" \/ (pc[t] = "idleRet" /\ ~ idleTerm[t])
    /\ armed[f]
    /\ WakeParkedOnly => \A u \in Threads : Cur(u) # f
    /\ Push(FiberTask(f, None))
    /\ armed' = [armed EXCEPT ![f] = FALSE]
    /\ UNCHANGED <<m_activeThreadCount, scheduled, repeatable, m_state, m_cb, saved,
                   bodyVars, loopVars, idleVars, mainVars, pc>>

-----------------------------------------------------------------------------
(* start() and stop(), called by the owner *)

Start ==
    /\ mainPc = "new"
    /\ m_stopping' = FALSE
    /\ pc' = [t \in Threads |-> IF t \in Workers THEN "fetch" ELSE pc[t]]
    /\ mainPc' = "up"
    /\ UNCHANGED <<taskVars, fiberVars, bodyVars, loopVars, idleVars, m_autoStop>>

\* Both flags are raised before anything else is looked at.
Stop ==
    /\ mainPc = "up"
    /\ m_autoStop' = TRUE
    /\ m_stopping' = TRUE
    /\ mainPc' = IF UseCaller THEN "check" ELSE "join"
    /\ UNCHANGED <<taskVars, fiberVars, bodyVars, loopVars, idleVars, pc>>

CallRoot == Goto(Caller, "fetch") /\ mainPc' = "called"

\* if(!stopping()) m_rootFiber->call().  With no workers stop() asks twice
\* (86 and 120), with nobody to change the answer in between.
StopPending ==
    /\ mainPc = "check"
    /\ IF NothingPending THEN mainPc' = "checkLock" /\ UNCHANGED pc
                         ELSE CallRoot
    /\ UNCHANGED <<taskVars, fiberVars, bodyVars, loopVars, idleVars,
                   m_stopping, m_autoStop>>

StopLocked ==
    /\ mainPc = "checkLock"
    /\ IF Stopping THEN mainPc' = "join" /\ UNCHANGED pc ELSE CallRoot
    /\ UNCHANGED <<taskVars, fiberVars, bodyVars, loopVars, idleVars,
                   m_stopping, m_autoStop>>

\* run() has returned on the root fiber (CallerMainFunc, back()).
RootBack ==
    /\ mainPc = "called"
    /\ pc[Caller] = "exited"
    /\ mainPc' = "join"
    /\ UNCHANGED <<taskVars, fiberVars, bodyVars, loopVars, idleVars,
                   m_stopping, m_autoStop, pc>>

Join ==
    /\ mainPc = "join"
    /\ \A t \in Workers : pc[t] = "exited"
    /\ mainPc' = "done"
    /\ UNCHANGED <<taskVars, fiberVars, bodyVars, loopVars, idleVars,
                   m_stopping, m_autoStop, pc>>

\* stop() has returned.
Terminated == mainPc = "done" /\ UNCHANGED vars

-----------------------------------------------------------------------------
Schedules ==
    \/ \E c \in Cbs, thr \in Pins : ScheduleCb(c, thr)
    \/ \E c, d \in Cbs : ScheduleRange(c, d)
    \/ \E f \in Fibers, c \in Cbs, thr \in Pins : ScheduleFiber(f, c, thr)
    \/ \E f \in Fibers : ScheduleAgain(f)

Choose(t) == Fetch(t) \/ FetchNone(t)

Dispatch(t) ==
    \/ DispatchFiber(t)
    \/ \E f \in Fibers : DispatchCb(t, f)
    \/ DispatchDropped(t)
    \/ DispatchExit(t)
    \/ DispatchIdle(t)

Body(t) == Arm(t) \/ YieldToHold(t) \/ YieldToReady(t) \/ Return(t) \/ Throw(t)

After(t) == SwapOut(t) \/ Dec(t) \/ SettleOver(t) \/ SettleWaiting(t)
            \/ Requeue(t) \/ Hold(t)

Idle(t) == IdlePending(t) \/ IdleStopping(t) \/ IdleRet(t)

ThreadStep(t) == Choose(t) \/ Dispatch(t) \/ Body(t) \/ After(t) \/ Idle(t)

StopCall == StopPending \/ StopLocked \/ RootBack \/ Join

Main == Start \/ Stop \/ StopCall

Next ==
    \/ Schedules
    \/ \E t \in Threads : ThreadStep(t)
    \/ \E t \in Threads, f \in Fibers : Wake(t, f)
    \/ Main
    \/ Terminated

\* The operating system runs every thread; tasks are finite (MaxYields); an
\* event somebody waits for happens, and an idle thread that keeps looking
\* collects it.  The owner goes on inside start() and stop(), but need never
\* call stop().
Fairness ==
    /\ \A t \in Threads : WF_vars(ThreadStep(t))
    /\ \A f \in Fibers : SF_vars(\E t \in Threads : Wake(t, f))
    /\ WF_vars(Start) /\ WF_vars(StopCall)

Spec == Init /\ [][Next]_vars
FairSpec == Spec /\ Fairness

-----------------------------------------------------------------------------
(* Properties *)

\* The variables keep their types; the counters are size_t and never wrap.
TypeOK ==
    /\ m_fibers \in Seq(Task)
    /\ m_activeThreadCount \in Nat
    /\ m_idleThreadCount \in Nat
    /\ m_stopping \in BOOLEAN
    /\ m_autoStop \in BOOLEAN
    /\ m_state \in [Fibers -> State]
    /\ m_cb \in [Fibers -> Cbs \union {None}]
    /\ saved \in [Fibers -> BOOLEAN]
    /\ armed \in [Fibers -> BOOLEAN]
    /\ pc \in [Threads -> Labels]
    /\ ft \in [Threads -> FiberAndThread]
    /\ cbFiber \in [Threads -> Fibers \union {None}]
    /\ idleTerm \in [Threads -> BOOLEAN]
    /\ running \in [Threads -> Fibers \union {None}]
    /\ mainPc \in MainLabels
    /\ scheduled \in SUBSET Cbs
    /\ repeatable \in SUBSET Fibers
    /\ ended \in SUBSET (Cbs \union {None})
    /\ yields \in [Cbs -> Nat]

\* Thread t is between the ++ and the -- of m_activeThreadCount.
Holding(t) ==
    \/ pc[t] \in {"exec", "armed", "swap", "dec"}
    \/ pc[t] = "dispatch" /\ ft[t] # NoTask

\* m_activeThreadCount, which stopping() trusts, is exactly the number of
\* threads that hold a task: every path of run() gives back what it took.
ActiveExact ==
    m_activeThreadCount = Cardinality({t \in Threads : Holding(t)})

\* Likewise m_idleThreadCount, which IOManager::tickle trusts, is exactly the
\* number of threads inside their idle fiber.
Idling(t) == pc[t] \in {"idle", "idleStop", "idleRet"}

IdleExact == m_idleThreadCount = Cardinality({t \in Threads : Idling(t)})

\* Two threads never execute the code of one fiber (on one stack).
OneThreadPerFiber ==
    \A t, u \in Threads :
        t # u /\ running[t] # None => running[t] # running[u]

\* A fiber that run() has taken from the list is not being executed by anybody
\* and its context is complete: the comment in run() ("not in the executing
\* state") and the assertion m_state != EXEC in Fiber::swapIn.
FetchedFiberIsParked ==
    \A t \in Threads :
        pc[t] = "dispatch" /\ ft[t].fiber # None =>
            m_state[ft[t].fiber] # "EXEC" /\ saved[ft[t].fiber]

\* The assertion m_state == EXEC at the start of YieldToHold and YieldToReady:
\* nobody changes the state of a fiber that is executing.
RunningIsExec ==
    \A t \in Threads :
        pc[t] \in {"exec", "armed"} => m_state[running[t]] = "EXEC"

\* The assertion in Fiber::reset, for both calls in run(): a cb_fiber that is
\* kept is always one that has finished, never one that still waits.
CbFiberResettable ==
    \A t \in Threads :
        pc[t] \in {"fetch", "dispatch", "idle"} /\ cbFiber[t] # None =>
            m_state[cbFiber[t]] \in Over \union {"INIT"}

\* The assertions of fiber.cc and the reuse of cb_fiber together, which a state
\* written by the wrong thread at the wrong moment would break.
StateAssertions == RunningIsExec /\ CbFiberResettable

\* The assertion of ~Fiber (fiber.cc:98), for the fibers ~IOManager destroys after
\* stop(): each is over, has not begun, or was never created.
FibersDestroyable ==
    mainPc = "done" => \A f \in Fibers : m_state[f] \in Over \union {"NEW", "INIT"}

\* When stop() has returned no task is left behind: the list is empty, every
\* callback ever scheduled has ended, and every fiber may be destroyed.  It
\* holds for one thread; of several, OnlyWaitersLeft says what holds.
NoTaskStranded ==
    /\ mainPc = "done" => m_fibers = <<>> /\ scheduled = ended
    /\ FibersDestroyable

\* When stop() has returned on several threads, a callback that has not ended has
\* begun and waits: one that is queued, or gave way, is never left, although it is
\* for a moment neither counted nor in the list.
OnlyWaitersLeft ==
    mainPc = "done" =>
        \A c \in scheduled \ ended : \E f \in Fibers : m_cb[f] = c /\ m_state[f] = "HOLD"

\* A callback comes to its end at most once, and only if it was scheduled, also
\* when its fiber is scheduled again while it waits, runs or is over.
EndedOnce ==
    [][\A t \in Threads :
          LET f == running[t] IN
          pc[t] = "exec" /\ pc'[t] = "swap" /\ m_state'[f] \in Over =>
              m_cb[f] \in scheduled \ ended]_vars

\* stop() returns: everybody's waiting in stop(), join() and the idle loop
\* comes to an end.
StopTerminates == (mainPc = "check" \/ mainPc = "join") ~> (mainPc = "done")

\* Every callback handed to schedule() is run to its end.
EveryTaskRuns == \A c \in Cbs : (c \in scheduled) ~> (c \in ended)

-----------------------------------------------------------------------------
(* The inductive invariant behind the safety properties.  InTask are the     *)
(* labels between entering a task and letting go of it.                      *)

OnStack == {"exec", "armed", "swap"}
InTask  == OnStack \union {"dec", "settle", "requeue", "hold"}

\* run() refers to fiber f through one of its two locals.
Refers(t, f) == ft[t].fiber = f \/ cbFiber[t] = f
Unreferred(f) == \A t \in Threads : ~ Refers(t, f)

\* The threads have not been started before start() and the root fiber has not
\* been called before stop() has asked stopping().
MainOrder ==
    /\ mainPc = "new" => \A t \in Threads : pc[t] = "off"
    /\ mainPc \in {"up", "check", "checkLock"} /\ Caller \in Threads =>
          pc[Caller] = "off"

\* A thread executes the fiber its locals name, from swapIn to swapOut.
RunsCur ==
    \A t \in Threads :
        /\ pc[t] \in OnStack => running[t] = Cur(t)
        /\ pc[t] \notin OnStack => running[t] = None
        /\ pc[t] \in InTask => Cur(t) # None
        /\ pc[t] \notin InTask \union {"dispatch"} => ft[t].fiber = None

\* What a fiber may be when it waits in the list or in ft to be entered.
Enterable(f) ==
    m_state[f] \in {"INIT", "HOLD", "READY"} /\ saved[f] /\ ~ armed[f]

\* The fibers that may be in the list.
Free == {f \in Fibers : Enterable(f) /\ Unreferred(f)}

\* A fiber is in the list once, and then nobody else has it.
QueueExclusive ==
    \A i \in DOMAIN m_fibers :
        m_fibers[i].fiber # None =>
            /\ m_fibers[i].fiber \in Free
            /\ \A j \in DOMAIN m_fibers :
                  m_fibers[j].fiber = m_fibers[i].fiber => i = j

\* At most one local of one thread refers to a fiber.
HeldOnce ==
    \A t \in Threads, f \in Fibers :
        Refers(t, f) =>
            /\ ~ (ft[t].fiber = f /\ cbFiber[t] = f)
            /\ \A u \in Threads \ {t} : ~ Refers(u, f)

\* What the fiber of a thread looks like at each label of run().
LabelState ==
    \A t \in Threads :
        LET f == Cur(t) IN
        /\ pc[t] \in {"exec", "armed"} => m_state[f] = "EXEC"
        /\ pc[t] = "exec" => ~ armed[f]
        /\ pc[t] \in {"swap", "dec", "settle"} =>
              /\ m_state[f] \in {"READY", "HOLD"} \union Over
              /\ armed[f] => m_state[f] = "HOLD"
        /\ pc[t] \in {"dec", "settle", "requeue", "hold"} => saved[f]
        /\ pc[t] = "requeue" => m_state[f] = "READY" /\ ~ armed[f]
        /\ pc[t] = "hold" => m_state[f] = "HOLD"
        /\ pc[t] = "dispatch" /\ ft[t].fiber # None => Enterable(ft[t].fiber)

\* A cb_fiber that is not in use has been reset.
SpareReset ==
    \A t \in Threads :
        cbFiber[t] # None /\ (pc[t] \notin InTask \/ ft[t].fiber # None) =>
            m_state[cbFiber[t]] = "INIT" /\ saved[cbFiber[t]] /\ ~ armed[cbFiber[t]]

\* A fiber nobody has either does not exist yet, or is parked when armed.
LooseFibers ==
    \A f \in Fibers :
        /\ m_state[f] = "NEW" => Unreferred(f) /\ ~ armed[f]
        /\ armed[f] /\ Unreferred(f) => m_state[f] = "HOLD" /\ saved[f]

\* One owner per fiber at every moment: inductive when fibers are woken only
\* once parked and are not scheduled twice.
Exclusive ==
    /\ RunsCur
    /\ QueueExclusive
    /\ HeldOnce
    /\ LabelState
    /\ SpareReset
    /\ LooseFibers
    /\ repeatable = {}
=============================================================================
