--------------------------------- MODULE WakeUps ---------------------------------
(***************************************************************************)
(* How the threads of an IOManager fall asleep and are woken: the scan of  *)
(* the task list (Scheduler::run), the counter of idle threads, tickle()   *)
(* with its pipe, and epoll_wait in IOManager::idle.  Scheduler has the    *)
(* states of fibers and FdEvents the descriptors; here a task is run in    *)
(* one step, and every access to the list, the counters and the pipe is a  *)
(* step of its own.                                                        *)
(***************************************************************************)
EXTENDS Integers, FiniteSets

CONSTANTS
    Tasks,      \* tasks that callers hand in
    Threads,    \* the threads of the pool
    Callers,    \* threads outside the pool that call schedule() and stop()
    Pin,        \* the thread each task is for, or None (-1 in the code)
    None

ASSUME PinAssumption == Pin \in [Tasks -> Threads \union {None}]
ASSUME NoneAssumption == None \notin Threads \union Tasks
ASSUME ThreadsAssumption == IsFiniteSet(Threads) /\ Threads # {}

VARIABLES
    m_fibers,             \* the tasks in the list
    m_activeThreadCount,
    m_idleThreadCount,
    m_stopping,           \* m_stopping and m_autoStop, which stop() sets together
    pipe,                 \* there are bytes in the pipe
    edge,                 \* epoll has the pipe in its ready list
    pc,                   \* where each thread is
    ft,                   \* the task it took
    term,                 \* its idle fiber is TERM
    tickles,              \* tickle() calls a caller still has to make
    writing,              \* it has seen an idle thread and is about to write
    done                  \* tasks that are over

vars == <<m_fibers, m_activeThreadCount, m_idleThreadCount, m_stopping, pipe, edge,
          pc, ft, term, tickles, writing, done>>

\* scan: the lock of run(); fetched/skipped: tickle() after it; writeF/writeS/
\* writeE: the write in tickle(); run; enter: ++m_idleThreadCount; check:
\* stopping(); wait: epoll_wait; drain: the read loop; leave: --m_idleThreadCount;
\* last: tickle() before break.
Labels == {"scan", "fetched", "writeF", "skipped", "writeS", "run", "enter", "check",
           "wait", "drain", "leave", "last", "writeE", "exit"}

Init ==
    /\ m_fibers = {}
    /\ m_activeThreadCount = 0
    /\ m_idleThreadCount = 0
    /\ m_stopping = FALSE
    /\ pipe = FALSE /\ edge = FALSE
    /\ pc = [th \in Threads |-> "scan"]
    /\ ft = [th \in Threads |-> None]
    /\ term = [th \in Threads |-> FALSE]
    /\ tickles = [c \in Callers |-> 0]
    /\ writing = [c \in Callers |-> FALSE]
    /\ done = {}

Goto(th, label) == pc' = [pc EXCEPT ![th] = label]

counters == <<m_activeThreadCount, m_idleThreadCount>>
callerVars == <<tickles, writing>>
pipeVars == <<pipe, edge>>
taskVars == <<m_fibers, ft, done>>

-----------------------------------------------------------------------------
(* Callers *)

Known == m_fibers \union done \union {ft[th] : th \in Threads}

\* schedule(): push under the lock; the first task of an empty list is tickled
\* for.  Tasks are handed in before stop().
Schedule(c, k) ==
    /\ tickles[c] = 0 /\ ~ m_stopping
    /\ k \notin Known
    /\ m_fibers' = m_fibers \union {k}
    /\ tickles' = [tickles EXCEPT ![c] = IF m_fibers = {} THEN 1 ELSE 0]
    /\ UNCHANGED <<counters, m_stopping, pipeVars, pc, ft, term, writing, done>>

\* stop(): the flags, then a tickle() for every thread; the join is over when
\* all of them have left run().
Stop(c) ==
    /\ tickles[c] = 0 /\ ~ m_stopping
    /\ m_stopping' = TRUE
    /\ tickles' = [tickles EXCEPT ![c] = Cardinality(Threads)]
    /\ UNCHANGED <<taskVars, counters, pipeVars, pc, term, writing>>

\* IOManager::tickle(): nothing unless there are idle threads, ...
CallerTickle(c) ==
    /\ tickles[c] > 0 /\ ~ writing[c]
    /\ IF m_idleThreadCount > 0
       THEN writing' = [writing EXCEPT ![c] = TRUE] /\ UNCHANGED tickles
       ELSE tickles' = [tickles EXCEPT ![c] = @ - 1] /\ UNCHANGED writing
    /\ UNCHANGED <<taskVars, counters, m_stopping, pipeVars, pc, term>>

\* ... else a byte, and a new edge for epoll.
CallerWrite(c) ==
    /\ writing[c]
    /\ pipe' = TRUE /\ edge' = TRUE
    /\ writing' = [writing EXCEPT ![c] = FALSE]
    /\ tickles' = [tickles EXCEPT ![c] = @ - 1]
    /\ UNCHANGED <<taskVars, counters, m_stopping, pc, term>>

CallerStep(c) == CallerTickle(c) \/ CallerWrite(c)

-----------------------------------------------------------------------------
(* Threads: run() *)

\* (mutant) a task for another thread is taken all the same.
EligibleAny(th, k) == TRUE

Eligible(th, k) == Pin[k] \in {None, th}

\* The scan takes a task this thread may run; which one of several is left open.
Fetch(th) ==
    /\ pc[th] = "scan"
    /\ \E k \in m_fibers :
          /\ Eligible(th, k)
          /\ m_fibers' = m_fibers \ {k}
          /\ ft' = [ft EXCEPT ![th] = k]
    /\ m_activeThreadCount' = m_activeThreadCount + 1
    /\ Goto(th, "fetched")
    /\ UNCHANGED <<m_idleThreadCount, m_stopping, pipeVars, term, callerVars, done>>

\* What follows a scan that took nothing: break, or the idle fiber.
Idle(th) == IF term[th] THEN "last" ELSE "enter"

\* The scan finds nothing for this thread; tasks for others were skipped.
FetchNone(th) ==
    /\ pc[th] = "scan"
    /\ \A k \in m_fibers : ~ Eligible(th, k)
    /\ Goto(th, IF m_fibers # {} THEN "skipped" ELSE Idle(th))
    /\ UNCHANGED <<taskVars, counters, m_stopping, pipeVars, term, callerVars>>

\* if(tickle_me) tickle(), and the tickle() before break.
After(th) == CASE pc[th] \in {"fetched", "writeF"} -> "run"
               [] pc[th] \in {"skipped", "writeS"} -> Idle(th)
               [] OTHER -> "exit"

Tickle(th) ==
    /\ pc[th] \in {"fetched", "skipped", "last"}
    /\ Goto(th, IF m_idleThreadCount = 0 THEN After(th)
                ELSE CASE pc[th] = "fetched" -> "writeF"
                       [] pc[th] = "skipped" -> "writeS"
                       [] OTHER -> "writeE")
    /\ UNCHANGED <<taskVars, counters, m_stopping, pipeVars, term, callerVars>>

Write(th) ==
    /\ pc[th] \in {"writeF", "writeS", "writeE"}
    /\ pipe' = TRUE /\ edge' = TRUE
    /\ Goto(th, After(th))
    /\ UNCHANGED <<taskVars, counters, m_stopping, term, callerVars>>

\* (mutant) one path forgets the counter.
DecForgotten == UNCHANGED m_activeThreadCount

Dec == m_activeThreadCount' = m_activeThreadCount - 1

\* The task is run to its end.
Run(th) ==
    /\ pc[th] = "run"
    /\ done' = done \union {ft[th]}
    /\ ft' = [ft EXCEPT ![th] = None]
    /\ Dec
    /\ Goto(th, "scan")
    /\ UNCHANGED <<m_fibers, m_idleThreadCount, m_stopping, pipeVars, term, callerVars>>

Inc == m_idleThreadCount' = m_idleThreadCount + 1

Enter(th) ==
    /\ pc[th] = "enter"
    /\ Inc
    /\ Goto(th, "check")
    /\ UNCHANGED <<taskVars, m_activeThreadCount, m_stopping, pipeVars, term, callerVars>>

-----------------------------------------------------------------------------
(* Threads: IOManager::idle() *)

\* Scheduler::stopping(); there are no timers and no pending events here.
Stopping == m_stopping /\ m_fibers = {} /\ m_activeThreadCount = 0

Check(th) ==
    /\ pc[th] = "check"
    /\ term' = [term EXCEPT ![th] = Stopping]
    /\ Goto(th, IF Stopping THEN "leave" ELSE "wait")
    /\ UNCHANGED <<taskVars, counters, m_stopping, pipeVars, callerVars>>

\* epoll_wait hands an edge to one of the threads, if there is still something
\* to read ...
Report(th) ==
    /\ pc[th] = "wait" /\ edge
    /\ edge' = FALSE
    /\ Goto(th, IF pipe THEN "drain" ELSE "wait")
    /\ UNCHANGED <<taskVars, counters, m_stopping, pipe, term, callerVars>>

\* (mutant) epoll_wait without a timeout.
NoTimeout(th) == FALSE /\ UNCHANGED vars

\* ... or returns after at most MAX_TIMEOUT.
Timeout(th) ==
    /\ pc[th] = "wait"
    /\ Goto(th, "leave")
    /\ UNCHANGED <<taskVars, counters, m_stopping, pipeVars, term, callerVars>>

\* while(read(m_tickleFds[0], &dummy, 1) == 1);
Drain(th) ==
    /\ pc[th] = "drain"
    /\ pipe' = FALSE
    /\ Goto(th, "leave")
    /\ UNCHANGED <<taskVars, counters, m_stopping, edge, term, callerVars>>

\* swapOut() of the idle fiber, or its end.
Leave(th) ==
    /\ pc[th] = "leave"
    /\ m_idleThreadCount' = m_idleThreadCount - 1
    /\ Goto(th, "scan")
    /\ UNCHANGED <<taskVars, m_activeThreadCount, m_stopping, pipeVars, term, callerVars>>

ThreadStep(th) ==
    \/ Fetch(th) \/ FetchNone(th) \/ Tickle(th) \/ Write(th) \/ Run(th)
    \/ Enter(th) \/ Check(th) \/ Timeout(th) \/ Drain(th) \/ Leave(th)

Joined == \A th \in Threads : pc[th] = "exit"

Finished == Joined /\ (\A c \in Callers : tickles[c] = 0) /\ UNCHANGED vars

Next ==
    \/ \E c \in Callers : CallerStep(c) \/ Stop(c) \/ \E k \in Tasks : Schedule(c, k)
    \/ \E th \in Threads : ThreadStep(th) \/ Report(th)
    \/ Finished

Spec == Init /\ [][Next]_vars

\* The threads and callers run; epoll_wait returns because of its timeout.
\* Whether and to whom a report comes earlier is left open.
FairSpec ==
    /\ Spec
    /\ \A th \in Threads : WF_vars(ThreadStep(th))
    /\ \A c \in Callers : WF_vars(CallerStep(c))

-----------------------------------------------------------------------------
(* Properties *)

TypeOK ==
    /\ m_fibers \in SUBSET Tasks
    /\ m_activeThreadCount \in Nat
    /\ m_idleThreadCount \in Nat
    /\ m_stopping \in BOOLEAN
    /\ pipe \in BOOLEAN /\ edge \in BOOLEAN
    /\ pc \in [Threads -> Labels]
    /\ ft \in [Threads -> Tasks \union {None}]
    /\ term \in [Threads -> BOOLEAN]
    /\ tickles \in [Callers -> Nat]
    /\ writing \in [Callers -> BOOLEAN]
    /\ done \in SUBSET Tasks

\* Which threads work on a task, as the pool sees it.
Runner == [k \in {ft[th] : th \in Threads} \ {None} |->
              CHOOSE th \in Threads : ft[th] = k]

MayRun(k, th) == Pin[k] \in {None, th}

Pool == INSTANCE TaskPool WITH
           waiting <- m_fibers, runner <- Runner, finished <- done, over <- Joined

\* The threads, with all their counters and wake-ups, do what a pool promises:
\* every task is started once, by a thread it may run on, and stop() does not
\* return before all of them are over.
ImplementsPool == Pool!PoolSpec

\* A task that was handed in is run, although the wake-up for it may be lost
\* (a thread is counted as idle only after its scan, and whoever drains the pipe
\* need not be the thread the task is for).
EveryTaskRuns == \A k \in Tasks : k \in m_fibers ~> k \in done

\* stop() returns: every thread notices, also those whose tickle was lost.
StopReturns == m_stopping ~> Joined
================================================================================
