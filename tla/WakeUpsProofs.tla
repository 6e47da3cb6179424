------------------------------ MODULE WakeUpsProofs ------------------------------
(***************************************************************************)
(* WakeUps implements TaskPool, for any number of threads, callers and     *)
(* tasks and any pins.                                                     *)
(***************************************************************************)
EXTENDS WakeUps, FiniteSetTheorems, TLAPS

\* The part of TypeOK that is inductive by itself.
Types ==
    /\ m_fibers \in SUBSET Tasks
    /\ m_activeThreadCount \in Int
    /\ m_stopping \in BOOLEAN
    /\ pc \in [Threads -> Labels]
    /\ ft \in [Threads -> Tasks \union {None}]
    /\ term \in [Threads -> BOOLEAN]
    /\ done \in SUBSET Tasks

\* Where a thread has a task.
HasTask == {"fetched", "writeF", "run"}

\* The threads that have one.
Busy == {th \in Threads : ft[th] # None}

\* A thread has a task exactly between the scan that took it and its end.
TaskPlaces == \A th \in Threads : ft[th] # None <=> pc[th] \in HasTask

\* A task is in the list, or taken by one thread, or over.
OnePlace ==
    /\ m_fibers \cap done = {}
    /\ \A th \in Threads : ft[th] \notin m_fibers \union done
    /\ \A a, b \in Threads : ft[a] = ft[b] /\ ft[a] # None => a = b

\* m_activeThreadCount is the number of threads with a task.
ActiveExact == m_activeThreadCount = Cardinality(Busy)

\* A thread on its way out has seen its idle fiber end, and an idle fiber ends
\* only when stop() was called and there is nothing left, in the list or with a
\* thread.
LeavesLast ==
    \A th \in Threads :
       /\ pc[th] \in {"last", "writeE", "exit"} => term[th]
       /\ term[th] => m_stopping /\ m_fibers = {} /\ Busy = {}

IInv == Types /\ TaskPlaces /\ OnePlace /\ ActiveExact /\ LeavesLast

-----------------------------------------------------------------------------
\* The set of threads with a task is finite.
LEMMA BusyFinite == IsFiniteSet(Busy)
  BY ThreadsAssumption, FS_Subset DEF Busy

\* Nothing is known of anything when the scheduler is made.
LEMMA InvInit == Init => IInv
<1> SUFFICES ASSUME Init PROVE IInv
    OBVIOUS
<1>1. Types
  <2>1. m_stopping \in BOOLEAN /\ term \in [Threads -> BOOLEAN]
    BY Zenon DEF Init
  <2> QED BY <2>1 DEF Init, Types, Labels
<1>2. TaskPlaces
  BY DEF Init, TaskPlaces, HasTask
<1>3. OnePlace
  BY DEF Init, OnePlace
<1>4. Busy = {}
  BY DEF Init, Busy
<1>5. ActiveExact
  BY <1>4, FS_EmptySet DEF Init, ActiveExact
<1>6. LeavesLast
  BY DEF Init, LeavesLast
<1> QED BY <1>1, <1>2, <1>3, <1>5, <1>6 DEF IInv

-----------------------------------------------------------------------------
\* Steps of callers and wake-ups leave tasks, the counter and the decision to
\* leave alone: only the position of a thread may change, within the same
\* phase.
Aside ==
    \/ \E c \in Callers : CallerStep(c)
    \/ \E th \in Threads : \/ Tickle(th) \/ Write(th) \/ Enter(th) \/ Report(th)
                           \/ Timeout(th) \/ Drain(th) \/ Leave(th) \/ FetchNone(th)
    \/ UNCHANGED vars

LEMMA AsideStep ==
    ASSUME IInv, Aside
    PROVE  /\ UNCHANGED <<m_fibers, m_activeThreadCount, m_stopping, ft, term, done>>
           /\ pc' \in [Threads -> Labels]
           /\ \A th \in Threads :
                /\ pc'[th] \in HasTask <=> pc[th] \in HasTask
                /\ pc'[th] \in {"last", "writeE", "exit"} => term[th]
<1> USE DEF IInv, Types, TaskPlaces, LeavesLast, Labels, HasTask, taskVars, counters,
            pipeVars, callerVars
<1>1. ASSUME NEW c \in Callers, CallerStep(c)
      PROVE  UNCHANGED <<m_fibers, m_activeThreadCount, m_stopping, ft, term, done, pc>>
  BY <1>1 DEF CallerStep, CallerTickle, CallerWrite
<1>2. ASSUME NEW th \in Threads, Tickle(th) \/ Write(th)
      PROVE  /\ UNCHANGED <<m_fibers, m_activeThreadCount, m_stopping, ft, term, done>>
             /\ \E l \in Labels :
                  /\ pc' = [pc EXCEPT ![th] = l]
                  /\ l \in HasTask <=> pc[th] \in HasTask
                  /\ l \in {"last", "writeE", "exit"} => term[th]
  BY <1>2 DEF Tickle, Write, After, Idle, Goto
<1>3. ASSUME NEW th \in Threads,
             Enter(th) \/ Report(th) \/ Timeout(th) \/ Drain(th) \/ Leave(th) \/ FetchNone(th)
      PROVE  /\ UNCHANGED <<m_fibers, m_activeThreadCount, m_stopping, ft, term, done>>
             /\ \E l \in Labels :
                  /\ pc' = [pc EXCEPT ![th] = l]
                  /\ l \in HasTask <=> pc[th] \in HasTask
                  /\ l \in {"last", "writeE", "exit"} => term[th]
  BY <1>3 DEF Enter, Report, Timeout, Drain, Leave, FetchNone, Idle, Goto, Inc
<1>4. ASSUME NEW th \in Threads,
             \E l \in Labels :
                /\ pc' = [pc EXCEPT ![th] = l]
                /\ l \in HasTask <=> pc[th] \in HasTask
                /\ l \in {"last", "writeE", "exit"} => term[th]
      PROVE  /\ pc' \in [Threads -> Labels]
             /\ \A u \in Threads :
                /\ pc'[u] \in HasTask <=> pc[u] \in HasTask
                /\ pc'[u] \in {"last", "writeE", "exit"} => term[u]
  BY <1>4
<1>5. CASE UNCHANGED vars
  BY <1>5 DEF vars
<1> QED BY <1>1, <1>2, <1>3, <1>4, <1>5 DEF Aside

\* So they keep the invariant.
LEMMA AsideKeeps == IInv /\ Aside => IInv'
<1> SUFFICES ASSUME IInv, Aside PROVE IInv'
    OBVIOUS
<1>1. Busy' = Busy
  BY AsideStep DEF Busy
<1>2. Types'
  BY AsideStep DEF IInv, Types
<1>3. TaskPlaces' /\ OnePlace'
  BY AsideStep DEF IInv, TaskPlaces, OnePlace
<1>4. ActiveExact' /\ LeavesLast'
  BY <1>1, AsideStep DEF IInv, ActiveExact, LeavesLast
<1> QED BY <1>2, <1>3, <1>4 DEF IInv

-----------------------------------------------------------------------------
\* The other steps.
LEMMA InvNext == IInv /\ [Next]_vars => IInv'
<1> SUFFICES ASSUME IInv, [Next]_vars PROVE IInv'
    OBVIOUS
<1>0. None \notin Threads \union Tasks
  BY NoneAssumption
<1>1. CASE Aside
  BY <1>1, AsideKeeps
<1>2. ASSUME NEW c \in Callers, NEW k \in Tasks, Schedule(c, k) PROVE IInv'
  <2> USE <1>2 DEF Schedule, counters, pipeVars
  <2>1. Types'
    BY DEF IInv, Types
  <2>2. Busy' = Busy
    BY DEF Busy
  <2>3. k \notin done /\ \A th \in Threads : ft[th] # k
    BY DEF Known
  <2>4. TaskPlaces' /\ ActiveExact'
    BY <2>2 DEF IInv, TaskPlaces, ActiveExact
  <2>5. OnePlace'
    BY <2>3 DEF IInv, OnePlace
  <2>6. LeavesLast'
    BY <2>2 DEF IInv, LeavesLast
  <2> QED BY <2>1, <2>4, <2>5, <2>6 DEF IInv
<1>3. ASSUME NEW c \in Callers, Stop(c) PROVE IInv'
  <2> USE <1>3 DEF Stop, counters, pipeVars, taskVars
  <2>1. Busy' = Busy
    BY DEF Busy
  <2>2. Types'
    BY DEF IInv, Types
  <2>3. TaskPlaces' /\ OnePlace' /\ ActiveExact'
    BY <2>1 DEF IInv, TaskPlaces, OnePlace, ActiveExact
  <2>4. LeavesLast'
    BY <2>1 DEF IInv, LeavesLast
  <2> QED BY <2>2, <2>3, <2>4 DEF IInv
<1>4. ASSUME NEW th \in Threads, Fetch(th) PROVE IInv'
  <2> USE DEF Goto, callerVars, pipeVars
  <2>1. PICK k \in m_fibers : /\ m_fibers' = m_fibers \ {k}
                              /\ ft' = [ft EXCEPT ![th] = k]
    BY <1>4 DEF Fetch
  <2>2. /\ pc[th] = "scan" /\ pc' = [pc EXCEPT ![th] = "fetched"]
        /\ m_activeThreadCount' = m_activeThreadCount + 1
        /\ UNCHANGED <<m_stopping, term, done>>
    BY <1>4 DEF Fetch
  <2>3. k \in Tasks /\ k # None /\ ft[th] = None
    BY <1>0, <2>2 DEF IInv, Types, TaskPlaces, HasTask
  <2>4. Types'
    BY <2>1, <2>2, <2>3 DEF IInv, Types, Labels
  <2>5. TaskPlaces'
    BY <2>1, <2>2, <2>3 DEF IInv, Types, TaskPlaces, HasTask
  <2>6. OnePlace'
    BY <2>1, <2>2, <2>3 DEF IInv, Types, OnePlace
  <2>7. Busy' = Busy \union {th} /\ th \notin Busy
    BY <2>1, <2>3 DEF IInv, Types, Busy
  <2>8. Cardinality(Busy') = Cardinality(Busy) + 1
    BY <2>7, BusyFinite, FS_AddElement
  <2>9. ActiveExact'
    BY <2>2, <2>8 DEF IInv, ActiveExact
  <2>10. LeavesLast'
    BY <2>1, <2>2 DEF IInv, Types, LeavesLast
  <2> QED BY <2>4, <2>5, <2>6, <2>9, <2>10 DEF IInv
<1>5. ASSUME NEW th \in Threads, Run(th) PROVE IInv'
  <2> USE DEF Goto, callerVars, pipeVars, Dec
  <2>1. /\ pc[th] = "run" /\ pc' = [pc EXCEPT ![th] = "scan"]
        /\ done' = done \union {ft[th]} /\ ft' = [ft EXCEPT ![th] = None]
        /\ m_activeThreadCount' = m_activeThreadCount - 1
        /\ UNCHANGED <<m_fibers, m_stopping, term>>
    BY <1>5 DEF Run
  <2>2. ft[th] # None /\ ft[th] \in Tasks
    BY <2>1 DEF IInv, Types, TaskPlaces, HasTask
  <2>3. Types'
    BY <2>1, <2>2 DEF IInv, Types, Labels
  <2>4. TaskPlaces'
    BY <2>1, <2>2 DEF IInv, Types, TaskPlaces, HasTask
  <2>5. OnePlace'
    BY <1>0, <2>1, <2>2 DEF IInv, Types, OnePlace
  <2>6. Busy' = Busy \ {th} /\ th \in Busy
    BY <2>1, <2>2 DEF IInv, Types, Busy
  <2>7. Cardinality(Busy') = Cardinality(Busy) - 1
    BY <2>6, BusyFinite, FS_RemoveElement
  <2>8. ActiveExact'
    BY <2>1, <2>7 DEF IInv, ActiveExact
  <2>9. LeavesLast'
    BY <2>1, <2>6 DEF IInv, Types, LeavesLast
  <2> QED BY <2>3, <2>4, <2>5, <2>8, <2>9 DEF IInv
<1>6. ASSUME NEW th \in Threads, Check(th) PROVE IInv'
  <2> USE DEF Goto, callerVars, pipeVars, taskVars, counters
  <2>1. /\ pc[th] = "check" /\ term' = [term EXCEPT ![th] = Stopping]
        /\ \E l \in {"leave", "wait"} : pc' = [pc EXCEPT ![th] = l]
        /\ UNCHANGED <<m_fibers, m_stopping, m_activeThreadCount, ft, done>>
    BY <1>6 DEF Check
  <2>2. Stopping \in BOOLEAN
    BY DEF Stopping
  <2>3. Types'
    BY <2>1, <2>2 DEF IInv, Types, Labels
  <2>4. TaskPlaces'
    BY <2>1 DEF IInv, Types, TaskPlaces, HasTask
  <2>5. Busy' = Busy
    BY <2>1 DEF Busy
  <2>6. OnePlace' /\ ActiveExact'
    BY <2>1, <2>5 DEF IInv, OnePlace, ActiveExact
  <2>7. Stopping => m_stopping /\ m_fibers = {} /\ Busy = {}
    BY BusyFinite, FS_EmptySet DEF IInv, ActiveExact, Stopping
  <2>8. LeavesLast'
    <3> SUFFICES ASSUME NEW u \in Threads
                 PROVE  /\ pc'[u] \in {"last", "writeE", "exit"} => term'[u]
                        /\ term'[u] => m_stopping' /\ m_fibers' = {} /\ Busy' = {}
      BY DEF LeavesLast
    <3>1. pc'[u] \in {"last", "writeE", "exit"} => u # th /\ pc'[u] = pc[u]
      BY <2>1 DEF IInv, Types
    <3>2. term'[u] = IF u = th THEN Stopping ELSE term[u]
      BY <2>1 DEF IInv, Types
    <3> QED BY <2>1, <2>5, <2>7, <3>1, <3>2 DEF IInv, LeavesLast
  <2> QED BY <2>3, <2>4, <2>6, <2>8 DEF IInv
<1> QED
  BY <1>1, <1>2, <1>3, <1>4, <1>5, <1>6 DEF Next, ThreadStep, Finished, Aside

\* Each task is in one place, the counter of active threads is exact, and no
\* thread leaves run() while there is a task: the invariant behind the
\* refinement.
THEOREM PoolInvariant == Spec => []IInv
<1>1. Init => IInv
  BY InvInit
<1>2. IInv /\ [Next]_vars => IInv'
  BY InvNext
<1> QED BY <1>1, <1>2, PTL DEF Spec

-----------------------------------------------------------------------------
(* Refinement *)

\* What the pool's variables are in a state of the invariant.
LEMMA RunnerFacts ==
    ASSUME IInv
    PROVE  /\ DOMAIN Runner = {ft[th] : th \in Busy}
           /\ \A th \in Busy : Runner[ft[th]] = th
  BY DEF IInv, OnePlace, Runner, Busy

\* It is determined by its domain and its values.
LEMMA RunnerIsFunction == Runner' = [j \in DOMAIN Runner' |-> Runner'[j]]
  BY DEF Runner

\* Once all threads have left, nothing is left and nothing comes.
LEMMA JoinedLast ==
    ASSUME IInv, Joined
    PROVE  m_stopping /\ m_fibers = {} /\ Busy = {}
  BY ThreadsAssumption DEF IInv, Joined, LeavesLast

\* Steps that leave the tasks alone are steps of the pool only when the last
\* thread leaves.
LEMMA AsideRefines ==
    ASSUME IInv, IInv', UNCHANGED <<m_fibers, ft, done>>, Joined => Joined'
    PROVE  [Pool!PoolNext]_(Pool!poolVars)
<1>1. Runner' = Runner
  BY DEF Runner
<1>2. Joined \in BOOLEAN /\ Joined' \in BOOLEAN
  BY DEF Joined
<1>3. CASE Joined' = Joined
  BY <1>1, <1>3 DEF Pool!poolVars
<1>4. CASE ~ Joined /\ Joined'
  <2>1. m_fibers' = {} /\ Busy' = {}
    BY <1>4, ThreadsAssumption DEF IInv, Joined, LeavesLast
  <2>2. DOMAIN Runner = {}
    BY <2>1, RunnerFacts DEF Busy
  <2>3. Pool!End
    BY <1>1, <1>4, <2>1, <2>2 DEF Pool!End
  <2> QED BY <2>3 DEF Pool!PoolNext
<1> QED BY <1>2, <1>3, <1>4

\* Every step of the threads and callers is a step of the pool or none.
LEMMA StepRefines == IInv /\ IInv' /\ [Next]_vars => [Pool!PoolNext]_(Pool!poolVars)
<1> SUFFICES ASSUME IInv, IInv', [Next]_vars PROVE [Pool!PoolNext]_(Pool!poolVars)
    OBVIOUS
<1>1. CASE Aside
  <2>1. UNCHANGED <<m_fibers, ft, done>>
    BY <1>1, AsideStep
  <2>2. Joined => Joined'
    <3>1. ASSUME NEW c \in Callers, CallerStep(c) PROVE pc' = pc
      BY <3>1 DEF CallerStep, CallerTickle, CallerWrite
    <3>2. ASSUME NEW th \in Threads,
                 \/ Tickle(th) \/ Write(th) \/ Enter(th) \/ Report(th)
                 \/ Timeout(th) \/ Drain(th) \/ Leave(th) \/ FetchNone(th)
          PROVE  ~ Joined
      BY <3>2 DEF Joined, Tickle, Write, Enter, Report, Timeout, Drain, Leave, FetchNone
    <3> QED BY <1>1, <3>1, <3>2 DEF Aside, Joined, vars
  <2> QED BY <2>1, <2>2, AsideRefines
<1>2. ASSUME NEW c \in Callers, NEW k \in Tasks, Schedule(c, k)
      PROVE  [Pool!PoolNext]_(Pool!poolVars)
  <2> USE <1>2 DEF Schedule, counters, pipeVars
  <2>1. ~ Joined /\ ~ Joined'
    BY JoinedLast DEF Joined
  <2>2. k \notin m_fibers \union DOMAIN Runner \union done
    BY RunnerFacts DEF Known, Busy
  <2>3. UNCHANGED <<Runner, Joined>>
    BY <2>1 DEF Runner, Joined
  <2>4. Pool!Submit(k)
    BY <2>1, <2>2, <2>3 DEF Pool!Submit
  <2> QED BY <2>4 DEF Pool!PoolNext
<1>3. ASSUME NEW c \in Callers, Stop(c) PROVE [Pool!PoolNext]_(Pool!poolVars)
  BY <1>3, AsideRefines DEF Stop, taskVars, Joined
<1>4. ASSUME NEW th \in Threads, Fetch(th) PROVE [Pool!PoolNext]_(Pool!poolVars)
  <2> USE DEF Goto, callerVars, pipeVars
  <2>1. PICK k \in m_fibers : /\ Eligible(th, k)
                              /\ m_fibers' = m_fibers \ {k}
                              /\ ft' = [ft EXCEPT ![th] = k]
    BY <1>4 DEF Fetch
  <2>2. /\ pc[th] = "scan" /\ pc' = [pc EXCEPT ![th] = "fetched"]
        /\ UNCHANGED done
    BY <1>4 DEF Fetch
  <2>3. k \in Tasks /\ k # None /\ ft[th] = None
    BY <2>2, NoneAssumption DEF IInv, Types, TaskPlaces, HasTask
  <2>4. Busy' = Busy \union {th} /\ th \notin Busy
    BY <2>1, <2>3 DEF IInv, Types, Busy
  <2>5. \A u \in Threads : ft'[u] = IF u = th THEN k ELSE ft[u]
    BY <2>1 DEF IInv, Types
  <2>6. DOMAIN Runner' = DOMAIN Runner \union {k}
    BY <2>4, <2>5, RunnerFacts DEF Runner, Busy
  <2>7. k \notin DOMAIN Runner
    BY RunnerFacts DEF IInv, OnePlace, Busy
  <2>8. \A j \in DOMAIN Runner : Runner[j] # th
    BY <2>4, RunnerFacts
  <2>9. (\A u \in Busy : Runner[ft[u]] = u) /\ (\A u \in Busy' : Runner'[ft'[u]] = u)
    BY RunnerFacts DEF IInv, OnePlace, Runner, Busy
  <2>10. \A j \in DOMAIN Runner' : Runner'[j] = IF j = k THEN th ELSE Runner[j]
    <3> SUFFICES ASSUME NEW j \in DOMAIN Runner'
                 PROVE  Runner'[j] = IF j = k THEN th ELSE Runner[j]
      OBVIOUS
    <3>1. CASE j = k
      BY <2>4, <2>5, <2>9, <3>1
    <3>2. CASE j # k
      <4>1. PICK u \in Busy : j = ft[u]
        BY <2>6, <3>2, RunnerFacts
      <4>2. u # th /\ u \in Busy' /\ ft'[u] = j
        BY <2>4, <2>5, <4>1 DEF Busy
      <4> QED BY <2>9, <3>2, <4>1, <4>2
    <3> QED BY <3>1, <3>2
  <2>11. Runner' = [j \in DOMAIN Runner \union {k} |-> IF j = k THEN th ELSE Runner[j]]
    BY <2>6, <2>10, RunnerIsFunction
  <2>12. UNCHANGED Joined
    BY <2>2 DEF Joined, IInv, Types
  <2>13. MayRun(k, th)
    BY <2>1 DEF Eligible, MayRun
  <2>14. Pool!Start(k, th)
    BY <2>1, <2>2, <2>8, <2>11, <2>12, <2>13 DEF Pool!Start
  <2> QED BY <2>3, <2>14 DEF Pool!PoolNext
<1>5. ASSUME NEW th \in Threads, Run(th) PROVE [Pool!PoolNext]_(Pool!poolVars)
  <2> USE DEF Goto, callerVars, pipeVars, Dec
  <2> DEFINE k == ft[th]
  <2>1. /\ pc[th] = "run" /\ pc' = [pc EXCEPT ![th] = "scan"]
        /\ done' = done \union {k} /\ ft' = [ft EXCEPT ![th] = None]
        /\ UNCHANGED m_fibers
    BY <1>5 DEF Run
  <2>2. k # None /\ k \in Tasks /\ th \in Busy
    BY <2>1 DEF IInv, Types, TaskPlaces, HasTask, Busy
  <2>3. \A u \in Threads : ft'[u] = IF u = th THEN None ELSE ft[u]
    BY <2>1 DEF IInv, Types
  <2>4. Busy' = Busy \ {th}
    BY <2>2, <2>3 DEF Busy
  <2>5. \A u \in Busy : u # th => ft[u] # k
    BY <2>2 DEF IInv, OnePlace, Busy
  <2>6. /\ DOMAIN Runner' = {ft'[u] : u \in Busy'}
        /\ \A u \in Busy' : Runner'[ft'[u]] = u
    BY DEF IInv, OnePlace, Runner, Busy
  <2>7. DOMAIN Runner' = DOMAIN Runner \ {k}
    BY <2>2, <2>3, <2>4, <2>5, <2>6, RunnerFacts DEF Busy
  <2>8. \A j \in DOMAIN Runner' : Runner'[j] = Runner[j]
    BY <2>3, <2>4, <2>6, RunnerFacts DEF Busy
  <2>9. Runner' = [j \in DOMAIN Runner \ {k} |-> Runner[j]]
    BY <2>7, <2>8, RunnerIsFunction
  <2>10. UNCHANGED Joined
    BY <2>1 DEF Joined, IInv, Types
  <2>11. k \in DOMAIN Runner
    BY <2>2, RunnerFacts
  <2>12. Pool!Finish(k)
    BY <2>1, <2>9, <2>10, <2>11 DEF Pool!Finish
  <2> QED BY <2>2, <2>12 DEF Pool!PoolNext
<1>6. ASSUME NEW th \in Threads, Check(th) PROVE [Pool!PoolNext]_(Pool!poolVars)
  <2>1. UNCHANGED <<m_fibers, ft, done>> /\ ~ Joined
    BY <1>6 DEF Check, taskVars, Joined
  <2> QED BY <2>1, AsideRefines
<1> QED
  BY <1>1, <1>2, <1>3, <1>4, <1>5, <1>6 DEF Next, ThreadStep, Finished, Aside

\* The threads of an IOManager, with their counters, their pipe and all the races
\* between a scan and a wake-up, do what TaskPool promises: a task that was handed
\* in is started once, by a thread it may run on, and stop() returns only when
\* every task is over.
THEOREM Implementation == Spec => ImplementsPool
<1>1. Init => Pool!PoolInit
  <2> SUFFICES ASSUME Init PROVE Pool!PoolInit
    OBVIOUS
  <2>1. DOMAIN Runner = {}
    BY DEF Init, Runner
  <2>2. Runner = [k \in {} |-> {}]
    BY <2>1 DEF Runner
  <2>3. Joined = FALSE
    BY ThreadsAssumption DEF Init, Joined
  <2> QED BY <2>2, <2>3 DEF Init, Pool!PoolInit
<1>2. IInv /\ IInv' /\ [Next]_vars => [Pool!PoolNext]_(Pool!poolVars)
  BY StepRefines
<1> QED BY <1>1, <1>2, PoolInvariant, PTL DEF Spec, ImplementsPool, Pool!PoolSpec
================================================================================
