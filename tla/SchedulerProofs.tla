---------------------------- MODULE SchedulerProofs ----------------------------
(***************************************************************************)
(* Proofs about Scheduler, for any number of threads, fibers and callbacks. *)
(* First the types and the two counters, which hold whatever the tasks do; *)
(* then the exclusive ownership of fibers, which needs fibers to be woken  *)
(* only once they are parked and to be scheduled by one party at a time;   *)
(* from it, where every callback is until it ends; and last, for a single  *)
(* thread, that stop() leaves nothing behind.                              *)
(***************************************************************************)
EXTENDS Scheduler, FiniteSetTheorems, SequenceTheorems, TLAPS

\* TypeOK with the counters known only as integers, and what is executing is a
\* fiber: the part of the types that is inductive by itself.
Types ==
    /\ m_fibers \in Seq(Task)
    /\ m_activeThreadCount \in Int
    /\ m_idleThreadCount \in Int
    /\ m_stopping \in BOOLEAN
    /\ m_autoStop \in BOOLEAN
    /\ m_state \in [Fibers -> State]
    /\ m_cb \in [Fibers -> Cbs \union {None}]
    /\ saved \in [Fibers -> BOOLEAN]
    /\ armed \in [Fibers -> BOOLEAN]
    /\ pc \in [Threads -> Labels]
    /\ ft \in [Threads -> FiberAndThread]
    /\ cbFiber \in [Threads -> Fibers \union {None}]
    /\ idleTerm \in [Threads -> BOOLEAN]
    /\ running \in [Threads -> Fibers \union {None}]
    /\ mainPc \in MainLabels
    /\ scheduled \in SUBSET Cbs
    /\ repeatable \in SUBSET Fibers
    /\ ended \in SUBSET (Cbs \union {None})
    /\ yields \in [Cbs -> Nat]
    /\ \A t \in Threads : pc[t] \in OnStack => running[t] \in Fibers
    /\ \A t \in Threads : pc[t] \in InTask => Cur(t) \in Fibers

-----------------------------------------------------------------------------
(* Sequences *)

\* Removing one element leaves a sequence of the same kind of elements, each of
\* which was in the original one at the same place or one place later.
LEMMA RemoveAtFacts ==
    ASSUME NEW S, NEW s \in Seq(S), NEW i \in 1..Len(s)
    PROVE  /\ RemoveAt(s, i) \in Seq(S)
           /\ Len(RemoveAt(s, i)) = Len(s) - 1
           /\ \A j \in 1..(Len(s) - 1) :
                 RemoveAt(s, i)[j] = IF j < i THEN s[j] ELSE s[j + 1]
<1> DEFINE a == SubSeq(s, 1, i - 1)
           b == SubSeq(s, i + 1, Len(s))
<1>0. Len(s) \in Nat /\ i \in Nat
  OBVIOUS
<1>1. /\ a \in Seq(S) /\ Len(a) = i - 1
      /\ \A j \in 1..(i - 1) : a[j] = s[j]
  BY <1>0, SubSeqProperties
<1>2. /\ b \in Seq(S) /\ Len(b) = Len(s) - i
      /\ \A j \in 1..(Len(s) - i) : b[j] = s[i + j]
  BY <1>0, SubSeqProperties
<1>3. RemoveAt(s, i) = a \o b
  BY DEF RemoveAt
<1> HIDE DEF a, b
<1>4. /\ a \o b \in Seq(S)
      /\ Len(a \o b) = Len(a) + Len(b)
      /\ \A j \in 1..(Len(a) + Len(b)) :
            (a \o b)[j] = IF j <= Len(a) THEN a[j] ELSE b[j - Len(a)]
  BY <1>1, <1>2, ConcatProperties
<1>5. /\ Len(a \o b) = Len(s) - 1
      /\ \A j \in 1..(Len(s) - 1) :
            (a \o b)[j] = IF j <= i - 1 THEN a[j] ELSE b[j - (i - 1)]
  BY <1>0, <1>1, <1>2, <1>4
<1>6. ASSUME NEW j \in 1..(Len(s) - 1)
      PROVE  (a \o b)[j] = IF j < i THEN s[j] ELSE s[j + 1]
  BY <1>0, <1>1, <1>2, <1>5
<1> QED BY <1>3, <1>4, <1>5, <1>6

\* The tasks that schedule() builds are FiberAndThread records.
LEMMA TaskTypes ==
    /\ NoTask \in FiberAndThread
    /\ \A c \in Cbs, thr \in Threads \union {None} :
          CbTask(c, thr) \in Task
    /\ \A f \in Fibers, thr \in Threads \union {None} :
          FiberTask(f, thr) \in Task
    /\ Task \subseteq FiberAndThread
    /\ \A x \in Task : x # NoTask
  BY NoneAssumption DEF NoTask, CbTask, FiberTask, FiberAndThread, Task

-----------------------------------------------------------------------------
(* Types *)

\* The constructor leaves every variable in its type.
LEMMA TypesInit == Init => Types
<1> SUFFICES ASSUME Init PROVE Types
    OBVIOUS
<1>1. m_fibers \in Seq(Task)
  BY DEF Init
<1>2. ft \in [Threads -> FiberAndThread]
  BY TaskTypes DEF Init
<1>3. /\ m_state \in [Fibers -> State] /\ m_cb \in [Fibers -> Cbs \union {None}]
      /\ saved \in [Fibers -> BOOLEAN] /\ armed \in [Fibers -> BOOLEAN]
  BY DEF Init, State
<1>4. /\ pc \in [Threads -> Labels] /\ mainPc \in MainLabels
      /\ \A t \in Threads : pc[t] \in OnStack => running[t] \in Fibers
      /\ \A t \in Threads : pc[t] \in InTask => Cur(t) \in Fibers
  BY DEF Init, Labels, MainLabels, OnStack, InTask
<1>5. /\ cbFiber \in [Threads -> Fibers \union {None}]
      /\ running \in [Threads -> Fibers \union {None}]
      /\ idleTerm \in [Threads -> BOOLEAN]
  BY DEF Init
<1>6. /\ m_activeThreadCount \in Int /\ m_idleThreadCount \in Int
      /\ yields \in [Cbs -> Nat]
  BY DEF Init
<1>7. m_stopping \in BOOLEAN /\ m_autoStop \in BOOLEAN
  BY Zenon DEF Init
<1>8. /\ scheduled \subseteq Cbs /\ repeatable \subseteq Fibers
      /\ ended \subseteq Cbs \union {None}
  BY DEF Init
<1> QED BY <1>1, <1>2, <1>3, <1>4, <1>5, <1>6, <1>7, <1>8 DEF Types

\* Every step of a thread, of the owner or of a waker keeps the types.
LEMMA TypesStep == Types /\ [Next]_vars => Types'
<1> SUFFICES ASSUME Types, [Next]_vars PROVE Types'
    OBVIOUS
<1> USE DEF Types, State, Over, Labels, MainLabels, OnStack, InTask, Cur, taskVars,
            fiberVars, bodyVars, loopVars, idleVars, mainVars
<1>0. ASSUME NEW c PROVE [yields EXCEPT ![c] = @ + 1] \in [Cbs -> Nat]
  <2>1. CASE c \in Cbs
    BY <2>1
  <2>2. CASE c \notin Cbs
    <3>1. \A d \in Cbs : [yields EXCEPT ![c] = @ + 1][d] = yields[d]
      BY <2>2
    <3> QED BY <3>1
  <2> QED BY <2>1, <2>2
<1>1. ASSUME NEW c \in Cbs, NEW thr \in Pins, ScheduleCb(c, thr) PROVE Types'
  BY <1>1, TaskTypes, PinAssumption DEF ScheduleCb, Push
<1>2. ASSUME NEW c \in Cbs, NEW d \in Cbs, ScheduleRange(c, d) PROVE Types'
  BY <1>2, TaskTypes DEF ScheduleRange
<1>3. ASSUME NEW f \in Fibers, NEW c \in Cbs, NEW thr \in Pins,
             ScheduleFiber(f, c, thr)
      PROVE  Types'
  BY <1>3, TaskTypes, PinAssumption DEF ScheduleFiber, Construct, Push
<1>4. ASSUME NEW f \in Fibers, ScheduleAgain(f) PROVE Types'
  BY <1>4, TaskTypes DEF ScheduleAgain, Push
<1>5. ASSUME NEW t \in Threads, Choose(t) PROVE Types'
  <2>1. CASE Fetch(t)
    <3>1. PICK i \in DOMAIN m_fibers : IsFirst(t, i) /\ Take(t, i)
      BY <2>1 DEF Fetch
    <3>2. i \in 1..Len(m_fibers) /\ m_fibers[i] \in FiberAndThread
      BY <3>1, TaskTypes
    <3>3. m_fibers' \in Seq(Task) /\ m_activeThreadCount' \in Int
      BY <3>1, <3>2, RemoveAtFacts DEF Take
    <3>4. ft' \in [Threads -> FiberAndThread]
      BY <3>1, <3>2 DEF Take
    <3>5. ft' = [ft EXCEPT ![t] = m_fibers[i]]
      BY <3>1 DEF Take
    <3>6. \A u \in Threads : pc'[u] \in InTask => Cur(u)' \in Fibers
      BY <2>1, <3>5 DEF Fetch, Goto
    <3> QED BY <2>1, <3>3, <3>4, <3>6 DEF Fetch, Goto
  <2>2. CASE FetchNone(t)
    BY <2>2, TaskTypes DEF FetchNone, Goto
  <2> QED BY <1>5, <2>1, <2>2 DEF Choose
<1>6. ASSUME NEW t \in Threads, Dispatch(t) PROVE Types'
  <2>1. CASE DispatchFiber(t)
    BY <2>1 DEF DispatchFiber, Goto, FiberAndThread
  <2>2. ASSUME NEW f \in Fibers, DispatchCb(t, f) PROVE Types'
    BY <2>2, TaskTypes DEF DispatchCb, Goto, FiberAndThread
  <2>3. CASE DispatchDropped(t)
    BY <2>3, TaskTypes DEF DispatchDropped, Goto
  <2>4. CASE DispatchExit(t)
    BY <2>4 DEF DispatchExit, Goto
  <2>5. CASE DispatchIdle(t)
    BY <2>5 DEF DispatchIdle, Goto
  <2> QED BY <1>6, <2>1, <2>2, <2>3, <2>4, <2>5 DEF Dispatch
<1>7. ASSUME NEW t \in Threads, Body(t) PROVE Types'
  <2>1. CASE Arm(t)
    BY <2>1 DEF Arm, Goto
  <2>2. CASE YieldToHold(t)
    BY <1>0, <2>2 DEF YieldToHold, Yield, Goto
  <2>3. CASE YieldToReady(t)
    BY <1>0, <2>3 DEF YieldToReady, Yield, Goto
  <2>4. CASE Return(t)
    BY <2>4 DEF Return, Goto
  <2>5. CASE Throw(t)
    BY <2>5 DEF Throw, Goto
  <2> QED BY <1>7, <2>1, <2>2, <2>3, <2>4, <2>5 DEF Body
<1>8. ASSUME NEW t \in Threads, After(t) PROVE Types'
  <2>1. CASE SwapOut(t)
    BY <2>1 DEF SwapOut, Goto
  <2>2. CASE Dec(t)
    BY <2>2 DEF Dec, Goto
  <2>3. CASE SettleOver(t)
    BY <2>3, TaskTypes DEF SettleOver, Goto
  <2>4. CASE SettleWaiting(t)
    BY <2>4 DEF SettleWaiting, Goto
  <2>5. CASE Requeue(t)
    <3>1. Cur(t) \in Fibers
      BY <2>5 DEF Requeue
    <3>2. m_fibers' \in Seq(Task)
      BY <2>5, <3>1, TaskTypes DEF Requeue, Push
    <3>3. /\ ft' \in [Threads -> FiberAndThread]
          /\ cbFiber' \in [Threads -> Fibers \union {None}]
      BY <2>5, TaskTypes DEF Requeue, LetGo
    <3> QED BY <2>5, <3>2, <3>3 DEF Requeue, LetGo, Goto
  <2>6. CASE Hold(t)
    BY <2>6, TaskTypes DEF Hold, LetGo, Goto
  <2> QED BY <1>8, <2>1, <2>2, <2>3, <2>4, <2>5, <2>6 DEF After
<1>9. ASSUME NEW t \in Threads, Idle(t) PROVE Types'
  <2>1. CASE IdlePending(t)
    BY <2>1 DEF IdlePending, Goto
  <2>2. CASE IdleStopping(t)
    BY <2>2 DEF IdleStopping, Stopping, Goto
  <2>3. CASE IdleRet(t)
    BY <2>3 DEF IdleRet, Goto
  <2> QED BY <1>9, <2>1, <2>2, <2>3 DEF Idle
<1>10. ASSUME NEW t \in Threads, NEW f \in Fibers, Wake(t, f) PROVE Types'
  BY <1>10, TaskTypes DEF Wake, Push
<1>11. CASE Main
  <2>1. UNCHANGED <<taskVars, fiberVars, bodyVars, loopVars, idleVars>>
    BY <1>11 DEF Main, StopCall, Start, Stop, StopPending, StopLocked, RootBack, Join
  <2>2. pc' \in [Threads -> Labels]
    BY <1>11 DEF Main, StopCall, Start, Stop, StopPending, StopLocked, CallRoot,
                 RootBack, Join, Goto
  <2>3. mainPc' \in MainLabels
    BY <1>11 DEF Main, StopCall, Start, Stop, StopPending, StopLocked, CallRoot,
                 RootBack, Join
  <2>4. m_stopping' \in BOOLEAN /\ m_autoStop' \in BOOLEAN
    BY <1>11 DEF Main, StopCall, Start, Stop, StopPending, StopLocked, RootBack, Join
  <2>5. \A t \in Threads : pc'[t] = pc[t] \/ pc'[t] = "fetch"
    BY <1>11 DEF Main, StopCall, Start, Stop, StopPending, StopLocked, CallRoot,
                 RootBack, Join, Goto
  <2>6. /\ \A t \in Threads : pc'[t] \in OnStack => running'[t] \in Fibers
        /\ \A t \in Threads : pc'[t] \in InTask => Cur(t)' \in Fibers
    BY <2>1, <2>5
  <2> QED BY <2>1, <2>2, <2>3, <2>4, <2>6
<1>12. CASE UNCHANGED vars
  BY <1>12 DEF vars
<1>13. CASE Terminated
  BY <1>12, <1>13 DEF Terminated
<1> QED
  BY <1>1, <1>2, <1>3, <1>4, <1>5, <1>6, <1>7, <1>8, <1>9, <1>10, <1>11, <1>12,
     <1>13 DEF Next, Schedules, ThreadStep

\* The inductive part of the types, as an invariant of the specification.
THEOREM TypesInvariant == Spec => []Types
  BY TypesInit, TypesStep, PTL DEF Spec

-----------------------------------------------------------------------------
(* The order of start() and stop() *)

\* Before start() the owner's program has begun nothing.
LEMMA MainOrderInit == Init => MainOrder
  BY DEF Init, MainOrder

\* The owner goes through construction, start() and stop() in order.
LEMMA MainOrderStep == Types /\ MainOrder /\ [Next]_vars => MainOrder'
<1> SUFFICES ASSUME Types, MainOrder, [Next]_vars PROVE MainOrder'
    OBVIOUS
<1> USE DEF MainOrder, Types, mainVars
<1>1. CASE Schedules
  BY <1>1 DEF Schedules, ScheduleCb, ScheduleRange, ScheduleFiber, ScheduleAgain
<1>2. ASSUME NEW t \in Threads, ThreadStep(t) PROVE MainOrder'
  <2>1. pc[t] # "off" /\ UNCHANGED mainVars
    BY <1>2 DEF ThreadStep, Choose, Fetch, FetchNone, Dispatch, DispatchFiber,
         DispatchCb, DispatchDropped, DispatchExit, DispatchIdle, Body, Arm,
         YieldToHold, YieldToReady, Yield, Return, Throw, After, SwapOut, Dec,
         SettleOver, SettleWaiting, Requeue, Hold, Idle, IdlePending,
         IdleStopping, IdleRet
  <2>2. \A u \in Threads : u # t => pc'[u] = pc[u]
    BY <1>2 DEF ThreadStep, Choose, Fetch, FetchNone, Dispatch, DispatchFiber,
         DispatchCb, DispatchDropped, DispatchExit, DispatchIdle, Body, Arm,
         YieldToHold, YieldToReady, Yield, Return, Throw, After, SwapOut, Dec,
         SettleOver, SettleWaiting, Requeue, Hold, LetGo, Idle, IdlePending,
         IdleStopping, IdleRet, Goto
  <2> QED BY <2>1, <2>2
<1>3. ASSUME NEW t \in Threads, NEW f \in Fibers, Wake(t, f) PROVE MainOrder'
  BY <1>3 DEF Wake
<1>4. CASE Main
  BY <1>4, ThreadAssumption DEF Main, StopCall, Start, Stop, StopPending,
       StopLocked, CallRoot, RootBack, Join, Goto, MainLabels
<1>5. CASE UNCHANGED vars
  BY <1>5 DEF vars
<1> QED BY <1>1, <1>2, <1>3, <1>4, <1>5 DEF Next, Terminated

-----------------------------------------------------------------------------
(* The counters *)

Holders == {t \in Threads : Holding(t)}
Idlers  == {t \in Threads : Idling(t)}

\* Sets of threads are finite, and one thread more or less is one more or less.
LEMMA Counting ==
    ASSUME NEW P \in SUBSET Threads, NEW t \in Threads
    PROVE  /\ Cardinality(P) \in Nat
           /\ t \notin P => Cardinality(P \union {t}) = Cardinality(P) + 1
           /\ t \in P => Cardinality(P \ {t}) = Cardinality(P) - 1
<1>1. IsFiniteSet(P)
  BY ThreadAssumption, FS_Subset
<1> QED BY <1>1, FS_CardinalityType, FS_AddElement, FS_RemoveElement

\* A thread that starts or stops holding a task moves the counter with it, and
\* so does a thread that enters or leaves its idle fiber; nobody else does.
CounterMoves ==
    /\ \/ Holders' = Holders /\ m_activeThreadCount' = m_activeThreadCount
       \/ \E t \in Threads \ Holders :
             /\ Holders' = Holders \union {t}
             /\ m_activeThreadCount' = m_activeThreadCount + 1
       \/ \E t \in Holders :
             /\ Holders' = Holders \ {t}
             /\ m_activeThreadCount' = m_activeThreadCount - 1
    /\ \/ Idlers' = Idlers /\ m_idleThreadCount' = m_idleThreadCount
       \/ \E t \in Threads \ Idlers :
             /\ Idlers' = Idlers \union {t}
             /\ m_idleThreadCount' = m_idleThreadCount + 1
       \/ \E t \in Idlers :
             /\ Idlers' = Idlers \ {t}
             /\ m_idleThreadCount' = m_idleThreadCount - 1

\* Every step moves each counter and the set of threads it counts together.
LEMMA CounterStep == Types /\ MainOrder /\ [Next]_vars => CounterMoves
<1> SUFFICES ASSUME Types, MainOrder, [Next]_vars PROVE CounterMoves
    OBVIOUS
<1> USE DEF CounterMoves, Holders, Idlers, Holding, Idling, taskVars, idleVars,
            loopVars
<1>1. CASE Schedules
  BY <1>1 DEF Schedules, ScheduleCb, ScheduleRange, ScheduleFiber, ScheduleAgain
<1>2. ASSUME NEW t \in Threads, Choose(t) PROVE CounterMoves
  <2>1. CASE Fetch(t)
    <3>1. PICK i \in DOMAIN m_fibers : IsFirst(t, i) /\ Take(t, i)
      BY <2>1 DEF Fetch
    <3>2. m_fibers[i] # NoTask
      BY <3>1, TaskTypes DEF Types
    <3>3. Holders' = Holders \union {t} /\ t \notin Holders
      BY <2>1, <3>1, <3>2 DEF Fetch, Take, Goto, Types
    <3>4. Idlers' = Idlers
      BY <2>1 DEF Fetch, Goto, Types
    <3> QED BY <2>1, <3>1, <3>3, <3>4 DEF Fetch, Take
  <2>2. CASE FetchNone(t)
    <3>1. Holders' = Holders /\ Idlers' = Idlers
      BY <2>2 DEF FetchNone, Goto, Types
    <3> QED BY <2>2, <3>1 DEF FetchNone
  <2> QED BY <1>2, <2>1, <2>2 DEF Choose
<1>3. ASSUME NEW t \in Threads, Dispatch(t) PROVE CounterMoves
  <2>1. CASE DispatchFiber(t)
    <3>1. Holders' = Holders /\ Idlers' = Idlers
      BY <2>1 DEF DispatchFiber, Goto, Types, NoTask
    <3> QED BY <2>1, <3>1 DEF DispatchFiber
  <2>2. ASSUME NEW f \in Fibers, DispatchCb(t, f) PROVE CounterMoves
    <3>1. Holders' = Holders /\ Idlers' = Idlers
      BY <2>2 DEF DispatchCb, Goto, Types, NoTask
    <3> QED BY <2>2, <3>1 DEF DispatchCb
  <2>3. CASE DispatchDropped(t)
    <3>1. Holders' = Holders \ {t} /\ t \in Holders /\ Idlers' = Idlers
      BY <2>3 DEF DispatchDropped, Goto, Types, NoTask
    <3> QED BY <2>3, <3>1 DEF DispatchDropped
  <2>4. CASE DispatchExit(t)
    <3>1. Holders' = Holders /\ Idlers' = Idlers
      BY <2>4 DEF DispatchExit, Goto, Types
    <3> QED BY <2>4, <3>1 DEF DispatchExit
  <2>5. CASE DispatchIdle(t)
    <3>1. Holders' = Holders /\ Idlers' = Idlers \union {t} /\ t \notin Idlers
      BY <2>5 DEF DispatchIdle, Goto, Types
    <3> QED BY <2>5, <3>1 DEF DispatchIdle
  <2> QED BY <1>3, <2>1, <2>2, <2>3, <2>4, <2>5 DEF Dispatch
<1>4. ASSUME NEW t \in Threads, Body(t) PROVE CounterMoves
  <2>1. Holders' = Holders /\ Idlers' = Idlers
    BY <1>4 DEF Body, Arm, YieldToHold, YieldToReady, Yield, Return, Throw, Goto,
                Types
  <2> QED BY <1>4, <2>1 DEF Body, Arm, YieldToHold, YieldToReady, Yield, Return,
                            Throw
<1>5. ASSUME NEW t \in Threads, After(t) PROVE CounterMoves
  <2>1. CASE Dec(t)
    <3>1. Holders' = Holders \ {t} /\ t \in Holders /\ Idlers' = Idlers
      BY <2>1 DEF Dec, Goto, Types
    <3> QED BY <2>1, <3>1 DEF Dec
  <2>2. CASE SwapOut(t)
    <3>1. Holders' = Holders /\ Idlers' = Idlers
      BY <2>2 DEF SwapOut, Goto, Types
    <3> QED BY <2>2, <3>1 DEF SwapOut
  <2>3. CASE SettleOver(t) \/ SettleWaiting(t) \/ Requeue(t) \/ Hold(t)
    <3>1. Holders' = Holders /\ Idlers' = Idlers
      BY <2>3 DEF SettleOver, SettleWaiting, Requeue, Hold, LetGo, Goto, Types
    <3> QED BY <2>3, <3>1 DEF SettleOver, SettleWaiting, Requeue, Hold
  <2> QED BY <1>5, <2>1, <2>2, <2>3 DEF After
<1>6. ASSUME NEW t \in Threads, Idle(t) PROVE CounterMoves
  <2>1. CASE IdlePending(t) \/ IdleStopping(t)
    <3>1. Holders' = Holders /\ Idlers' = Idlers
      BY <2>1 DEF IdlePending, IdleStopping, Goto, Types
    <3> QED BY <2>1, <3>1 DEF IdlePending, IdleStopping
  <2>2. CASE IdleRet(t)
    <3>1. Holders' = Holders /\ Idlers' = Idlers \ {t} /\ t \in Idlers
      BY <2>2 DEF IdleRet, Goto, Types
    <3> QED BY <2>2, <3>1 DEF IdleRet
  <2> QED BY <1>6, <2>1, <2>2 DEF Idle
<1>7. ASSUME NEW t \in Threads, NEW f \in Fibers, Wake(t, f) PROVE CounterMoves
  BY <1>7 DEF Wake
<1>8. CASE Start
  <2>1. Holders' = Holders /\ Idlers' = Idlers
    BY <1>8 DEF Start, MainOrder
  <2> QED BY <1>8, <2>1 DEF Start
<1>9. CASE StopPending \/ StopLocked
  <2>1. Holders' = Holders /\ Idlers' = Idlers
    BY <1>9 DEF StopPending, StopLocked, CallRoot, Goto, MainOrder, Types
  <2> QED BY <1>9, <2>1 DEF StopPending, StopLocked
<1>10. CASE Stop \/ RootBack \/ Join
  BY <1>10 DEF Stop, RootBack, Join
<1>11. CASE UNCHANGED vars
  BY <1>11 DEF vars
<1> QED BY <1>1, <1>2, <1>3, <1>4, <1>5, <1>6, <1>7, <1>8, <1>9, <1>10, <1>11
        DEF Next, ThreadStep, Main, StopCall, Terminated

\* Moving with the sets, the counters stay equal to their cardinalities.
LEMMA CounterFollows ==
    ActiveExact /\ IdleExact /\ CounterMoves => ActiveExact' /\ IdleExact'
<1> SUFFICES ASSUME ActiveExact, IdleExact, CounterMoves
             PROVE  ActiveExact' /\ IdleExact'
    OBVIOUS
<1>1. m_activeThreadCount = Cardinality(Holders)
  BY DEF ActiveExact, Holders
<1>2. m_idleThreadCount = Cardinality(Idlers)
  BY DEF IdleExact, Idlers
<1>3. Holders \in SUBSET Threads /\ Idlers \in SUBSET Threads
  BY DEF Holders, Idlers
<1>4. m_activeThreadCount' = Cardinality(Holders')
  BY <1>1, <1>3, Counting DEF CounterMoves
<1>5. m_idleThreadCount' = Cardinality(Idlers')
  BY <1>2, <1>3, Counting DEF CounterMoves
<1> QED BY <1>4, <1>5 DEF ActiveExact, IdleExact, Holders, Idlers

\* At first no thread works and none is idle.
LEMMA CountersInit == Init => ActiveExact /\ IdleExact
<1> SUFFICES ASSUME Init PROVE ActiveExact /\ IdleExact
    OBVIOUS
<1>1. {t \in Threads : Holding(t)} = {} /\ {t \in Threads : Idling(t)} = {}
  BY DEF Init, Holding, Idling
<1> QED BY <1>1, FS_EmptySet DEF Init, ActiveExact, IdleExact

\* Both counters, with what their steps rest on, as an invariant.
LEMMA CountersInvariant == Spec => [](ActiveExact /\ IdleExact)
<1> DEFINE Inv == Types /\ MainOrder /\ ActiveExact /\ IdleExact
<1>1. Init => Inv
  BY TypesInit, MainOrderInit, CountersInit
<1>2. Inv /\ [Next]_vars => Inv'
  BY TypesStep, MainOrderStep, CounterStep, CounterFollows
<1> QED BY <1>1, <1>2, PTL DEF Spec

\* What stopping() reads is exact in every reachable state of every pool, also
\* when tasks wake each other too early or schedule fibers twice.
THEOREM ActiveCountExact == Spec => []ActiveExact
  BY CountersInvariant, PTL

\* So is what IOManager::tickle reads to decide whether to write to the pipe.
THEOREM IdleCountExact == Spec => []IdleExact
  BY CountersInvariant, PTL

\* Type correctness; being cardinalities, the two size_t counters never wrap.
THEOREM TypeCorrect == Spec => []TypeOK
<1>1. Types /\ ActiveExact /\ IdleExact => TypeOK
  <2> SUFFICES ASSUME Types, ActiveExact, IdleExact PROVE TypeOK
      OBVIOUS
  <2>1. m_activeThreadCount \in Nat /\ m_idleThreadCount \in Nat
    <3>1. PICK t \in Threads : TRUE
      BY ThreadAssumption
    <3> QED BY <3>1, Counting DEF ActiveExact, IdleExact
  <2> QED BY <2>1 DEF Types, TypeOK
<1> QED BY <1>1, TypesInvariant, CountersInvariant, PTL

-----------------------------------------------------------------------------
(* Exclusive ownership of fibers *)

\* At first no fiber exists, so nobody has one.
LEMMA ExclusiveInit == Init => Exclusive
  BY NoneAssumption DEF Init, Exclusive, RunsCur, QueueExclusive, HeldOnce,
       LabelState, SpareReset, LooseFibers, Unreferred, Refers, Enterable, Cur,
       NoTask, OnStack, InTask

\* The step takes no free fiber other than g away.
Undisturbed(g) == Free \ {g} \subseteq Free'

\* Appending a free fiber keeps the list exclusive.
LEMMA PushExclusive ==
    ASSUME Types, QueueExclusive, NEW f \in Fibers, NEW x,
           x.fiber = f, m_fibers' = Append(m_fibers, x),
           \A i \in DOMAIN m_fibers : m_fibers[i].fiber # f,
           f \in Free', Undisturbed(f)
    PROVE  QueueExclusive'
<1>1. /\ m_fibers \in Seq(Task) /\ DOMAIN m_fibers = 1..Len(m_fibers)
      /\ Len(m_fibers) \in Nat
  BY DEF Types
<1>2. /\ DOMAIN m_fibers' = 1..(Len(m_fibers) + 1)
      /\ m_fibers'[Len(m_fibers) + 1] = x
      /\ \A i \in DOMAIN m_fibers : m_fibers'[i] = m_fibers[i]
  BY <1>1
<1>3. \A i \in DOMAIN m_fibers' : i \in DOMAIN m_fibers \/ i = Len(m_fibers) + 1
  BY <1>1, <1>2
<1>4. \A i \in DOMAIN m_fibers :
          m_fibers[i].fiber # None => m_fibers[i].fiber \in Free'
  BY DEF QueueExclusive, Undisturbed
<1>5. \A i \in DOMAIN m_fibers' :
          m_fibers'[i].fiber # None => m_fibers'[i].fiber \in Free'
  BY <1>2, <1>3, <1>4
<1>6. \A i, j \in DOMAIN m_fibers' :
          m_fibers'[i].fiber # None /\ m_fibers'[j].fiber = m_fibers'[i].fiber =>
             i = j
  BY <1>2, <1>3 DEF QueueExclusive
<1> QED BY <1>5, <1>6 DEF QueueExclusive

\* Removing a task keeps the list exclusive, even if somebody then has its fiber.
LEMMA RemoveExclusive ==
    ASSUME Types, QueueExclusive, NEW i \in DOMAIN m_fibers,
           m_fibers' = RemoveAt(m_fibers, i), Undisturbed(m_fibers[i].fiber)
    PROVE  QueueExclusive'
<1>1. /\ m_fibers \in Seq(Task) /\ DOMAIN m_fibers = 1..Len(m_fibers)
      /\ Len(m_fibers) \in Nat
  BY DEF Types
<1>2. /\ m_fibers' \in Seq(Task)
      /\ Len(m_fibers') = Len(m_fibers) - 1
      /\ \A j \in 1..(Len(m_fibers) - 1) :
            m_fibers'[j] = IF j < i THEN m_fibers[j] ELSE m_fibers[j + 1]
  BY <1>1, RemoveAtFacts
<1>3. DOMAIN m_fibers' = 1..(Len(m_fibers) - 1)
  BY <1>2
<1> DEFINE old(j) == IF j < i THEN j ELSE j + 1
<1>4. \A j \in DOMAIN m_fibers' :
          /\ old(j) \in DOMAIN m_fibers /\ old(j) # i
          /\ m_fibers'[j] = m_fibers[old(j)]
  BY <1>1, <1>2, <1>3
<1>5. \A j, k \in DOMAIN m_fibers' : old(j) = old(k) => j = k
  BY <1>1, <1>3
<1> HIDE DEF old
<1>6. \A j \in DOMAIN m_fibers :
          j # i /\ m_fibers[j].fiber # None => m_fibers[j].fiber \in Free'
  BY DEF QueueExclusive, Undisturbed
<1>7. \A j \in DOMAIN m_fibers' :
          m_fibers'[j].fiber # None => m_fibers'[j].fiber \in Free'
  BY <1>4, <1>6
<1>8. \A j, k \in DOMAIN m_fibers' :
          m_fibers'[j].fiber # None /\ m_fibers'[k].fiber = m_fibers'[j].fiber =>
             j = k
  <2> TAKE j, k \in DOMAIN m_fibers'
  <2> HAVE m_fibers'[j].fiber # None /\ m_fibers'[k].fiber = m_fibers'[j].fiber
  <2>1. old(j) = old(k)
    BY <1>4 DEF QueueExclusive
  <2> QED BY <2>1, <1>5
<1> QED BY <1>7, <1>8 DEF QueueExclusive

\* A fiber that does not exist yet, is executing or is waiting is not in the list.
LEMMA NotQueued ==
    ASSUME QueueExclusive, NEW f \in Fibers, ~ Enterable(f)
    PROVE  \A i \in DOMAIN m_fibers : m_fibers[i].fiber # f
  BY NoneAssumption DEF QueueExclusive, Free

\* The discipline the tasks keep: no fiber is scheduled twice, and one that waits is
\* woken only once it is parked.  With a single thread the second part needs no care: who
\* wakes a fiber is that thread, and it is not inside the fiber then.
Discipline == ~ MayRepeat /\ (WakeParkedOnly \/ \A t, u \in Threads : t = u)

\* Under the discipline, every step leaves each fiber with one owner.
LEMMA ExclusiveStep ==
    ASSUME Discipline
    PROVE  Types /\ MainOrder /\ Exclusive /\ [Next]_vars => Exclusive'
<1> SUFFICES ASSUME Types, MainOrder, Exclusive, [Next]_vars PROVE Exclusive'
    OBVIOUS
<1> USE NoneAssumption
    DEF Types, FiberAndThread, Task, NoTask, Exclusive, RunsCur, QueueExclusive,
        HeldOnce, LabelState, SpareReset, LooseFibers, Free, Enterable, Refers,
        Unreferred, Cur, OnStack, InTask, State, Over, taskVars, fiberVars,
        bodyVars, loopVars, idleVars, mainVars
<1>1. ASSUME NEW c \in Cbs, NEW thr \in Pins, ScheduleCb(c, thr)
      PROVE  Exclusive'
  BY <1>1 DEF ScheduleCb, Push, CbTask
<1>2. ASSUME NEW c \in Cbs, NEW d \in Cbs, ScheduleRange(c, d)
      PROVE  Exclusive'
  BY <1>2 DEF ScheduleRange, CbTask
<1>3. ASSUME NEW f \in Fibers, NEW c \in Cbs, NEW thr \in Pins,
             ScheduleFiber(f, c, thr)
      PROVE  Exclusive'
  <2>1. \A i \in DOMAIN m_fibers : m_fibers[i].fiber # f
    <3>1. ~ Enterable(f)
      BY <1>3 DEF ScheduleFiber, Construct
    <3> HIDE DEF QueueExclusive, Enterable
    <3> QED BY <3>1, NotQueued
  <2>2. f \in Free' /\ Undisturbed(f)
    BY <1>3 DEF ScheduleFiber, Construct, Undisturbed
  <2>3. QueueExclusive'
    <3>1. FiberTask(f, thr).fiber = f
      BY DEF FiberTask
    <3> HIDE DEF Types, QueueExclusive, Free
    <3> QED BY <1>3, <2>1, <2>2, <3>1, PushExclusive DEF ScheduleFiber, Push
  <2>4. RunsCur' /\ HeldOnce' /\ LabelState' /\ SpareReset' /\ LooseFibers'
    BY <1>3 DEF ScheduleFiber, Construct
  <2>5. repeatable' = {}
    BY <1>3 DEF ScheduleFiber, Discipline
  <2> QED BY <2>3, <2>4, <2>5
<1>4. ASSUME NEW f \in Fibers, ScheduleAgain(f) PROVE Exclusive'
  BY <1>4 DEF ScheduleAgain
<1>5. ASSUME NEW t \in Threads, Fetch(t) PROVE Exclusive'
  <2>1. PICK i \in DOMAIN m_fibers : IsFirst(t, i) /\ Take(t, i)
    BY <1>5 DEF Fetch
  <2>2. /\ ft' = [ft EXCEPT ![t] = m_fibers[i]]
        /\ m_fibers[i] \in FiberAndThread
        /\ pc[t] = "fetch" /\ pc' = [pc EXCEPT ![t] = "dispatch"]
        /\ UNCHANGED <<repeatable, fiberVars, cbFiber, running>>
    BY <1>5, <2>1 DEF Fetch, Take, Goto
  <2>3. QueueExclusive'
    <3>1. Undisturbed(m_fibers[i].fiber)
      BY <2>2 DEF Undisturbed
    <3> HIDE DEF Types, QueueExclusive, Free
    <3> QED BY <2>1, <3>1, RemoveExclusive DEF Take
  <2>4. RunsCur' /\ HeldOnce'
    BY <2>2
  <2>5. LabelState' /\ SpareReset' /\ LooseFibers'
    BY <2>2
  <2> QED BY <2>2, <2>3, <2>4, <2>5
<1>6. ASSUME NEW t \in Threads, FetchNone(t) PROVE Exclusive'
  BY <1>6 DEF FetchNone, Goto
<1>7. ASSUME NEW t \in Threads, DispatchFiber(t) PROVE Exclusive'
  BY <1>7 DEF DispatchFiber, Goto
<1>8. ASSUME NEW t \in Threads, NEW f \in Fibers, DispatchCb(t, f) PROVE Exclusive'
  BY <1>8 DEF DispatchCb, CarrierFor, Goto
<1>9. ASSUME NEW t \in Threads, DispatchDropped(t) PROVE Exclusive'
  BY <1>9 DEF DispatchDropped, Goto
<1>10. ASSUME NEW t \in Threads, DispatchExit(t) PROVE Exclusive'
  BY <1>10 DEF DispatchExit, Goto
<1>11. ASSUME NEW t \in Threads, DispatchIdle(t) PROVE Exclusive'
  BY <1>11 DEF DispatchIdle, Goto
<1>12. ASSUME NEW t \in Threads, Arm(t) PROVE Exclusive'
  BY <1>12 DEF Arm, Goto
<1>13. ASSUME NEW t \in Threads, YieldToHold(t) PROVE Exclusive'
  BY <1>13 DEF YieldToHold, Yield, Goto
<1>14. ASSUME NEW t \in Threads, YieldToReady(t) PROVE Exclusive'
  BY <1>14 DEF YieldToReady, Yield, Goto
<1>15. ASSUME NEW t \in Threads, Return(t) PROVE Exclusive'
  BY <1>15 DEF Return, Goto
<1>16. ASSUME NEW t \in Threads, Throw(t) PROVE Exclusive'
  BY <1>16 DEF Throw, Goto
<1>17. ASSUME NEW t \in Threads, SwapOut(t) PROVE Exclusive'
  BY <1>17 DEF SwapOut, Goto
<1>18. ASSUME NEW t \in Threads, Dec(t) PROVE Exclusive'
  BY <1>18 DEF Dec, Goto
<1>19. ASSUME NEW t \in Threads, SettleOver(t) PROVE Exclusive'
  BY <1>19 DEF SettleOver, Goto
<1>20. ASSUME NEW t \in Threads, SettleWaiting(t) PROVE Exclusive'
  BY <1>20, SMTT(30) DEF SettleWaiting, Goto
<1>21. ASSUME NEW t \in Threads, Requeue(t) PROVE Exclusive'
  BY <1>21, SMTT(30) DEF Requeue, Push, FiberTask, LetGo, Goto
<1>22. ASSUME NEW t \in Threads, Hold(t) PROVE Exclusive'
  BY <1>22, SMTT(30) DEF Hold, LetGo, Goto
<1>23. ASSUME NEW t \in Threads, IdlePending(t) PROVE Exclusive'
  BY <1>23 DEF IdlePending, Goto
<1>24. ASSUME NEW t \in Threads, IdleStopping(t) PROVE Exclusive'
  BY <1>24 DEF IdleStopping, Goto
<1>25. ASSUME NEW t \in Threads, IdleRet(t) PROVE Exclusive'
  BY <1>25 DEF IdleRet, Goto
<1>26. ASSUME NEW t \in Threads, NEW f \in Fibers, Wake(t, f) PROVE Exclusive'
  <2>1. \A i \in DOMAIN m_fibers : m_fibers[i].fiber # f
    <3>1. ~ Enterable(f)
      BY <1>26 DEF Wake
    <3> HIDE DEF QueueExclusive, Enterable
    <3> QED BY <3>1, NotQueued
  <2>2. ASSUME NEW u \in Threads PROVE Cur(u) # f
    <3>1. CASE WakeParkedOnly
      BY <1>26, <3>1 DEF Wake
    <3>2. CASE u = t
      BY <1>26, <3>2 DEF Wake
    <3>3. QED
      BY <3>1, <3>2 DEF Discipline
  <2>3. Unreferred(f)
    BY <1>26, <2>2 DEF Wake
  <2>4. f \in Free' /\ Undisturbed(f)
    BY <1>26, <2>3 DEF Wake, Undisturbed
  <2>5. QueueExclusive'
    <3>1. FiberTask(f, None).fiber = f
      BY DEF FiberTask
    <3> HIDE DEF Types, QueueExclusive, Free
    <3> QED BY <1>26, <2>1, <2>4, <3>1, PushExclusive DEF Wake, Push
  <2>6. RunsCur' /\ HeldOnce' /\ LabelState' /\ SpareReset' /\ LooseFibers'
    BY <1>26, <2>3 DEF Wake
  <2>7. repeatable' = {}
    BY <1>26 DEF Wake
  <2> QED BY <2>5, <2>6, <2>7
<1>27. CASE Main
  <2>1. /\ UNCHANGED <<m_fibers, repeatable, fiberVars, loopVars>>
        /\ \A t \in Threads :
              pc'[t] = pc[t] \/ (pc[t] = "off" /\ pc'[t] = "fetch")
    BY <1>27, ThreadAssumption DEF MainOrder, MainLabels, Main, StopCall, Start,
         Stop, StopPending, StopLocked, CallRoot, RootBack, Join, Goto
  <2>2. Free' = Free /\ \A t \in Threads : Cur(t)' = Cur(t)
    BY <2>1
  <2>3. QueueExclusive' /\ HeldOnce' /\ LooseFibers' /\ repeatable' = {}
    BY <2>1, <2>2
  <2>4. RunsCur'
    BY <2>1, <2>2
  <2>5. LabelState'
    BY <2>1, <2>2
  <2>6. SpareReset'
    <3>1. \A t \in Threads : pc'[t] \notin InTask => pc[t] \notin InTask
      BY <2>1
    <3> QED BY <2>1, <3>1
  <2> QED BY <2>3, <2>4, <2>5, <2>6
<1>28. CASE UNCHANGED vars
  BY <1>28 DEF vars
<1> QED
  BY <1>1, <1>2, <1>3, <1>4, <1>5, <1>6, <1>7, <1>8, <1>9, <1>10, <1>11,
     <1>12, <1>13, <1>14, <1>15, <1>16, <1>17, <1>18, <1>19, <1>20, <1>21,
     <1>22, <1>23, <1>24, <1>25, <1>26, <1>27, <1>28
  DEF Next, Schedules, ThreadStep, Choose, Dispatch, Body, After, Idle, Terminated

\* What exclusive ownership means for the code: the assertions of swapIn, the
\* two yields and reset cannot fail, and no stack is used by two threads.
LEMMA ExclusiveUse ==
    ASSUME Types, Exclusive
    PROVE  /\ FetchedFiberIsParked /\ OneThreadPerFiber
           /\ StateAssertions
<1>1. FetchedFiberIsParked
  BY DEF FetchedFiberIsParked, Exclusive, LabelState, Enterable
<1>2. OneThreadPerFiber
  BY NoneAssumption DEF OneThreadPerFiber, Types, Exclusive, RunsCur, HeldOnce,
       Refers, Cur, OnStack, InTask
<1>3. RunningIsExec
  BY DEF RunningIsExec, Exclusive, RunsCur, LabelState, OnStack
<1>4. CbFiberResettable
  BY DEF CbFiberResettable, Exclusive, SpareReset, InTask, OnStack
<1> QED BY <1>1, <1>2, <1>3, <1>4 DEF StateAssertions

\* The same as an invariant of the specification.
LEMMA ExclusiveInvariant ==
    ASSUME Discipline
    PROVE  Spec => [](Types /\ MainOrder /\ Exclusive)
<1> DEFINE Inv == Types /\ MainOrder /\ Exclusive
<1>1. Init => Inv
  BY TypesInit, MainOrderInit, ExclusiveInit
<1>2. Inv /\ [Next]_vars => Inv'
  BY TypesStep, MainOrderStep, ExclusiveStep
<1> QED BY <1>1, <1>2, PTL DEF Spec

\* In a pool of any size, if no fiber is scheduled twice, and fibers are woken only
\* once they are parked or there is only one thread, the fiber run() has fetched is not
\* executing and its context is complete: the assertion of Fiber::swapIn cannot fail.
THEOREM FetchedParked ==
    ASSUME Discipline
    PROVE  Spec => []FetchedFiberIsParked
<1>1. Types /\ MainOrder /\ Exclusive => FetchedFiberIsParked
  BY ExclusiveUse
<1> QED BY <1>1, ExclusiveInvariant, PTL

\* Nor can those of YieldToHold, YieldToReady and Fiber::reset: nobody writes
\* the state of a fiber another thread executes or is about to reuse.
THEOREM AssertionsHold ==
    ASSUME Discipline
    PROVE  Spec => []StateAssertions
<1>1. Types /\ MainOrder /\ Exclusive => StateAssertions
  BY ExclusiveUse
<1> QED BY <1>1, ExclusiveInvariant, PTL

-----------------------------------------------------------------------------
(* Where a callback is: in the list, in a thread's ft, or in a fiber *)

\* Fibers with a callback to begin or to go on with.
Live == {f \in Fibers : m_state[f] \notin Over \union {"NEW"} /\ m_cb[f] # None}

\* What is executing, waiting or about to be entered has a callback; what is kept for
\* the next callback has none.
Bodies ==
    /\ \A f \in Fibers : /\ m_state[f] \in {"EXEC", "HOLD", "READY"} => m_cb[f] # None
                         /\ m_state[f] = "NEW" => m_cb[f] = None
    /\ \A i \in DOMAIN m_fibers : m_fibers[i].fiber # None =>
          m_fibers[i].cb = None /\ m_cb[m_fibers[i].fiber] # None
    /\ \A t \in Threads :
          /\ ft[t].fiber # None \/ pc[t] # "dispatch" => ft[t].cb = None
          /\ pc[t] = "dispatch" /\ ft[t].fiber # None => m_cb[ft[t].fiber] # None
          /\ cbFiber[t] # None /\ (pc[t] \notin InTask \/ ft[t].fiber # None) =>
                m_cb[cbFiber[t]] = None

\* A callback that is somewhere has been scheduled and has not ended ...
Unended ==
    /\ \A i \in DOMAIN m_fibers : m_fibers[i].cb # None => m_fibers[i].cb \in scheduled \ ended
    /\ \A t \in Threads : ft[t].cb # None => ft[t].cb \in scheduled \ ended
    /\ \A f \in Live : m_cb[f] \in scheduled \ ended
    /\ ended \subseteq scheduled

\* ... is nowhere else ...
BorneOnce ==
    /\ \A i, j \in DOMAIN m_fibers :
          m_fibers[i].cb # None /\ m_fibers[i].cb = m_fibers[j].cb => i = j
    /\ \A t, u \in Threads : ft[t].cb # None /\ ft[t].cb = ft[u].cb => t = u
    /\ \A f, g \in Live : m_cb[f] = m_cb[g] => f = g
    /\ \A i \in DOMAIN m_fibers : m_fibers[i].cb # None =>
          /\ \A t \in Threads : ft[t].cb # m_fibers[i].cb
          /\ \A f \in Live : m_cb[f] # m_fibers[i].cb
    /\ \A t \in Threads, f \in Live : ft[t].cb # m_cb[f]

\* ... and every callback that was scheduled and has not ended is somewhere ...
Somewhere(c) ==
    \/ \E i \in DOMAIN m_fibers : m_fibers[i].cb = c
    \/ \E t \in Threads : ft[t].cb = c
    \/ \E f \in Live : m_cb[f] = c
NoneLost == \A c \in scheduled \ ended : Somewhere(c)

\* ... from where it will be gone on with: its fiber is in the list, with a thread, or
\* registered with an event or a timer.
Has(t, f) ==
    (pc[t] \in InTask /\ Cur(t) = f) \/ (pc[t] = "dispatch" /\ ft[t].fiber = f)
Owned(f) ==
    \/ armed[f]
    \/ \E t \in Threads : Has(t, f)
    \/ \E i \in DOMAIN m_fibers : m_fibers[i].fiber = f
LiveOwned == \A f \in Live : Owned(f)
HoldsArmed ==
    \A t \in Threads :
       /\ pc[t] = "armed" => armed[Cur(t)]
       /\ pc[t] \in {"swap", "dec", "settle", "hold"} /\ m_state[Cur(t)] = "HOLD" =>
             armed[Cur(t)]

Callbacks == Bodies /\ Unended /\ BorneOnce /\ NoneLost /\ LiveOwned /\ HoldsArmed

LEMMA CallbacksInit == Init => Callbacks
  BY NoneAssumption DEF Init, Callbacks, Bodies, Unended, BorneOnce, NoneLost, LiveOwned,
     HoldsArmed, Live, NoTask

\* Putting a task at the end of the list and taking one from it.
LEMMA Pushed ==
    ASSUME Types, NEW x, Push(x)
    PROVE  LET n == Len(m_fibers) + 1 IN
           /\ DOMAIN m_fibers' = DOMAIN m_fibers \union {n} /\ n \notin DOMAIN m_fibers
           /\ m_fibers'[n] = x
           /\ \A i \in DOMAIN m_fibers : m_fibers'[i] = m_fibers[i]
<1>1. /\ m_fibers \in Seq(Task) /\ DOMAIN m_fibers = 1 .. Len(m_fibers)
      /\ Len(m_fibers) \in Nat
  BY DEF Types
<1>2. /\ DOMAIN m_fibers' = 1 .. (Len(m_fibers) + 1)
      /\ m_fibers'[Len(m_fibers) + 1] = x
      /\ \A i \in DOMAIN m_fibers : m_fibers'[i] = m_fibers[i]
  BY <1>1 DEF Push
<1>3. QED
  BY <1>1, <1>2

LEMMA PushedTwo ==
    ASSUME Types, NEW x, NEW y, x # y, m_fibers' = m_fibers \o <<x, y>>
    PROVE  /\ DOMAIN m_fibers \subseteq DOMAIN m_fibers'
           /\ \A i \in DOMAIN m_fibers : m_fibers'[i] = m_fibers[i]
           /\ \A i \in DOMAIN m_fibers' \ DOMAIN m_fibers : m_fibers'[i] \in {x, y}
           /\ \E i \in DOMAIN m_fibers' : m_fibers'[i] = x
           /\ \E i \in DOMAIN m_fibers' : m_fibers'[i] = y
           /\ \A i, j \in DOMAIN m_fibers' \ DOMAIN m_fibers :
                 m_fibers'[i] = m_fibers'[j] => i = j
<1> DEFINE n == Len(m_fibers)
<1>1. m_fibers \in Seq(Task) /\ n \in Nat /\ DOMAIN m_fibers = 1 .. n
  BY DEF Types
<1>2. /\ DOMAIN m_fibers' = 1 .. (n + 2)
      /\ \A i \in 1 .. n : m_fibers'[i] = m_fibers[i]
      /\ m_fibers'[n + 1] = x /\ m_fibers'[n + 2] = y
  BY <1>1
<1>3. \A i \in DOMAIN m_fibers' \ DOMAIN m_fibers : i = n + 1 \/ i = n + 2
  BY <1>1, <1>2
<1>4. n + 1 \in DOMAIN m_fibers' /\ n + 2 \in DOMAIN m_fibers'
  BY <1>1, <1>2
<1>5. /\ DOMAIN m_fibers \subseteq DOMAIN m_fibers'
      /\ \A i \in DOMAIN m_fibers : m_fibers'[i] = m_fibers[i]
  BY <1>1, <1>2
<1>6. ASSUME NEW i \in DOMAIN m_fibers' \ DOMAIN m_fibers PROVE m_fibers'[i] \in {x, y}
  <2>1. i = n + 1 \/ i = n + 2
    BY <1>3
  <2>2. QED
    BY <1>2, <2>1
<1>7. ASSUME NEW i \in DOMAIN m_fibers' \ DOMAIN m_fibers,
             NEW j \in DOMAIN m_fibers' \ DOMAIN m_fibers, m_fibers'[i] = m_fibers'[j]
      PROVE  i = j
  <2>1. (i = n + 1 \/ i = n + 2) /\ (j = n + 1 \/ j = n + 2)
    BY <1>3
  <2>2. QED
    BY <1>2, <1>7, <2>1
<1>8. QED
  BY <1>2, <1>4, <1>5, <1>6, <1>7

LEMMA Pulled ==
    ASSUME Types, NEW i \in DOMAIN m_fibers, m_fibers' = RemoveAt(m_fibers, i)
    PROVE  \E F \in [DOMAIN m_fibers' -> DOMAIN m_fibers \ {i}] :
              /\ \A j \in DOMAIN m_fibers' : m_fibers'[j] = m_fibers[F[j]]
              /\ \A j, k \in DOMAIN m_fibers' : F[j] = F[k] => j = k
              /\ \A k \in DOMAIN m_fibers \ {i} : \E j \in DOMAIN m_fibers' : F[j] = k
<1>1. /\ m_fibers \in Seq(Task) /\ DOMAIN m_fibers = 1 .. Len(m_fibers)
      /\ Len(m_fibers) \in Nat
  BY DEF Types
<1>2. /\ m_fibers' \in Seq(Task)
      /\ Len(m_fibers') = Len(m_fibers) - 1
      /\ \A j \in 1 .. (Len(m_fibers) - 1) :
            m_fibers'[j] = IF j < i THEN m_fibers[j] ELSE m_fibers[j + 1]
  BY <1>1, RemoveAtFacts
<1>3. DOMAIN m_fibers' = 1 .. (Len(m_fibers) - 1)
  BY <1>2
<1> DEFINE F == [j \in DOMAIN m_fibers' |-> IF j < i THEN j ELSE j + 1]
<1>4. /\ F \in [DOMAIN m_fibers' -> DOMAIN m_fibers \ {i}]
      /\ \A j \in DOMAIN m_fibers' : m_fibers'[j] = m_fibers[F[j]]
      /\ \A j, k \in DOMAIN m_fibers' : F[j] = F[k] => j = k
  BY <1>1, <1>2, <1>3
<1>5. ASSUME NEW k \in DOMAIN m_fibers \ {i} PROVE \E j \in DOMAIN m_fibers' : F[j] = k
  <2> DEFINE j == IF k < i THEN k ELSE k - 1
  <2>1. j \in DOMAIN m_fibers' /\ F[j] = k
    BY <1>1, <1>3
  <2>2. QED
    BY <2>1
<1>6. QED
  BY <1>4, <1>5

\* The three that say where callbacks are.
Bearers == Unended /\ BorneOnce /\ NoneLost

LEMMA BearersSame ==
    ASSUME Bearers, UNCHANGED <<scheduled, ended>>,
           Live' = Live, \A f \in Live : m_cb'[f] = m_cb[f],
           \A t \in Threads : ft'[t].cb = ft[t].cb,
           DOMAIN m_fibers \subseteq DOMAIN m_fibers',
           \A i \in DOMAIN m_fibers : m_fibers'[i] = m_fibers[i],
           \A i \in DOMAIN m_fibers' \ DOMAIN m_fibers : m_fibers'[i].cb = None
    PROVE  Bearers'
<1> USE DEF Bearers
<1>1. Unended'
  BY DEF Unended
<1>2. BorneOnce'
  BY DEF BorneOnce
<1>3. NoneLost'
  <2> SUFFICES ASSUME NEW c \in scheduled \ ended PROVE Somewhere(c)'
    BY DEF NoneLost
  <2>1. Somewhere(c)
    BY DEF NoneLost
  <2>2. QED
    BY <2>1 DEF Somewhere
<1>4. QED
  BY <1>1, <1>2, <1>3

LEMMA BearersEnd ==
    ASSUME Bearers, NEW f \in Live, Live' = Live \ {f}, \A g \in Live' : m_cb'[g] = m_cb[g],
           ended' = ended \union {m_cb[f]}, UNCHANGED <<m_fibers, ft, scheduled>>
    PROVE  Bearers'
<1> USE DEF Bearers
<1>0. m_cb[f] # None
  BY DEF Live
<1>1. Unended'
  BY <1>0 DEF Unended, BorneOnce
<1>2. BorneOnce'
  BY DEF BorneOnce
<1>3. NoneLost'
  <2> SUFFICES ASSUME NEW c \in scheduled \ ended, c # m_cb[f] PROVE Somewhere(c)'
    BY DEF NoneLost
  <2>1. Somewhere(c)
    BY DEF NoneLost
  <2>2. QED
    BY <2>1 DEF Somewhere
<1>4. QED
  BY <1>1, <1>2, <1>3

\* Callbacks that schedule() puts at the end of the list.
LEMMA BearersMore ==
    ASSUME Types, Bearers, NEW S, S \subseteq Cbs, S \intersect scheduled = {},
           scheduled' = scheduled \union S,
           UNCHANGED <<ended, ft, m_cb, m_state>>,
           DOMAIN m_fibers \subseteq DOMAIN m_fibers',
           \A i \in DOMAIN m_fibers : m_fibers'[i] = m_fibers[i],
           \A i \in DOMAIN m_fibers' \ DOMAIN m_fibers : m_fibers'[i].cb \in S,
           \A i, j \in DOMAIN m_fibers' \ DOMAIN m_fibers :
              m_fibers'[i].cb = m_fibers'[j].cb => i = j,
           \A c \in S : \E i \in DOMAIN m_fibers' : m_fibers'[i].cb = c
    PROVE  Bearers'
<1> USE DEF Bearers
<1>0. Live' = Live /\ None \notin S /\ \A t \in Threads : ft[t].cb \notin S
  BY NoneAssumption DEF Live, Unended
<1>1. Unended'
  BY <1>0 DEF Unended
<1>2. BorneOnce'
  BY <1>0 DEF BorneOnce, Unended
<1>3. NoneLost'
  <2> SUFFICES ASSUME NEW c \in (scheduled \ ended) \union S PROVE Somewhere(c)'
    BY DEF NoneLost
  <2>1. CASE c \in S
    BY <2>1 DEF Somewhere
  <2>2. CASE Somewhere(c)
    BY <1>0, <2>2 DEF Somewhere
  <2>3. QED
    BY <2>1, <2>2 DEF NoneLost
<1>4. QED
  BY <1>1, <1>2, <1>3

\* A callback that schedule() puts into a new fiber.
LEMMA BearersBorn ==
    ASSUME Types, Bearers, NEW c \in Cbs \ scheduled, scheduled' = scheduled \union {c},
           NEW f \in Fibers \ Live, Live' = Live \union {f}, m_cb'[f] = c,
           \A g \in Live : m_cb'[g] = m_cb[g], UNCHANGED <<ended, ft>>,
           DOMAIN m_fibers \subseteq DOMAIN m_fibers',
           \A i \in DOMAIN m_fibers : m_fibers'[i] = m_fibers[i],
           \A i \in DOMAIN m_fibers' \ DOMAIN m_fibers : m_fibers'[i].cb = None
    PROVE  Bearers'
<1> USE DEF Bearers
<1>0. c # None /\ c \notin ended /\ \A t \in Threads : ft[t].cb # c
  BY NoneAssumption DEF Unended
<1>1. Unended'
  BY <1>0 DEF Unended
<1>2. BorneOnce'
  BY <1>0 DEF BorneOnce, Unended
<1>3. NoneLost'
  <2> SUFFICES ASSUME NEW d \in (scheduled \ ended) \union {c} PROVE Somewhere(d)'
    BY DEF NoneLost
  <2>1. CASE d = c
    BY <2>1 DEF Somewhere
  <2>2. CASE Somewhere(d)
    BY <2>2 DEF Somewhere
  <2>3. QED
    BY <2>1, <2>2 DEF NoneLost
<1>4. QED
  BY <1>1, <1>2, <1>3

\* A callback that run() takes from the list.
LEMMA BearersTaken ==
    ASSUME Types, Bearers, NEW t \in Threads, ft[t].cb = None, NEW i \in DOMAIN m_fibers,
           ft' = [ft EXCEPT ![t] = m_fibers[i]], m_fibers' = RemoveAt(m_fibers, i),
           UNCHANGED <<scheduled, ended, m_cb, m_state>>
    PROVE  Bearers'
<1> USE DEF Bearers
<1>1. PICK F \in [DOMAIN m_fibers' -> DOMAIN m_fibers \ {i}] :
         /\ \A j \in DOMAIN m_fibers' : m_fibers'[j] = m_fibers[F[j]]
         /\ \A j, k \in DOMAIN m_fibers' : F[j] = F[k] => j = k
         /\ \A k \in DOMAIN m_fibers \ {i} : \E j \in DOMAIN m_fibers' : F[j] = k
  BY Pulled
<1>2. /\ Live' = Live /\ ft'[t] = m_fibers[i]
      /\ \A u \in Threads : u # t => ft'[u] = ft[u]
  BY DEF Live, Types
<1>3. Unended'
  BY <1>1, <1>2 DEF Unended
<1>4. BorneOnce'
  <2>1. \A j, k \in DOMAIN m_fibers' :
           m_fibers'[j].cb # None /\ m_fibers'[j].cb = m_fibers'[k].cb => j = k
    BY <1>1 DEF BorneOnce
  <2>2. \A v, u \in Threads : ft'[v].cb # None /\ ft'[v].cb = ft'[u].cb => v = u
    BY <1>2 DEF BorneOnce
  <2>3. \A f, g \in Live : m_cb[f] = m_cb[g] => f = g
    BY DEF BorneOnce
  <2>4. \A j \in DOMAIN m_fibers' : m_fibers'[j].cb # None =>
           /\ \A u \in Threads : ft'[u].cb # m_fibers'[j].cb
           /\ \A f \in Live : m_cb[f] # m_fibers'[j].cb
    BY <1>1, <1>2 DEF BorneOnce
  <2>5. \A u \in Threads, f \in Live : ft'[u].cb # m_cb[f]
    BY <1>2 DEF BorneOnce, Live
  <2>6. QED
    BY <1>2, <2>1, <2>2, <2>3, <2>4, <2>5 DEF BorneOnce
<1>5. NoneLost'
  <2> SUFFICES ASSUME NEW c \in scheduled \ ended PROVE Somewhere(c)'
    BY DEF NoneLost
  <2>0. c # None /\ Somewhere(c)
    BY NoneAssumption DEF NoneLost, Types
  <2>1. ASSUME NEW j \in DOMAIN m_fibers, m_fibers[j].cb = c PROVE Somewhere(c)'
    <3>1. CASE j = i
      BY <1>2, <2>1, <3>1 DEF Somewhere
    <3>2. CASE j # i
      BY <1>1, <2>1, <3>2 DEF Somewhere
    <3>3. QED
      BY <3>1, <3>2
  <2>2. QED
    BY <1>2, <2>0, <2>1 DEF Somewhere
<1>6. QED
  BY <1>3, <1>4, <1>5

\* A callback that run() puts into cb_fiber.
LEMMA BearersEntered ==
    ASSUME Types, Bearers, NEW t \in Threads, ft[t].cb # None, ft' = [ft EXCEPT ![t] = NoTask],
           NEW f \in Fibers \ Live, Live' = Live \union {f}, m_cb'[f] = ft[t].cb,
           \A g \in Live : m_cb'[g] = m_cb[g], UNCHANGED <<m_fibers, scheduled, ended>>
    PROVE  Bearers'
<1> USE DEF Bearers
<1>1. ft'[t].cb = None /\ \A u \in Threads : u # t => ft'[u] = ft[u]
  BY DEF Types, NoTask
<1>2. Unended'
  BY <1>1 DEF Unended
<1>3. BorneOnce'
  BY <1>1, NoneAssumption DEF BorneOnce, Live
<1>4. NoneLost'
  <2> SUFFICES ASSUME NEW c \in scheduled \ ended PROVE Somewhere(c)'
    BY DEF NoneLost
  <2>1. Somewhere(c)
    BY DEF NoneLost
  <2>2. CASE c = ft[t].cb
    BY <2>2 DEF Somewhere
  <2>3. CASE c # ft[t].cb
    BY <1>1, <2>1, <2>3 DEF Somewhere
  <2>4. QED
    BY <2>2, <2>3
<1>5. QED
  BY <1>2, <1>3, <1>4

\* Every step leaves the callbacks where they can be told to be.
LEMMA CallbacksStep ==
    ASSUME Discipline, Types, MainOrder, Exclusive, Callbacks, [Next]_vars
    PROVE  Callbacks'
<1> USE NoneAssumption
    DEF Types, FiberAndThread, Task, NoTask, Exclusive, RunsCur, QueueExclusive,
        HeldOnce, LabelState, SpareReset, LooseFibers, Free, Enterable, Refers,
        Unreferred, Cur, OnStack, InTask, State, Over, taskVars, fiberVars,
        bodyVars, loopVars, idleVars, mainVars,
        Bodies, LiveOwned, HoldsArmed
<1>0. Bearers /\ Bodies /\ LiveOwned /\ HoldsArmed
  BY DEF Callbacks, Bearers
<1>1. ASSUME NEW t \in Threads, Arm(t) PROVE Callbacks'
  <2>1. Bodies'
    BY <1>0, <1>1 DEF Arm, Goto
  <2>2. /\ Live' = Live /\ \A f \in Live : m_cb'[f] = m_cb[f]
        /\ UNCHANGED <<m_fibers, scheduled, ended>>
    BY <1>0, <1>1 DEF Arm, Goto, Live
  <2>3. \A u \in Threads : ft'[u].cb = ft[u].cb
    BY <1>0, <1>1 DEF Arm, Goto
  <2>4. Bearers'
    BY <1>0, <2>2, <2>3, BearersSame
  <2>5. ASSUME NEW f \in Live', Owned(f) PROVE Owned(f)'
    BY <1>0, <1>1, <2>5 DEF Arm, Goto, Owned, Has, Live
  <2>6. HoldsArmed'
    BY <1>0, <1>1 DEF Arm, Goto
  <2>7. QED
    BY <1>0, <2>1, <2>2, <2>4, <2>5, <2>6 DEF Callbacks, Bearers
<1>2. ASSUME NEW t \in Threads, YieldToHold(t) PROVE Callbacks'
  <2>1. Bodies'
    <3>1. m_cb[running[t]] # None /\ running[t] = Cur(t)
      BY <1>0, <1>2 DEF YieldToHold
    <3>2. \A f \in Fibers : m_state'[f] = m_state[f] \/ f = running[t]
      BY <1>2 DEF YieldToHold, Yield
    <3>3. QED
      BY <1>0, <1>2, <3>1, <3>2 DEF YieldToHold, Yield, Goto
  <2>2. /\ Live' = Live /\ \A f \in Live : m_cb'[f] = m_cb[f]
        /\ UNCHANGED <<m_fibers, scheduled, ended>>
    BY <1>0, <1>2 DEF YieldToHold, Yield, Goto, Live
  <2>3. \A u \in Threads : ft'[u].cb = ft[u].cb
    BY <1>0, <1>2 DEF YieldToHold, Yield, Goto
  <2>4. Bearers'
    BY <1>0, <2>2, <2>3, BearersSame
  <2>5. ASSUME NEW f \in Live', Owned(f) PROVE Owned(f)'
    BY <1>0, <1>2, <2>5 DEF YieldToHold, Yield, Goto, Owned, Has, Live
  <2>6. HoldsArmed'
    BY <1>0, <1>2 DEF YieldToHold, Yield, Goto
  <2>7. QED
    BY <1>0, <2>1, <2>2, <2>4, <2>5, <2>6 DEF Callbacks, Bearers
<1>3. ASSUME NEW t \in Threads, YieldToReady(t) PROVE Callbacks'
  <2>1. Bodies'
    <3>1. m_cb[running[t]] # None /\ running[t] = Cur(t)
      BY <1>0, <1>3 DEF YieldToReady
    <3>2. \A f \in Fibers : m_state'[f] = m_state[f] \/ (f = running[t] /\ m_state'[f] = "READY")
      BY <1>3 DEF YieldToReady, Yield
    <3>3. QED
      BY <1>0, <1>3, <3>1, <3>2 DEF YieldToReady, Yield, Goto
  <2>2. /\ Live' = Live /\ \A f \in Live : m_cb'[f] = m_cb[f]
        /\ UNCHANGED <<m_fibers, scheduled, ended>>
    BY <1>0, <1>3 DEF YieldToReady, Yield, Goto, Live
  <2>3. \A u \in Threads : ft'[u].cb = ft[u].cb
    BY <1>0, <1>3 DEF YieldToReady, Yield, Goto
  <2>4. Bearers'
    BY <1>0, <2>2, <2>3, BearersSame
  <2>5. ASSUME NEW f \in Live', Owned(f) PROVE Owned(f)'
    BY <1>0, <1>3, <2>5 DEF YieldToReady, Yield, Goto, Owned, Has, Live
  <2>6. HoldsArmed'
    BY <1>0, <1>3 DEF YieldToReady, Yield, Goto
  <2>7. QED
    BY <1>0, <2>1, <2>2, <2>4, <2>5, <2>6 DEF Callbacks, Bearers
<1>4. ASSUME NEW t \in Threads, Return(t) PROVE Callbacks'
  <2>1. Bodies'
    BY <1>0, <1>4 DEF Return, Goto
  <2>2. /\ running[t] \in Live /\ Live' = Live \ {running[t]}
        /\ \A f \in Live' : m_cb'[f] = m_cb[f]
        /\ UNCHANGED <<m_fibers, ft, scheduled>> /\ ended' = ended \union {m_cb[running[t]]}
    BY <1>0, <1>4 DEF Return, Goto, Live
  <2>4. Bearers'
    BY <1>0, <2>2, BearersEnd
  <2>5. ASSUME NEW f \in Live', Owned(f) PROVE Owned(f)'
    BY <1>0, <1>4, <2>5 DEF Return, Goto, Owned, Has, Live
  <2>6. HoldsArmed'
    BY <1>0, <1>4 DEF Return, Goto
  <2>7. QED
    BY <1>0, <2>1, <2>2, <2>4, <2>5, <2>6 DEF Callbacks, Bearers
<1>5. ASSUME NEW t \in Threads, Throw(t) PROVE Callbacks'
  <2>1. Bodies'
    BY <1>0, <1>5 DEF Throw, Goto
  <2>2. /\ running[t] \in Live /\ Live' = Live \ {running[t]}
        /\ \A f \in Live' : m_cb'[f] = m_cb[f]
        /\ UNCHANGED <<m_fibers, ft, scheduled>> /\ ended' = ended \union {m_cb[running[t]]}
    BY <1>0, <1>5 DEF Throw, Goto, Live
  <2>4. Bearers'
    BY <1>0, <2>2, BearersEnd
  <2>5. ASSUME NEW f \in Live', Owned(f) PROVE Owned(f)'
    BY <1>0, <1>5, <2>5 DEF Throw, Goto, Owned, Has, Live
  <2>6. HoldsArmed'
    BY <1>0, <1>5 DEF Throw, Goto
  <2>7. QED
    BY <1>0, <2>1, <2>2, <2>4, <2>5, <2>6 DEF Callbacks, Bearers
<1>6. ASSUME NEW t \in Threads, SwapOut(t) PROVE Callbacks'
  <2>1. Bodies'
    BY <1>0, <1>6 DEF SwapOut, Goto
  <2>2. /\ Live' = Live /\ \A f \in Live : m_cb'[f] = m_cb[f]
        /\ UNCHANGED <<m_fibers, scheduled, ended>>
    BY <1>0, <1>6 DEF SwapOut, Goto, Live
  <2>3. \A u \in Threads : ft'[u].cb = ft[u].cb
    BY <1>0, <1>6 DEF SwapOut, Goto
  <2>4. Bearers'
    BY <1>0, <2>2, <2>3, BearersSame
  <2>5. ASSUME NEW f \in Live', Owned(f) PROVE Owned(f)'
    BY <1>0, <1>6, <2>5 DEF SwapOut, Goto, Owned, Has, Live
  <2>6. HoldsArmed'
    BY <1>0, <1>6 DEF SwapOut, Goto
  <2>7. QED
    BY <1>0, <2>1, <2>2, <2>4, <2>5, <2>6 DEF Callbacks, Bearers
<1>7. ASSUME NEW t \in Threads, Dec(t) PROVE Callbacks'
  <2>1. Bodies'
    BY <1>0, <1>7 DEF Dec, Goto
  <2>2. /\ Live' = Live /\ \A f \in Live : m_cb'[f] = m_cb[f]
        /\ UNCHANGED <<m_fibers, scheduled, ended>>
    BY <1>0, <1>7 DEF Dec, Goto, Live
  <2>3. \A u \in Threads : ft'[u].cb = ft[u].cb
    BY <1>0, <1>7 DEF Dec, Goto
  <2>4. Bearers'
    BY <1>0, <2>2, <2>3, BearersSame
  <2>5. ASSUME NEW f \in Live', Owned(f) PROVE Owned(f)'
    BY <1>0, <1>7, <2>5 DEF Dec, Goto, Owned, Has, Live
  <2>6. HoldsArmed'
    BY <1>0, <1>7 DEF Dec, Goto
  <2>7. QED
    BY <1>0, <2>1, <2>2, <2>4, <2>5, <2>6 DEF Callbacks, Bearers
<1>8. ASSUME NEW t \in Threads, SettleOver(t) PROVE Callbacks'
  <2>1. Bodies'
    BY <1>0, <1>8 DEF SettleOver, Goto
  <2>2. /\ Live' = Live /\ \A f \in Live : m_cb'[f] = m_cb[f]
        /\ UNCHANGED <<m_fibers, scheduled, ended>>
    BY <1>0, <1>8 DEF SettleOver, Goto, Live
  <2>3. \A u \in Threads : ft'[u].cb = ft[u].cb
    BY <1>0, <1>8 DEF SettleOver, Goto
  <2>4. Bearers'
    BY <1>0, <2>2, <2>3, BearersSame
  <2>5. ASSUME NEW f \in Live', Owned(f) PROVE Owned(f)'
    BY <1>0, <1>8, <2>5 DEF SettleOver, Goto, Owned, Has, Live
  <2>6. HoldsArmed'
    BY <1>0, <1>8 DEF SettleOver, Goto
  <2>7. QED
    BY <1>0, <2>1, <2>2, <2>4, <2>5, <2>6 DEF Callbacks, Bearers
<1>9. ASSUME NEW t \in Threads, SettleWaiting(t) PROVE Callbacks'
  <2>1. Bodies'
    BY <1>0, <1>9 DEF SettleWaiting, Goto
  <2>2. /\ Live' = Live /\ \A f \in Live : m_cb'[f] = m_cb[f]
        /\ UNCHANGED <<m_fibers, scheduled, ended>>
    BY <1>0, <1>9 DEF SettleWaiting, Goto, Live
  <2>3. \A u \in Threads : ft'[u].cb = ft[u].cb
    BY <1>0, <1>9 DEF SettleWaiting, Goto
  <2>4. Bearers'
    BY <1>0, <2>2, <2>3, BearersSame
  <2>5. ASSUME NEW f \in Live', Owned(f) PROVE Owned(f)'
    BY <1>0, <1>9, <2>5 DEF SettleWaiting, Goto, Owned, Has, Live
  <2>6. HoldsArmed'
    BY <1>0, <1>9 DEF SettleWaiting, Goto
  <2>7. QED
    BY <1>0, <2>1, <2>2, <2>4, <2>5, <2>6 DEF Callbacks, Bearers
<1>10. ASSUME NEW t \in Threads, Hold(t) PROVE Callbacks'
  <2>1. Bodies'
    BY <1>0, <1>10 DEF Hold, LetGo, Goto
  <2>2. /\ Live' = Live /\ \A f \in Live : m_cb'[f] = m_cb[f]
        /\ UNCHANGED <<m_fibers, scheduled, ended>>
    BY <1>0, <1>10 DEF Hold, LetGo, Goto, Live
  <2>3. \A u \in Threads : ft'[u].cb = ft[u].cb
    BY <1>0, <1>10 DEF Hold, LetGo, Goto
  <2>4. Bearers'
    BY <1>0, <2>2, <2>3, BearersSame
  <2>5. ASSUME NEW f \in Live', Owned(f) PROVE Owned(f)'
    BY <1>0, <1>10, <2>5 DEF Hold, LetGo, Goto, Owned, Has, Live
  <2>6. HoldsArmed'
    BY <1>0, <1>10 DEF Hold, LetGo, Goto
  <2>7. QED
    BY <1>0, <2>1, <2>2, <2>4, <2>5, <2>6 DEF Callbacks, Bearers
<1>11. ASSUME NEW t \in Threads, FetchNone(t) PROVE Callbacks'
  <2>1. Bodies'
    BY <1>0, <1>11 DEF FetchNone, Goto
  <2>2. /\ Live' = Live /\ \A f \in Live : m_cb'[f] = m_cb[f]
        /\ UNCHANGED <<m_fibers, scheduled, ended>>
    BY <1>0, <1>11 DEF FetchNone, Goto, Live
  <2>3. \A u \in Threads : ft'[u].cb = ft[u].cb
    BY <1>0, <1>11 DEF FetchNone, Goto
  <2>4. Bearers'
    BY <1>0, <2>2, <2>3, BearersSame
  <2>5. ASSUME NEW f \in Live', Owned(f) PROVE Owned(f)'
    BY <1>0, <1>11, <2>5 DEF FetchNone, Goto, Owned, Has, Live
  <2>6. HoldsArmed'
    BY <1>0, <1>11 DEF FetchNone, Goto
  <2>7. QED
    BY <1>0, <2>1, <2>2, <2>4, <2>5, <2>6 DEF Callbacks, Bearers
<1>12. ASSUME NEW t \in Threads, DispatchFiber(t) PROVE Callbacks'
  <2>1. Bodies'
    BY <1>0, <1>12 DEF DispatchFiber, Goto
  <2>2. /\ Live' = Live /\ \A f \in Live : m_cb'[f] = m_cb[f]
        /\ UNCHANGED <<m_fibers, scheduled, ended>>
    BY <1>0, <1>12 DEF DispatchFiber, Goto, Live
  <2>3. \A u \in Threads : ft'[u].cb = ft[u].cb
    BY <1>0, <1>12 DEF DispatchFiber, Goto
  <2>4. Bearers'
    BY <1>0, <2>2, <2>3, BearersSame
  <2>5. ASSUME NEW f \in Live', Owned(f) PROVE Owned(f)'
    BY <1>0, <1>12, <2>5 DEF DispatchFiber, Goto, Owned, Has, Live
  <2>6. HoldsArmed'
    BY <1>0, <1>12 DEF DispatchFiber, Goto
  <2>7. QED
    BY <1>0, <2>1, <2>2, <2>4, <2>5, <2>6 DEF Callbacks, Bearers
<1>13. ASSUME NEW t \in Threads, DispatchDropped(t) PROVE Callbacks'
  <2>1. Bodies'
    BY <1>0, <1>13 DEF DispatchDropped, Goto
  <2>2. /\ Live' = Live /\ \A f \in Live : m_cb'[f] = m_cb[f]
        /\ UNCHANGED <<m_fibers, scheduled, ended>>
    BY <1>0, <1>13 DEF DispatchDropped, Goto, Live
  <2>3. \A u \in Threads : ft'[u].cb = ft[u].cb
    BY <1>0, <1>13 DEF DispatchDropped, Goto
  <2>4. Bearers'
    BY <1>0, <2>2, <2>3, BearersSame
  <2>5. ASSUME NEW f \in Live', Owned(f) PROVE Owned(f)'
    BY <1>0, <1>13, <2>5 DEF DispatchDropped, Goto, Owned, Has, Live
  <2>6. HoldsArmed'
    BY <1>0, <1>13 DEF DispatchDropped, Goto
  <2>7. QED
    BY <1>0, <2>1, <2>2, <2>4, <2>5, <2>6 DEF Callbacks, Bearers
<1>14. ASSUME NEW t \in Threads, DispatchExit(t) PROVE Callbacks'
  <2>1. Bodies'
    BY <1>0, <1>14 DEF DispatchExit, Goto
  <2>2. /\ Live' = Live /\ \A f \in Live : m_cb'[f] = m_cb[f]
        /\ UNCHANGED <<m_fibers, scheduled, ended>>
    BY <1>0, <1>14 DEF DispatchExit, Goto, Live
  <2>3. \A u \in Threads : ft'[u].cb = ft[u].cb
    BY <1>0, <1>14 DEF DispatchExit, Goto
  <2>4. Bearers'
    BY <1>0, <2>2, <2>3, BearersSame
  <2>5. ASSUME NEW f \in Live', Owned(f) PROVE Owned(f)'
    BY <1>0, <1>14, <2>5 DEF DispatchExit, Goto, Owned, Has, Live
  <2>6. HoldsArmed'
    BY <1>0, <1>14 DEF DispatchExit, Goto
  <2>7. QED
    BY <1>0, <2>1, <2>2, <2>4, <2>5, <2>6 DEF Callbacks, Bearers
<1>15. ASSUME NEW t \in Threads, DispatchIdle(t) PROVE Callbacks'
  <2>1. Bodies'
    BY <1>0, <1>15 DEF DispatchIdle, Goto
  <2>2. /\ Live' = Live /\ \A f \in Live : m_cb'[f] = m_cb[f]
        /\ UNCHANGED <<m_fibers, scheduled, ended>>
    BY <1>0, <1>15 DEF DispatchIdle, Goto, Live
  <2>3. \A u \in Threads : ft'[u].cb = ft[u].cb
    BY <1>0, <1>15 DEF DispatchIdle, Goto
  <2>4. Bearers'
    BY <1>0, <2>2, <2>3, BearersSame
  <2>5. ASSUME NEW f \in Live', Owned(f) PROVE Owned(f)'
    BY <1>0, <1>15, <2>5 DEF DispatchIdle, Goto, Owned, Has, Live
  <2>6. HoldsArmed'
    BY <1>0, <1>15 DEF DispatchIdle, Goto
  <2>7. QED
    BY <1>0, <2>1, <2>2, <2>4, <2>5, <2>6 DEF Callbacks, Bearers
<1>16. ASSUME NEW t \in Threads, IdlePending(t) PROVE Callbacks'
  <2>1. Bodies'
    BY <1>0, <1>16 DEF IdlePending, Goto
  <2>2. /\ Live' = Live /\ \A f \in Live : m_cb'[f] = m_cb[f]
        /\ UNCHANGED <<m_fibers, scheduled, ended>>
    BY <1>0, <1>16 DEF IdlePending, Goto, Live
  <2>3. \A u \in Threads : ft'[u].cb = ft[u].cb
    BY <1>0, <1>16 DEF IdlePending, Goto
  <2>4. Bearers'
    BY <1>0, <2>2, <2>3, BearersSame
  <2>5. ASSUME NEW f \in Live', Owned(f) PROVE Owned(f)'
    BY <1>0, <1>16, <2>5 DEF IdlePending, Goto, Owned, Has, Live
  <2>6. HoldsArmed'
    BY <1>0, <1>16 DEF IdlePending, Goto
  <2>7. QED
    BY <1>0, <2>1, <2>2, <2>4, <2>5, <2>6 DEF Callbacks, Bearers
<1>17. ASSUME NEW t \in Threads, IdleStopping(t) PROVE Callbacks'
  <2>1. Bodies'
    BY <1>0, <1>17 DEF IdleStopping, Goto
  <2>2. /\ Live' = Live /\ \A f \in Live : m_cb'[f] = m_cb[f]
        /\ UNCHANGED <<m_fibers, scheduled, ended>>
    BY <1>0, <1>17 DEF IdleStopping, Goto, Live
  <2>3. \A u \in Threads : ft'[u].cb = ft[u].cb
    BY <1>0, <1>17 DEF IdleStopping, Goto
  <2>4. Bearers'
    BY <1>0, <2>2, <2>3, BearersSame
  <2>5. ASSUME NEW f \in Live', Owned(f) PROVE Owned(f)'
    BY <1>0, <1>17, <2>5 DEF IdleStopping, Goto, Owned, Has, Live
  <2>6. HoldsArmed'
    BY <1>0, <1>17 DEF IdleStopping, Goto
  <2>7. QED
    BY <1>0, <2>1, <2>2, <2>4, <2>5, <2>6 DEF Callbacks, Bearers
<1>18. ASSUME NEW t \in Threads, IdleRet(t) PROVE Callbacks'
  <2>1. Bodies'
    BY <1>0, <1>18 DEF IdleRet, Goto
  <2>2. /\ Live' = Live /\ \A f \in Live : m_cb'[f] = m_cb[f]
        /\ UNCHANGED <<m_fibers, scheduled, ended>>
    BY <1>0, <1>18 DEF IdleRet, Goto, Live
  <2>3. \A u \in Threads : ft'[u].cb = ft[u].cb
    BY <1>0, <1>18 DEF IdleRet, Goto
  <2>4. Bearers'
    BY <1>0, <2>2, <2>3, BearersSame
  <2>5. ASSUME NEW f \in Live', Owned(f) PROVE Owned(f)'
    BY <1>0, <1>18, <2>5 DEF IdleRet, Goto, Owned, Has, Live
  <2>6. HoldsArmed'
    BY <1>0, <1>18 DEF IdleRet, Goto
  <2>7. QED
    BY <1>0, <2>1, <2>2, <2>4, <2>5, <2>6 DEF Callbacks, Bearers
<1>19. ASSUME NEW c \in Cbs, NEW thr \in Pins, ScheduleCb(c, thr) PROVE Callbacks'
  <2>0. /\ Push(CbTask(c, thr)) /\ c \notin scheduled /\ scheduled' = scheduled \union {c}
        /\ UNCHANGED <<fiberVars, bodyVars, loopVars, pc>>
    BY <1>19 DEF ScheduleCb
  <2>1. /\ DOMAIN m_fibers \subseteq DOMAIN m_fibers'
        /\ \A i \in DOMAIN m_fibers : m_fibers'[i] = m_fibers[i]
        /\ \A i, j \in DOMAIN m_fibers' \ DOMAIN m_fibers : i = j
        /\ \A i \in DOMAIN m_fibers' \ DOMAIN m_fibers : m_fibers'[i] = CbTask(c, thr)
        /\ \E i \in DOMAIN m_fibers' : m_fibers'[i] = CbTask(c, thr)
    BY <2>0, Pushed
  <2>2. CbTask(c, thr).fiber = None /\ CbTask(c, thr).cb = c
    BY DEF CbTask
  <2>3. Bodies'
    BY <1>0, <2>0, <2>1, <2>2
  <2>4. Bearers'
    <3> DEFINE S == {c}
    <3>1. S \subseteq Cbs /\ S \intersect scheduled = {} /\ scheduled' = scheduled \union S
      BY <2>0
    <3>2. /\ \A i \in DOMAIN m_fibers' \ DOMAIN m_fibers : m_fibers'[i].cb \in S
          /\ \A x \in S : \E i \in DOMAIN m_fibers' : m_fibers'[i].cb = x
          /\ \A i, j \in DOMAIN m_fibers' \ DOMAIN m_fibers :
                m_fibers'[i].cb = m_fibers'[j].cb => i = j
      <4>1. ASSUME NEW i \in DOMAIN m_fibers' \ DOMAIN m_fibers PROVE m_fibers'[i].cb \in S
        BY <2>1, <2>2
      <4>2. ASSUME NEW x \in S PROVE \E i \in DOMAIN m_fibers' : m_fibers'[i].cb = x
        BY <2>1, <2>2
      <4>3. ASSUME NEW i \in DOMAIN m_fibers' \ DOMAIN m_fibers,
                   NEW j \in DOMAIN m_fibers' \ DOMAIN m_fibers,
                   m_fibers'[i].cb = m_fibers'[j].cb
            PROVE  m_fibers'[i] = m_fibers'[j]
        BY <2>1, <2>2, <4>3
      <4>4. QED
        BY <2>1, <4>1, <4>2, <4>3
    <3>3. UNCHANGED <<ended, ft, m_cb, m_state>>
      BY <2>0
    <3> HIDE DEF S, Types
    <3>4. QED
      BY <1>0, <2>1, <3>1, <3>2, <3>3, BearersMore
  <2>5. ASSUME NEW f \in Live, Owned(f) PROVE Owned(f)'
    BY <2>0, <2>1, <2>5 DEF Owned, Has
  <2>6. HoldsArmed' /\ Live' = Live
    BY <1>0, <2>0 DEF Live
  <2>7. QED
    BY <1>0, <2>3, <2>4, <2>5, <2>6 DEF Callbacks, Bearers
<1>20. ASSUME NEW c \in Cbs, NEW d \in Cbs, ScheduleRange(c, d) PROVE Callbacks'
  <2>0. /\ m_fibers' = m_fibers \o <<CbTask(c, None), CbTask(d, None)>>
        /\ c # d /\ {c, d} \intersect scheduled = {} /\ scheduled' = scheduled \union {c, d}
        /\ UNCHANGED <<fiberVars, bodyVars, loopVars, pc>>
    BY <1>20 DEF ScheduleRange
  <2>1. /\ DOMAIN m_fibers \subseteq DOMAIN m_fibers'
        /\ \A i \in DOMAIN m_fibers : m_fibers'[i] = m_fibers[i]
        /\ \A i \in DOMAIN m_fibers' \ DOMAIN m_fibers :
              m_fibers'[i] \in {CbTask(c, None), CbTask(d, None)}
        /\ \A x \in {c, d} : \E i \in DOMAIN m_fibers' : m_fibers'[i] = CbTask(x, None)
        /\ \A i, j \in DOMAIN m_fibers' \ DOMAIN m_fibers : m_fibers'[i] = m_fibers'[j] => i = j
    <3>1. CbTask(c, None) # CbTask(d, None)
      BY <2>0 DEF CbTask
    <3> HIDE DEF Types
    <3>2. QED
      <4> DEFINE x == CbTask(c, None)
                 y == CbTask(d, None)
      <4> HIDE DEF x, y
      <4>1. x # y /\ m_fibers' = m_fibers \o <<x, y>>
        BY <2>0, <3>1 DEF x, y
      <4>2. /\ DOMAIN m_fibers \subseteq DOMAIN m_fibers'
            /\ \A i \in DOMAIN m_fibers : m_fibers'[i] = m_fibers[i]
            /\ \A i \in DOMAIN m_fibers' \ DOMAIN m_fibers : m_fibers'[i] \in {x, y}
            /\ \E i \in DOMAIN m_fibers' : m_fibers'[i] = x
            /\ \E i \in DOMAIN m_fibers' : m_fibers'[i] = y
            /\ \A i, j \in DOMAIN m_fibers' \ DOMAIN m_fibers :
                  m_fibers'[i] = m_fibers'[j] => i = j
        BY <4>1, PushedTwo
      <4>3. QED
        BY <4>2 DEF x, y
  <2>2. \A x \in Cbs : CbTask(x, None).fiber = None /\ CbTask(x, None).cb = x
    BY DEF CbTask
  <2>3. Bodies'
    BY <1>0, <2>0, <2>1, <2>2
  <2>4. Bearers'
    <3> DEFINE S == {c, d}
    <3>1. S \subseteq Cbs /\ S \intersect scheduled = {} /\ scheduled' = scheduled \union S
      BY <2>0
    <3>2. /\ \A i \in DOMAIN m_fibers' \ DOMAIN m_fibers : m_fibers'[i].cb \in S
          /\ \A x \in S : \E i \in DOMAIN m_fibers' : m_fibers'[i].cb = x
          /\ \A i, j \in DOMAIN m_fibers' \ DOMAIN m_fibers :
                m_fibers'[i].cb = m_fibers'[j].cb => i = j
      <4>1. ASSUME NEW i \in DOMAIN m_fibers' \ DOMAIN m_fibers PROVE m_fibers'[i].cb \in S
        BY <2>1, <2>2
      <4>2. ASSUME NEW x \in S PROVE \E i \in DOMAIN m_fibers' : m_fibers'[i].cb = x
        BY <2>1, <2>2
      <4>3. ASSUME NEW i \in DOMAIN m_fibers' \ DOMAIN m_fibers,
                   NEW j \in DOMAIN m_fibers' \ DOMAIN m_fibers,
                   m_fibers'[i].cb = m_fibers'[j].cb
            PROVE  m_fibers'[i] = m_fibers'[j]
        BY <2>1, <2>2, <4>3
      <4>4. QED
        BY <2>1, <4>1, <4>2, <4>3
    <3>3. UNCHANGED <<ended, ft, m_cb, m_state>>
      BY <2>0
    <3> HIDE DEF S, Types
    <3>4. QED
      BY <1>0, <2>1, <3>1, <3>2, <3>3, BearersMore
  <2>5. ASSUME NEW f \in Live, Owned(f) PROVE Owned(f)'
    BY <2>0, <2>1, <2>5 DEF Owned, Has
  <2>6. HoldsArmed' /\ Live' = Live
    BY <1>0, <2>0 DEF Live
  <2>7. QED
    BY <1>0, <2>3, <2>4, <2>5, <2>6 DEF Callbacks, Bearers
<1>21. ASSUME NEW f \in Fibers, NEW c \in Cbs, NEW thr \in Pins, ScheduleFiber(f, c, thr)
       PROVE  Callbacks'
  <2>0. /\ Push(FiberTask(f, thr)) /\ c \notin scheduled /\ scheduled' = scheduled \union {c}
        /\ m_state[f] = "NEW"
        /\ m_state' = [m_state EXCEPT ![f] = "INIT"] /\ m_cb' = [m_cb EXCEPT ![f] = c]
        /\ UNCHANGED <<armed, bodyVars, loopVars, pc>>
    BY <1>21 DEF ScheduleFiber, Construct
  <2>1. /\ DOMAIN m_fibers \subseteq DOMAIN m_fibers'
        /\ \A i \in DOMAIN m_fibers : m_fibers'[i] = m_fibers[i]
        /\ \A i \in DOMAIN m_fibers' \ DOMAIN m_fibers : m_fibers'[i] = FiberTask(f, thr)
        /\ \E i \in DOMAIN m_fibers' : m_fibers'[i] = FiberTask(f, thr)
    BY <2>0, Pushed
  <2>2. FiberTask(f, thr).fiber = f /\ FiberTask(f, thr).cb = None
    BY DEF FiberTask
  <2>3. f \notin Live /\ Live' = Live \union {f} /\ \A g \in Live : m_cb'[g] = m_cb[g]
    BY <2>0 DEF Live
  <2>4. Bodies'
    <3>1. \A g \in Fibers : /\ m_state'[g] = IF g = f THEN "INIT" ELSE m_state[g]
                            /\ m_cb'[g] = IF g = f THEN c ELSE m_cb[g]
      BY <2>0
    <3>2. c # None /\ \A t \in Threads : ft[t].fiber # f /\ cbFiber[t] # f
      BY <2>0
    <3>3. \A i \in DOMAIN m_fibers' : m_fibers'[i].fiber # None =>
             m_fibers'[i].cb = None /\ m_cb'[m_fibers'[i].fiber] # None
      <4>1. \A i \in DOMAIN m_fibers : m_fibers[i].fiber # None => m_fibers[i].fiber \in Fibers
        OBVIOUS
      <4>2. ASSUME NEW i \in DOMAIN m_fibers, m_fibers[i].fiber # None
            PROVE  m_fibers[i].cb = None /\ m_cb'[m_fibers[i].fiber] # None
        BY <1>0, <3>1, <3>2, <4>1, <4>2
      <4>3. m_cb'[f] # None
        BY <3>1, <3>2
      <4>4. QED
        BY <2>1, <2>2, <4>2, <4>3
    <3>4. \A g \in Fibers : /\ m_state'[g] \in {"EXEC", "HOLD", "READY"} => m_cb'[g] # None
                            /\ m_state'[g] = "NEW" => m_cb'[g] = None
      BY <1>0, <3>1, <3>2
    <3>5. \A t \in Threads :
             /\ ft[t].fiber # None \/ pc[t] # "dispatch" => ft[t].cb = None
             /\ pc[t] = "dispatch" /\ ft[t].fiber # None => m_cb'[ft[t].fiber] # None
             /\ cbFiber[t] # None /\ (pc[t] \notin InTask \/ ft[t].fiber # None) =>
                   m_cb'[cbFiber[t]] = None
      BY <1>0, <3>1, <3>2
    <3>6. QED
      BY <2>0, <3>3, <3>4, <3>5
  <2>5. Bearers'
    <3>1. UNCHANGED <<ended, ft>> /\ m_cb'[f] = c
      BY <2>0
    <3>2. \A i \in DOMAIN m_fibers' \ DOMAIN m_fibers : m_fibers'[i].cb = None
      BY <2>1, <2>2
    <3> HIDE DEF Types
    <3>3. QED
      BY <1>0, <2>0, <2>1, <2>3, <3>1, <3>2, BearersBorn
  <2>6. ASSUME NEW g \in Live, Owned(g) PROVE Owned(g)'
    BY <2>0, <2>1, <2>6 DEF Owned, Has
  <2>7. Owned(f)'
    BY <2>1, <2>2 DEF Owned
  <2>8. HoldsArmed'
    BY <1>0, <2>0
  <2>9. QED
    BY <1>0, <2>3, <2>4, <2>5, <2>6, <2>7, <2>8 DEF Callbacks, Bearers
<1>22. ASSUME NEW f \in Fibers, ScheduleAgain(f) PROVE Callbacks'
  BY <1>22 DEF ScheduleAgain
<1>23. ASSUME NEW t \in Threads, Fetch(t) PROVE Callbacks'
  <2>0. PICK i \in DOMAIN m_fibers : IsFirst(t, i) /\ Take(t, i)
    BY <1>23 DEF Fetch
  <2>1. /\ ft' = [ft EXCEPT ![t] = m_fibers[i]] /\ m_fibers' = RemoveAt(m_fibers, i)
        /\ pc[t] = "fetch" /\ pc' = [pc EXCEPT ![t] = "dispatch"]
        /\ UNCHANGED <<scheduled, ended, fiberVars, cbFiber>>
    BY <1>23, <2>0 DEF Fetch, Take, Goto
  <2>2. PICK F \in [DOMAIN m_fibers' -> DOMAIN m_fibers \ {i}] :
           /\ \A j \in DOMAIN m_fibers' : m_fibers'[j] = m_fibers[F[j]]
           /\ \A j, k \in DOMAIN m_fibers' : F[j] = F[k] => j = k
           /\ \A k \in DOMAIN m_fibers \ {i} : \E j \in DOMAIN m_fibers' : F[j] = k
    <3> HIDE DEF Types
    <3> QED BY <2>1, Pulled
  <2>3. Bodies'
    <3>1. /\ ft'[t] = m_fibers[i] /\ pc'[t] = "dispatch" /\ m_fibers[i] \in Task
          /\ \A u \in Threads : u # t => ft'[u] = ft[u] /\ pc'[u] = pc[u]
      BY <2>1
    <3>2. \A j \in DOMAIN m_fibers' : m_fibers'[j].fiber # None =>
             m_fibers'[j].cb = None /\ m_cb[m_fibers'[j].fiber] # None
      BY <1>0, <2>2
    <3>3. \A u \in Threads :
             /\ ft'[u].fiber # None \/ pc'[u] # "dispatch" => ft'[u].cb = None
             /\ pc'[u] = "dispatch" /\ ft'[u].fiber # None => m_cb[ft'[u].fiber] # None
             /\ cbFiber[u] # None /\ (pc'[u] \notin InTask \/ ft'[u].fiber # None) =>
                   m_cb[cbFiber[u]] = None
      BY <1>0, <2>1, <3>1
    <3>4. QED
      BY <1>0, <2>1, <3>2, <3>3
  <2>4. Bearers'
    <3>1. ft[t].cb = None /\ UNCHANGED <<scheduled, ended, m_cb, m_state>>
      BY <1>0, <2>1
    <3> HIDE DEF Types
    <3>2. QED
      BY <1>0, <2>1, <3>1, BearersTaken
  <2>5. ASSUME NEW f \in Live, Owned(f) PROVE Owned(f)'
    <3>1. ASSUME NEW j \in DOMAIN m_fibers, m_fibers[j].fiber = f PROVE Owned(f)'
      <4>1. CASE j = i
        BY <2>1, <3>1, <4>1 DEF Owned, Has
      <4>2. CASE j # i
        BY <2>2, <3>1, <4>2 DEF Owned
      <4>3. QED
        BY <4>1, <4>2
    <3>2. ASSUME NEW u \in Threads, Has(u, f) PROVE Has(u, f)'
      BY <2>1, <3>2 DEF Has
    <3>3. QED
      BY <2>1, <2>5, <3>1, <3>2 DEF Owned
  <2>6. HoldsArmed' /\ Live' = Live
    BY <1>0, <2>1 DEF Live
  <2>7. QED
    BY <1>0, <2>3, <2>4, <2>5, <2>6 DEF Callbacks, Bearers
<1>24. ASSUME NEW t \in Threads, NEW f \in Fibers, DispatchCb(t, f) PROVE Callbacks'
  <2>0. f \notin Live /\ Live' = Live \union {f} /\ \A g \in Live : m_cb'[g] = m_cb[g]
    BY <1>0, <1>24 DEF DispatchCb, CarrierFor, Live
  <2>1. Bodies'
    BY <1>0, <1>24, <2>0 DEF DispatchCb, CarrierFor, Goto
  <2>2. Bearers'
    <3>1. /\ ft[t].cb # None /\ ft' = [ft EXCEPT ![t] = NoTask] /\ m_cb'[f] = ft[t].cb
          /\ UNCHANGED <<m_fibers, scheduled, ended>>
      BY <1>24 DEF DispatchCb
    <3>2. QED
      BY <1>0, <2>0, <3>1, BearersEntered
  <2>3. ASSUME NEW g \in Live, Owned(g) PROVE Owned(g)'
    <3>1. ASSUME NEW u \in Threads, Has(u, g) PROVE u # t /\ Has(u, g)'
      <4>1. u # t
        BY <1>24, <3>1 DEF DispatchCb, Has, Live
      <4>2. ft'[u] = ft[u] /\ cbFiber'[u] = cbFiber[u] /\ pc'[u] = pc[u]
        BY <1>24, <4>1 DEF DispatchCb, Goto
      <4>3. QED
        BY <3>1, <4>1, <4>2 DEF Has
    <3>2. QED
      BY <1>24, <2>3, <3>1 DEF DispatchCb, Owned
  <2>4. Owned(f)'
    BY <1>24 DEF DispatchCb, Goto, Owned, Has
  <2>5. HoldsArmed'
    BY <1>0, <1>24 DEF DispatchCb, CarrierFor, Goto
  <2>6. QED
    BY <1>0, <2>0, <2>1, <2>2, <2>3, <2>4, <2>5 DEF Callbacks, Bearers
<1>25. ASSUME NEW t \in Threads, Requeue(t) PROVE Callbacks'
  <2> DEFINE f == Cur(t)
  <2>0. /\ pc[t] = "requeue" /\ Push(FiberTask(f, None))
        /\ LetGo(t) /\ UNCHANGED <<scheduled, ended, fiberVars>>
        /\ f \in Fibers /\ m_cb[f] # None
    BY <1>0, <1>25 DEF Requeue
  <2>1. /\ DOMAIN m_fibers \subseteq DOMAIN m_fibers'
        /\ \A i \in DOMAIN m_fibers : m_fibers'[i] = m_fibers[i]
        /\ \A i \in DOMAIN m_fibers' \ DOMAIN m_fibers : m_fibers'[i] = FiberTask(f, None)
        /\ \E i \in DOMAIN m_fibers' : m_fibers'[i] = FiberTask(f, None)
    BY <2>0, Pushed
  <2>2. FiberTask(f, None).fiber = f /\ FiberTask(f, None).cb = None
    BY DEF FiberTask
  <2>3. Live' = Live /\ \A u \in Threads : ft'[u].cb = ft[u].cb
    BY <1>0, <2>0 DEF LetGo, Live
  <2>4. Bodies'
    <3>1. \A i \in DOMAIN m_fibers' : m_fibers'[i].fiber # None =>
             m_fibers'[i].cb = None /\ m_cb[m_fibers'[i].fiber] # None
      <4>1. \A i \in DOMAIN m_fibers : m_fibers[i].fiber # None =>
               m_fibers[i].cb = None /\ m_cb[m_fibers[i].fiber] # None
        BY <1>0
      <4> HIDE DEF f
      <4>2. QED
        BY <2>0, <2>1, <2>2, <4>1
    <3>2. /\ ft'[t] = NoTask /\ pc'[t] = "fetch"
          /\ cbFiber'[t] = IF ft[t].fiber # None THEN cbFiber[t] ELSE None
          /\ \A u \in Threads : u # t =>
                ft'[u] = ft[u] /\ pc'[u] = pc[u] /\ cbFiber'[u] = cbFiber[u]
      BY <2>0 DEF LetGo, Goto
    <3>3. QED
      BY <1>0, <2>0, <3>1, <3>2
  <2>5. Bearers'
    BY <1>0, <2>0, <2>1, <2>2, <2>3, BearersSame
  <2>6. ASSUME NEW g \in Live, Owned(g) PROVE Owned(g)'
    <3>1. CASE g = f
      BY <2>1, <2>2, <3>1 DEF Owned
    <3>2. CASE g # f
      <4>1. ASSUME NEW u \in Threads, Has(u, g) PROVE u # t /\ Has(u, g)'
        BY <2>0, <3>2, <4>1 DEF LetGo, Goto, Has
      <4>2. QED
        BY <2>0, <2>1, <2>6, <4>1 DEF Owned
    <3>3. QED
      BY <3>1, <3>2
  <2>7. HoldsArmed'
    BY <1>0, <2>0 DEF LetGo, Goto
  <2>8. QED
    BY <1>0, <2>3, <2>4, <2>5, <2>6, <2>7 DEF Callbacks, Bearers
<1>26. ASSUME NEW t \in Threads, NEW f \in Fibers, Wake(t, f) PROVE Callbacks'
  <2>0. /\ Push(FiberTask(f, None)) /\ armed[f] /\ armed' = [armed EXCEPT ![f] = FALSE]
        /\ UNCHANGED <<scheduled, ended, m_state, m_cb, saved, loopVars, pc>>
    BY <1>26 DEF Wake
  <2>1. ASSUME NEW u \in Threads PROVE Cur(u) # f
    <3>1. CASE WakeParkedOnly
      BY <1>26, <3>1 DEF Wake
    <3>2. CASE u = t
      BY <1>26, <3>2 DEF Wake
    <3>3. QED
      BY <3>1, <3>2 DEF Discipline
  <2>2. m_cb[f] # None
    BY <1>0, <2>0, <2>1
  <2>3. /\ DOMAIN m_fibers \subseteq DOMAIN m_fibers'
        /\ \A i \in DOMAIN m_fibers : m_fibers'[i] = m_fibers[i]
        /\ \A i \in DOMAIN m_fibers' \ DOMAIN m_fibers : m_fibers'[i] = FiberTask(f, None)
        /\ \E i \in DOMAIN m_fibers' : m_fibers'[i] = FiberTask(f, None)
    BY <2>0, Pushed
  <2>4. FiberTask(f, None).fiber = f /\ FiberTask(f, None).cb = None
    BY DEF FiberTask
  <2>5. Live' = Live
    BY <2>0 DEF Live
  <2>6. Bodies'
    BY <1>0, <2>0, <2>2, <2>3, <2>4
  <2>7. Bearers'
    BY <1>0, <2>0, <2>3, <2>4, <2>5, BearersSame
  <2>8. ASSUME NEW g \in Live, Owned(g) PROVE Owned(g)'
    <3>1. CASE g = f
      BY <2>3, <2>4, <3>1 DEF Owned
    <3>2. CASE g # f
      BY <2>0, <2>3, <2>8, <3>2 DEF Owned, Has
    <3>3. QED
      BY <3>1, <3>2
  <2>9. HoldsArmed'
    BY <1>0, <2>0, <2>1
  <2>10. QED
    BY <1>0, <2>5, <2>6, <2>7, <2>8, <2>9 DEF Callbacks, Bearers
<1>27. CASE Main
  <2>1. /\ UNCHANGED <<m_fibers, scheduled, ended, fiberVars, loopVars>>
        /\ \A t \in Threads :
              pc'[t] = pc[t] \/ (pc[t] = "off" /\ pc'[t] = "fetch")
    BY <1>27, ThreadAssumption DEF MainOrder, MainLabels, Main, StopCall, Start,
         Stop, StopPending, StopLocked, CallRoot, RootBack, Join, Goto
  <2>2. Live' = Live
    BY <2>1 DEF Live
  <2>3. Bodies'
    BY <1>0, <2>1
  <2>4. Bearers'
    BY <1>0, <2>1, <2>2, BearersSame
  <2>5. ASSUME NEW f \in Live, Owned(f) PROVE Owned(f)'
    BY <2>1, <2>5 DEF Owned, Has
  <2>6. HoldsArmed'
    BY <1>0, <2>1
  <2>7. QED
    BY <1>0, <2>2, <2>3, <2>4, <2>5, <2>6 DEF Callbacks, Bearers
<1>28. CASE UNCHANGED vars
  BY <1>0, <1>28 DEF vars, Callbacks, Unended, BorneOnce, NoneLost, Somewhere, Owned, Has, Live
<1>29. QED
  BY <1>1, <1>2, <1>3, <1>4, <1>5, <1>6, <1>7, <1>8, <1>9, <1>10, <1>11,
     <1>12, <1>13, <1>14, <1>15, <1>16, <1>17, <1>18, <1>19, <1>20, <1>21,
     <1>22, <1>23, <1>24, <1>25, <1>26, <1>27, <1>28
  DEF Next, Schedules, ThreadStep, Choose, Dispatch, Body, After, Idle, Terminated

\* Where the callbacks are, as an invariant of the specification.
LEMMA CallbacksInvariant ==
    ASSUME Discipline
    PROVE  Spec => [](Types /\ MainOrder /\ Exclusive /\ Callbacks)
<1> DEFINE Inv == Types /\ MainOrder /\ Exclusive /\ Callbacks
<1>1. Init => Inv
  BY TypesInit, MainOrderInit, ExclusiveInit, CallbacksInit
<1>2. Inv /\ [Next]_vars => Inv'
  BY TypesStep, MainOrderStep, ExclusiveStep, CallbacksStep
<1> QED BY <1>1, <1>2, PTL DEF Spec

\* Under the discipline a callback comes to its end at most once, and only one that was
\* scheduled does, whatever fibers it is carried by and however often it has waited.
THEOREM EndsOnce ==
    ASSUME Discipline
    PROVE  Spec => EndedOnce
<1> DEFINE Ends == \A t \in Threads :
                      LET f == running[t] IN
                      pc[t] = "exec" /\ pc'[t] = "swap" /\ m_state'[f] \in Over =>
                          m_cb[f] \in scheduled \ ended
<1>1. Types /\ Exclusive /\ Callbacks => [Ends]_vars
  <2> SUFFICES ASSUME Types, Exclusive, Callbacks, NEW t \in Threads, pc[t] = "exec"
               PROVE  m_cb[running[t]] \in scheduled \ ended
    OBVIOUS
  <2>1. running[t] \in Fibers /\ m_state[running[t]] = "EXEC"
    BY NoneAssumption DEF Exclusive, RunsCur, LabelState, OnStack, InTask, Types
  <2>2. running[t] \in Live
    BY <2>1 DEF Callbacks, Bodies, Live, Over
  <2>3. QED
    BY <2>2 DEF Callbacks, Unended
<1>2. Spec => [][Ends]_vars
  BY <1>1, CallbacksInvariant, PTL
<1>3. QED
  BY <1>2 DEF EndedOnce

\* Nor is a callback lost: until it has ended it is in the list, in the hands of a thread,
\* or the body of a fiber, and that fiber is in the list, with a thread, or registered
\* with an event or a timer that will schedule it.
THEOREM NoCallbackLost ==
    ASSUME Discipline
    PROVE  Spec => [](NoneLost /\ LiveOwned)
<1>1. Callbacks => NoneLost /\ LiveOwned
  BY DEF Callbacks
<1> QED BY <1>1, CallbacksInvariant, PTL

-----------------------------------------------------------------------------
(* A single thread, and why stop() leaves no task behind *)

\* Once the thread's idle function has returned, or stop() has found nothing to do, the
\* list is empty, nobody waits for an event, and nobody is left who could change that.
Drained == m_fibers = <<>> /\ NothingPending /\ m_autoStop

Leaving ==
    /\ m_autoStop => mainPc \notin {"new", "up"}
    /\ mainPc = "checkLock" => NothingPending
    /\ mainPc \in {"check", "checkLock"} => UseCaller
    /\ \A t \in Threads :
          /\ pc[t] = "idleStop" => NothingPending
          /\ idleTerm[t] =>
                /\ Drained
                /\ pc[t] \in {"idleRet", "fetch", "dispatch", "exited"}
                /\ pc[t] = "dispatch" => ft[t] = NoTask
          /\ pc[t] = "exited" => idleTerm[t]
          /\ mainPc \in {"join", "done"} /\ UseCaller =>
                pc[t] = "exited" \/ (pc[t] = "off" /\ Drained)
          /\ mainPc = "done" /\ ~ UseCaller => pc[t] = "exited"

LEMMA LeavingInit == Init => Leaving
  BY DEF Init, Leaving

LEMMA LeavingStep ==
    ASSUME \A t, u \in Threads : t = u, Types, MainOrder, Exclusive, Leaving, [Next]_vars
    PROVE  Leaving'
<1> USE DEF Types, Leaving, Drained, NothingPending, MainOrder, taskVars, fiberVars, bodyVars,
        loopVars, idleVars, mainVars, MainLabels
<1>0. UseCaller => Threads = {Caller}
  BY ThreadAssumption DEF Threads
<1>1. CASE Schedules
  <2>1. MaySchedule /\ UNCHANGED <<armed, ft, idleTerm, mainVars, pc>>
    BY <1>1 DEF Schedules, ScheduleCb, ScheduleRange, ScheduleFiber, Construct, ScheduleAgain
  <2>2. ByOwner \/ \E t \in Threads : pc[t] = "exec"
    BY <2>1 DEF MaySchedule
  <2>3. ~ m_autoStop \/ \A t \in Threads : pc[t] = "exec"
    BY <2>2 DEF ByOwner
  <2>4. ~ Drained \/ \A t \in Threads : pc[t] = "exec"
    BY <2>3
  <2>5. \A t \in Threads : ~ idleTerm[t] \/ pc[t] = "exec"
    BY <2>4
  <2>6. QED
    BY <2>1, <2>2, <2>3, <2>4, <2>5
<1>2. ASSUME NEW t \in Threads, Choose(t) PROVE Leaving'
  BY <1>0, <1>2 DEF Choose, Fetch, FetchNone, Take, Goto
<1>3. ASSUME NEW t \in Threads, Dispatch(t) PROVE Leaving'
  BY <1>0, <1>3, NoneAssumption
  DEF Dispatch, DispatchFiber, DispatchCb, DispatchDropped, DispatchExit, DispatchIdle, Goto, NoTask
<1>4. ASSUME NEW t \in Threads, Body(t) PROVE Leaving'
  BY <1>0, <1>4
  DEF Body, Arm, YieldToHold, YieldToReady, Yield, Return, Throw, Goto
<1>5. ASSUME NEW t \in Threads, After(t) PROVE Leaving'
  BY <1>0, <1>5
  DEF After, SwapOut, Dec, SettleOver, SettleWaiting, Requeue, Hold, LetGo, Push, Goto
<1>6. ASSUME NEW t \in Threads, Idle(t) PROVE Leaving'
  BY <1>0, <1>6 DEF Idle, IdlePending, IdleStopping, IdleRet, Stopping, Goto
<1>7. ASSUME NEW t \in Threads, NEW f \in Fibers, Wake(t, f) PROVE Leaving'
  BY <1>0, <1>7 DEF Wake, Push
<1>8. CASE Main
  BY <1>0, <1>8, ThreadAssumption
  DEF Main, StopCall, Start, Stop, StopPending, StopLocked, CallRoot, Stopping, RootBack, Join,
      Goto, Threads
<1>9. CASE UNCHANGED vars
  BY <1>9 DEF vars
<1>10. QED
  BY <1>1, <1>2, <1>3, <1>4, <1>5, <1>6, <1>7, <1>8, <1>9 DEF Next, ThreadStep, Terminated

\* Then every callback has ended and every fiber is over, unused or never was.
LEMMA LeavingUse ==
    ASSUME \A t, u \in Threads : t = u, Types, Exclusive, Callbacks, Leaving
    PROVE  NoTaskStranded
<1> SUFFICES ASSUME mainPc = "done"
             PROVE  /\ m_fibers = <<>> /\ scheduled = ended
                    /\ \A f \in Fibers : m_state[f] \in Over \union {"NEW", "INIT"}
  BY DEF NoTaskStranded, FibersDestroyable
<1>1. PICK t \in Threads : \A u \in Threads : u = t
  BY ThreadAssumption
<1>2. Drained /\ pc[t] \in {"exited", "off"}
  BY DEF Leaving, SwitchAssumption
<1>3. m_fibers = <<>> /\ \A f \in Fibers : ~ armed[f]
  BY <1>2 DEF Drained, NothingPending
<1>4. \A f \in Fibers : ~ Owned(f)
  BY <1>1, <1>2, <1>3 DEF Owned, Has, InTask, OnStack
<1>5. Live = {}
  BY <1>4 DEF Callbacks, LiveOwned, Live
<1>6. \A c \in scheduled \ ended : FALSE
  <2> SUFFICES ASSUME NEW c \in scheduled \ ended PROVE FALSE
    OBVIOUS
  <2>1. Somewhere(c) /\ c # None
    BY NoneAssumption DEF Callbacks, NoneLost, Types
  <2>2. ft[t].cb = None
    BY <1>2 DEF Callbacks, Bodies
  <2>3. QED
    BY <1>1, <1>3, <1>5, <2>1, <2>2 DEF Somewhere
<1>7. scheduled = ended
  BY <1>6 DEF Callbacks, Unended
<1>8. \A f \in Fibers : m_state[f] \in Over \union {"NEW", "INIT"}
  BY <1>5 DEF Live, Callbacks, Bodies, Types, State, Over
<1>9. QED
  BY <1>3, <1>7, <1>8

\* With one thread, the caller of stop() or a worker, and no fiber scheduled twice, stop()
\* leaves nothing behind: the list is empty, every scheduled callback has ended and every
\* fiber may be destroyed.
THEOREM NothingStranded ==
    ASSUME ~ MayRepeat, \A t, u \in Threads : t = u
    PROVE  Spec => []NoTaskStranded
<1> DEFINE Inv == (Types /\ MainOrder /\ Exclusive /\ Callbacks) /\ Leaving
<1>1. Discipline
  BY DEF Discipline
<1>2. Types /\ MainOrder /\ Exclusive /\ Leaving /\ [Next]_vars => Leaving'
  BY LeavingStep
<1>3. Spec => [](Types /\ MainOrder /\ Exclusive /\ Callbacks)
  BY <1>1, CallbacksInvariant
<1>4. Types /\ Exclusive /\ Callbacks /\ Leaving => NoTaskStranded
  BY LeavingUse
<1> QED BY <1>2, <1>3, <1>4, LeavingInit, PTL DEF Spec
================================================================================
