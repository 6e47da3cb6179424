---------------------------- MODULE FdEventsProofs ----------------------------
(***************************************************************************)
(* Proofs about FdEvents, for any number of descriptors, waiters and idle  *)
(* threads, and whether or not events are cancelled, descriptors closed or *)
(* connections hung up.                                                    *)
(***************************************************************************)
EXTENDS FdEvents, FiniteSetTheorems, TLAPS

-----------------------------------------------------------------------------
(* Types *)

\* An IOManager without registrations has well-typed variables.
LEMMA TypesInit == Init => Types
<1> SUFFICES ASSUME Init PROVE Types
  OBVIOUS
<1>1. /\ events \in [Fds -> SUBSET Event]
      /\ context \in [Fds -> [Event -> Waiters \union {None}]]
      /\ m_pendingEventCount \in Int
      /\ registered \in SUBSET Fds /\ edge \in SUBSET Fds
      /\ mask \in [Fds -> SUBSET Event]
      /\ ready \in [Fds -> SUBSET (Event \union {"HUP"})]
  BY DEF Init
<1>2. /\ batch \in [Idlers -> SUBSET [fd : Fds, evs : SUBSET (Event \union {"HUP"})]]
      /\ wstate \in [Waiters ->
            {"fresh", "waiting", "scheduled", "dropped", "failed"}]
      /\ crashed \in BOOLEAN
  BY DEF Init
<1> QED BY <1>1, <1>2 DEF Types

\* epoll_ctl leaves the kernel's variables in their types.
LEMMA CtlTypes ==
    ASSUME Types, NEW op, NEW fd \in Fds, NEW m \in SUBSET Event, Ctl(op, fd, m)
    PROVE  /\ registered' \in SUBSET Fds
           /\ mask' \in [Fds -> SUBSET Event]
           /\ edge' \in SUBSET Fds
           /\ ready' \in [Fds -> SUBSET (Event \union {"HUP"})]
  BY DEF Types, Ctl

\* So does triggering events, with the variables of the contexts.
LEMMA TriggerTypes ==
    ASSUME Types, NEW fd \in Fds, NEW es \in SUBSET Event, Trigger(fd, es)
    PROVE  /\ events' \in [Fds -> SUBSET Event]
           /\ context' \in [Fds -> [Event -> Waiters \union {None}]]
           /\ m_pendingEventCount' \in Int
           /\ wstate' \in [Waiters ->
                 {"fresh", "waiting", "scheduled", "dropped", "failed"}]
<1>1. IsFiniteSet(Event) /\ IsFiniteSet(es)
  <2>1. IsFiniteSet({"READ"} \union {"WRITE"})
    BY FS_Singleton, FS_Union
  <2>2. Event = {"READ"} \union {"WRITE"}
    BY DEF Event
  <2> QED BY <2>1, <2>2, FS_Subset
<1>2. Cardinality(es) \in Nat
  BY <1>1, FS_CardinalityType
<1>3. context' \in [Fds -> [Event -> Waiters \union {None}]]
  BY DEF Types, Trigger
<1>4. wstate' \in [Waiters ->
                 {"fresh", "waiting", "scheduled", "dropped", "failed"}]
  BY DEF Types, Trigger
<1> QED BY <1>2, <1>3, <1>4 DEF Types, Trigger

\* Every step keeps the types.
LEMMA TypesStep == Types /\ [Next]_vars => Types'
<1> SUFFICES ASSUME Types, [Next]_vars PROVE Types'
  OBVIOUS
<1> USE DEF kernelVars, ctxVars
<1>1. ASSUME NEW fd \in Fds, NEW r \in Event \union {"HUP"},
             Arrive(fd, r) \/ Drain(fd, r)
      PROVE  Types'
  <2>1. /\ ready' \in [Fds -> SUBSET (Event \union {"HUP"})]
        /\ edge' \in SUBSET Fds
    BY <1>1 DEF Types, Arrive, Drain
  <2>2. UNCHANGED <<registered, mask, ctxVars, batch, crashed>>
    BY <1>1 DEF Arrive, Drain
  <2> QED BY <2>1, <2>2 DEF Types
<1>2. ASSUME NEW fd \in Fds, Close(fd) PROVE Types'
  BY <1>2 DEF Types, Close
<1>3. ASSUME NEW fd \in Fds, NEW e \in Used, NEW w \in Waiters, AddEvent(fd, e, w)
      PROVE  Types'
  <2>0. e \in Event
    BY EventAssumption
  <2>1. CASE wstate' = [wstate EXCEPT ![w] = "failed"]
             /\ UNCHANGED <<kernelVars, events, context, m_pendingEventCount>>
    BY <1>3, <2>1 DEF Types, AddEvent
  <2>2. CASE \E op : Ctl(op, fd, AddMask(fd, e)) /\ Register(fd, e, w)
    <3>1. AddMask(fd, e) \in SUBSET Event
      BY <2>0 DEF AddMask, Types
    <3>2. /\ events' \in [Fds -> SUBSET Event]
          /\ context' \in [Fds -> [Event -> Waiters \union {None}]]
          /\ m_pendingEventCount' \in Int
          /\ wstate' \in [Waiters ->
                {"fresh", "waiting", "scheduled", "dropped", "failed"}]
      BY <2>0, <2>2 DEF Register, Types
    <3>3. batch' = batch /\ crashed' = crashed
      BY <1>3 DEF AddEvent
    <3> QED BY <3>1, <3>2, <3>3, <2>2, CtlTypes DEF Types
  <2> QED BY <1>3, <2>1, <2>2 DEF AddEvent
<1>4. ASSUME NEW fd \in Fds, NEW e \in Used, DelEvent(fd, e) PROVE Types'
  <2>1. e \in Event /\ events[fd] \ {e} \in SUBSET Event
    BY EventAssumption DEF Types
  <2>2. /\ events' \in [Fds -> SUBSET Event]
        /\ context' \in [Fds -> [Event -> Waiters \union {None}]]
        /\ m_pendingEventCount' \in Int
        /\ wstate' \in [Waiters ->
              {"fresh", "waiting", "scheduled", "dropped", "failed"}]
        /\ batch' = batch /\ crashed' = crashed
    <3>1. /\ events' \in [Fds -> SUBSET Event]
          /\ m_pendingEventCount' \in Int
          /\ batch' = batch /\ crashed' = crashed
      BY <1>4, <2>1 DEF DelEvent, Types
    <3>2. context' \in [Fds -> [Event -> Waiters \union {None}]]
      BY <1>4, <2>1 DEF DelEvent, Types
    <3>3. wstate' = [wstate EXCEPT ![context[fd][e]] = "dropped"]
      BY <1>4 DEF DelEvent
    <3>4. wstate' \in [Waiters ->
              {"fresh", "waiting", "scheduled", "dropped", "failed"}]
      BY <3>3 DEF Types
    <3> QED BY <3>1, <3>2, <3>4
  <2> QED BY <1>4, <2>1, <2>2, CtlTypes DEF DelEvent, Types
<1>5. ASSUME NEW fd \in Fds, NEW e \in Used, CancelEvent(fd, e) PROVE Types'
  <2>1. {e} \in SUBSET Event /\ events[fd] \ {e} \in SUBSET Event
    BY EventAssumption DEF Types
  <2> QED BY <1>5, <2>1, CtlTypes, TriggerTypes DEF CancelEvent, Types
<1>6. ASSUME NEW fd \in Fds, CancelAll(fd) PROVE Types'
  <2>1. {} \in SUBSET Event /\ events[fd] \in SUBSET Event
    BY DEF Types
  <2> QED BY <1>6, <2>1, CtlTypes, TriggerTypes DEF CancelAll, Types
<1>7. ASSUME NEW t \in Idlers, NEW fds \in SUBSET edge, EpollWait(t, fds)
      PROVE  Types'
  <2>1. \A fd \in Fds : Report(fd, mask[fd], ready[fd]) \in SUBSET (Event \union {"HUP"})
    BY DEF Types, Report
  <2>2. fds \subseteq Fds
    BY DEF Types
  <2>3. batch' \in [Idlers -> SUBSET [fd : Fds, evs : SUBSET (Event \union {"HUP"})]]
    BY <1>7, <2>1, <2>2 DEF Types, EpollWait
  <2> QED BY <1>7, <2>3 DEF Types, EpollWait
<1>8. ASSUME NEW t \in Idlers, NEW ev \in batch[t],
             HandleNothing(t, ev) \/ Handle(t, ev)
      PROVE  Types'
  <2>1. batch' \in [Idlers -> SUBSET [fd : Fds, evs : SUBSET (Event \union {"HUP"})]]
    BY <1>8 DEF Types, HandleNothing, Handle
  <2>2. ev \in [fd : Fds, evs : SUBSET (Event \union {"HUP"})]
    BY DEF Types
  <2>3. RealEvents(ev.evs) \in SUBSET (Event \union {"HUP"}) /\ ev.fd \in Fds
    BY <2>2 DEF RealEvents
  <2>4. CASE UNCHANGED <<kernelVars, ctxVars>> /\ crashed' \in BOOLEAN
    BY <2>1, <2>4 DEF Types
  <2>5. CASE /\ \E op : Ctl(op, ev.fd, events[ev.fd] \ RealEvents(ev.evs))
             /\ RealEvents(ev.evs) \subseteq events[ev.fd]
             /\ Trigger(ev.fd, RealEvents(ev.evs))
             /\ UNCHANGED crashed
    <3>1. /\ events[ev.fd] \ RealEvents(ev.evs) \in SUBSET Event
          /\ RealEvents(ev.evs) \in SUBSET Event
      BY <2>3, <2>5 DEF Types
    <3> QED BY <2>1, <2>3, <2>5, <3>1, CtlTypes, TriggerTypes, ZenonT(40) DEF Types
  <2> QED BY <1>8, <2>4, <2>5 DEF HandleNothing, Handle, Types
<1>9. CASE UNCHANGED vars
  BY <1>9 DEF Types, vars
<1> QED
  BY <1>1, <1>2, <1>3, <1>4, <1>5, <1>6, <1>7, <1>8, <1>9
  DEF Next, Task, Kernel, IdleStep

-----------------------------------------------------------------------------
(* The number of registrations *)

\* Both events, and so any set of them, are finitely many; so are the
\* registrations.
LEMMA FiniteEvents ==
    ASSUME Types
    PROVE  /\ \A es \in SUBSET Event : IsFiniteSet(es)
           /\ IsFiniteSet(Registrations)
<1>1. IsFiniteSet(Event)
  <2>1. IsFiniteSet({"READ"} \union {"WRITE"})
    BY FS_Singleton, FS_Union
  <2>2. Event = {"READ"} \union {"WRITE"}
    BY DEF Event
  <2> QED BY <2>1, <2>2
<1>2. IsFiniteSet(Fds \X Event)
  BY <1>1, FdAssumption, FS_Product
<1> QED BY <1>1, <1>2, FS_Subset DEF Registrations

\* Taking the events es from one descriptor takes as many registrations.
LEMMA TakesRegistrations ==
    ASSUME Types, NEW fd \in Fds, NEW es \in SUBSET events[fd],
           events' = [events EXCEPT ![fd] = @ \ es]
    PROVE  /\ Cardinality(es) \in Nat
           /\ Cardinality(Registrations') = Cardinality(Registrations) - Cardinality(es)
<1> DEFINE taken == {fd} \X es
<1>1. IsFiniteSet(es) /\ IsFiniteSet(Registrations)
  BY FiniteEvents DEF Types
<1>2. Cardinality(taken) = Cardinality(es) /\ Cardinality(es) \in Nat
  <2>1. Cardinality(es) \in Nat
    BY <1>1, FS_CardinalityType
  <2>2. IsFiniteSet({fd}) /\ Cardinality({fd}) = 1
    BY FS_Singleton
  <2>3. Cardinality({fd} \X es) = Cardinality({fd}) * Cardinality(es)
    BY <1>1, <2>2, FS_Product
  <2> QED BY <2>1, <2>2, <2>3
<1>3. taken \subseteq Registrations
  BY DEF Registrations, Types
<1>4. Registrations' = Registrations \ taken
  BY DEF Registrations, Types
<1>5. Registrations \intersect taken = taken
  BY <1>3
<1>6. Cardinality(Registrations \ taken)
        = Cardinality(Registrations) - Cardinality(Registrations \intersect taken)
  BY <1>1, FS_Difference
<1> QED BY <1>2, <1>4, <1>5, <1>6

\* A new event is one registration more.
LEMMA AddsRegistration ==
    ASSUME Types, NEW fd \in Fds, NEW e \in Event, e \notin events[fd],
           events' = [events EXCEPT ![fd] = @ \union {e}]
    PROVE  Cardinality(Registrations') = Cardinality(Registrations) + 1
<1>1. Registrations' = Registrations \union {<<fd, e>>}
  BY DEF Registrations, Types
<1>2. <<fd, e>> \notin Registrations
  BY DEF Registrations
<1> QED BY <1>1, <1>2, FiniteEvents, FS_AddElement

\* At first there is no registration and the count is zero.
LEMMA PendingInit == Init => PendingExact
<1> SUFFICES ASSUME Init PROVE PendingExact
  OBVIOUS
<1>1. Registrations = {}
  BY DEF Init, Registrations
<1> QED BY <1>1, FS_EmptySet DEF Init, PendingExact

\* Every step moves the count with the registrations.
LEMMA PendingStep == Types /\ PendingExact /\ [Next]_vars => PendingExact'
<1> SUFFICES ASSUME Types, PendingExact, [Next]_vars PROVE PendingExact'
  OBVIOUS
<1> USE DEF kernelVars, ctxVars
<1>1. CASE UNCHANGED <<events, m_pendingEventCount>>
  BY <1>1 DEF PendingExact, Registrations
<1>2. ASSUME NEW fd \in Fds, NEW es \in SUBSET events[fd],
             events' = [events EXCEPT ![fd] = @ \ es],
             m_pendingEventCount' = m_pendingEventCount - Cardinality(es)
      PROVE  PendingExact'
  BY <1>2, TakesRegistrations DEF PendingExact
<1>3. ASSUME NEW fd \in Fds, NEW e \in Used, NEW w \in Waiters, AddEvent(fd, e, w)
      PROVE  PendingExact'
  <2>1. CASE Register(fd, e, w)
    <3>1. e \in Event /\ e \notin events[fd]
      BY <1>3, EventAssumption DEF AddEvent
    <3> QED BY <2>1, <3>1, AddsRegistration DEF Register, PendingExact
  <2> QED BY <1>1, <1>3, <2>1 DEF AddEvent
<1>4. ASSUME NEW fd \in Fds, NEW e \in Used, DelEvent(fd, e) PROVE PendingExact'
  <2>1. {e} \in SUBSET events[fd] /\ Cardinality({e}) = 1
    BY <1>4, FS_Singleton DEF DelEvent
  <2>2. events' = [events EXCEPT ![fd] = @ \ {e}]
    BY <1>4 DEF DelEvent
  <2>3. m_pendingEventCount' = m_pendingEventCount - 1
    BY <1>4 DEF DelEvent
  <2> QED BY <1>2, <2>1, <2>2, <2>3
<1>5. ASSUME NEW fd \in Fds, NEW e \in Used, CancelEvent(fd, e) PROVE PendingExact'
  BY <1>2, <1>5, ZenonT(40) DEF CancelEvent, Trigger
<1>6. ASSUME NEW fd \in Fds, CancelAll(fd) PROVE PendingExact'
  BY <1>2, <1>6 DEF CancelAll, Trigger
<1>7. ASSUME NEW t \in Idlers, NEW ev \in batch[t], Handle(t, ev)
      PROVE  PendingExact'
  <2>1. ev.fd \in Fds
    BY DEF Types
  <2> QED BY <1>1, <1>2, <1>7, <2>1 DEF Handle, Trigger
<1>8. ASSUME NEW t \in Idlers,
             \/ \E fds \in SUBSET edge : EpollWait(t, fds)
             \/ \E ev \in batch[t] : HandleNothing(t, ev)
      PROVE  PendingExact'
  BY <1>1, <1>8 DEF EpollWait, HandleNothing
<1>9. CASE Kernel \/ UNCHANGED vars
  BY <1>1, <1>9 DEF Kernel, Arrive, Drain, Close, vars
<1> QED
  BY <1>3, <1>4, <1>5, <1>6, <1>7, <1>8, <1>9 DEF Next, Task, IdleStep

\* m_pendingEventCount is exactly the number of registrations, so stopping()
\* sees zero only when nobody waits for an event.
THEOREM PendingCount == Spec => []PendingExact
<1>1. Init => Types /\ PendingExact
  BY TypesInit, PendingInit
<1>2. (Types /\ PendingExact) /\ [Next]_vars => (Types /\ PendingExact)'
  BY TypesStep, PendingStep
<1> QED BY <1>1, <1>2, PTL DEF Spec

\* Type correctness: being a cardinality, m_pendingEventCount never wraps below
\* zero.
THEOREM TypeCorrect == Spec => []TypeOK
<1>1. Init => Types
  BY TypesInit
<1>2. Types /\ [Next]_vars => Types'
  BY TypesStep
<1>3. Types /\ PendingExact => TypeOK
  BY FiniteEvents, FS_CardinalityType DEF PendingExact, TypeOK
<1> QED BY <1>1, <1>2, <1>3, PendingCount, PTL DEF Spec

-----------------------------------------------------------------------------
(* The waiters *)

\* At first every context is empty and nobody waits.
LEMMA KeptInit == Init => WaitersKept
<1> SUFFICES ASSUME Init PROVE WaitersKept
  OBVIOUS
<1>1. \A fd \in Fds, e \in Event : context[fd][e] = None /\ events[fd] = {}
  BY DEF Init
<1>2. \A w \in Waiters : wstate[w] = "fresh" /\ w # None
  BY FdAssumption DEF Init
<1> QED BY <1>1, <1>2 DEF WaitersKept, ContextIffEvent, WaitingInContext, OneContext

\* Storing a fresh waiter in an empty context keeps the waiters.
LEMMA KeptByRegister ==
    ASSUME Types, WaitersKept, NEW fd \in Fds, NEW e \in Event, NEW w \in Waiters,
           wstate[w] = "fresh", e \notin events[fd], Register(fd, e, w)
    PROVE  WaitersKept'
<1> USE DEF WaitersKept, Types
<1>1. w # None
  BY FdAssumption
<1>2. /\ events' \in [Fds -> SUBSET Event]
      /\ \A g \in Fds : events'[g] = IF g = fd THEN events[fd] \union {e} ELSE events[g]
  BY DEF Register
<1>3. \A g \in Fds, f \in Event :
         context'[g][f] = IF g = fd /\ f = e THEN w ELSE context[g][f]
  BY DEF Register
<1>4. \A v \in Waiters : wstate'[v] = IF v = w THEN "waiting" ELSE wstate[v]
  BY DEF Register
<1>5. \A g \in Fds, f \in Event : context[g][f] # w
  BY DEF WaitingInContext
<1>6. ContextIffEvent'
  BY <1>1, <1>2, <1>3 DEF ContextIffEvent
<1>7. context[fd][e] = None
  BY DEF ContextIffEvent
<1>8. WaitingInContext'
  <2> SUFFICES ASSUME NEW v \in Waiters
               PROVE  wstate'[v] = "waiting"
                        <=> \E g \in Fds, f \in Event : context'[g][f] = v
    BY DEF WaitingInContext
  <2>1. CASE v = w
    BY <1>3, <1>4, <2>1
  <2>2. CASE v # w
    <3>1. wstate'[v] = wstate[v] /\ v # None
      BY <1>4, <2>2, FdAssumption
    <3>2. \A g \in Fds, f \in Event : context'[g][f] = v <=> context[g][f] = v
      BY <1>3, <1>7, <2>2, <3>1
    <3> QED BY <3>1, <3>2 DEF WaitingInContext
  <2> QED BY <2>1, <2>2
<1>9. OneContext'
  BY <1>3, <1>5 DEF OneContext
<1> QED BY <1>6, <1>8, <1>9

\* Emptying the contexts of the events es, and moving exactly their waiters on,
\* keeps the waiters.
LEMMA KeptByRelease ==
    ASSUME Types, WaitersKept, NEW fd \in Fds, NEW es \in SUBSET events[fd],
           NEW s \in {"scheduled", "dropped"},
           events' = [events EXCEPT ![fd] = @ \ es],
           \A g \in Fds, f \in Event :
              context'[g][f] = IF g = fd /\ f \in es THEN None ELSE context[g][f],
           \A w \in Waiters :
              wstate'[w] = IF \E f \in es : context[fd][f] = w THEN s ELSE wstate[w]
    PROVE  WaitersKept'
<1> USE DEF WaitersKept
<1>1. \A g \in Fds : events'[g] = IF g = fd THEN events[fd] \ es ELSE events[g]
  BY DEF Types
<1>2. ContextIffEvent'
  BY <1>1 DEF ContextIffEvent
<1>3. WaitingInContext'
  <2> SUFFICES ASSUME NEW w \in Waiters
               PROVE  wstate'[w] = "waiting"
                        <=> \E g \in Fds, f \in Event : context'[g][f] = w
    BY DEF WaitingInContext
  <2>0. es \subseteq Event /\ w # None
    BY FdAssumption DEF Types
  <2>1. CASE \E f \in es : context[fd][f] = w
    <3>1. PICK f \in es : context[fd][f] = w
      BY <2>1
    <3>2. wstate'[w] # "waiting"
      BY <2>1
    <3>3. ASSUME NEW g \in Fds, NEW h \in Event, context'[g][h] = w PROVE FALSE
      BY <2>0, <3>1, <3>3 DEF OneContext
    <3> QED BY <3>2, <3>3
  <2>2. CASE ~ \E f \in es : context[fd][f] = w
    BY <2>0, <2>2 DEF WaitingInContext
  <2> QED BY <2>1, <2>2
<1>4. OneContext'
  BY DEF OneContext
<1> QED BY <1>2, <1>3, <1>4

\* triggerEvent on registered events releases their waiters, scheduled.
LEMMA KeptByTrigger ==
    ASSUME Types, WaitersKept, NEW fd \in Fds, NEW es \in SUBSET events[fd],
           Trigger(fd, es)
    PROVE  WaitersKept'
<1>1. \A g \in Fds, f \in Event :
         context'[g][f] = IF g = fd /\ f \in es THEN None ELSE context[g][f]
  BY DEF Trigger, Types
<1>2. events' = [events EXCEPT ![fd] = @ \ es]
  BY DEF Trigger
<1>3. \A w \in Waiters :
         wstate'[w] = IF \E f \in es : context[fd][f] = w THEN "scheduled" ELSE wstate[w]
  BY DEF Trigger
<1> QED BY <1>1, <1>2, <1>3, KeptByRelease

\* Every step keeps the waiters.
LEMMA KeptStep == Types /\ WaitersKept /\ [Next]_vars => WaitersKept'
<1> SUFFICES ASSUME Types, WaitersKept, [Next]_vars PROVE WaitersKept'
  OBVIOUS
<1> USE DEF kernelVars, ctxVars
<1>1. CASE UNCHANGED <<events, context, wstate>>
  BY <1>1 DEF WaitersKept, ContextIffEvent, WaitingInContext, OneContext
<1>2. ASSUME NEW fd \in Fds, NEW e \in Used, NEW w \in Waiters, AddEvent(fd, e, w)
      PROVE  WaitersKept'
  <2>1. e \in Event /\ wstate[w] = "fresh" /\ e \notin events[fd]
    BY <1>2, EventAssumption DEF AddEvent
  <2>2. CASE Register(fd, e, w)
    BY <2>1, <2>2, KeptByRegister
  <2>3. CASE /\ wstate' = [wstate EXCEPT ![w] = "failed"]
             /\ UNCHANGED <<events, context>>
    BY <2>1, <2>3
    DEF WaitersKept, ContextIffEvent, WaitingInContext, OneContext, Types
  <2> QED BY <1>2, <2>2, <2>3 DEF AddEvent
<1>3. ASSUME NEW fd \in Fds, NEW e \in Used, DelEvent(fd, e) PROVE WaitersKept'
  <2>1. e \in Event /\ {e} \in SUBSET events[fd]
    BY <1>3, EventAssumption DEF DelEvent
  <2>2. \A g \in Fds, f \in Event :
           context'[g][f] = IF g = fd /\ f \in {e} THEN None ELSE context[g][f]
    BY <1>3, <2>1 DEF DelEvent, Types
  <2>3. wstate' = [wstate EXCEPT ![context[fd][e]] = "dropped"]
    BY <1>3 DEF DelEvent
  <2>4. \A w \in Waiters :
           wstate'[w] = IF \E f \in {e} : context[fd][f] = w THEN "dropped"
                                                             ELSE wstate[w]
    BY <2>3 DEF Types
  <2>5. events' = [events EXCEPT ![fd] = @ \ {e}]
    BY <1>3 DEF DelEvent
  <2> QED BY <2>1, <2>2, <2>4, <2>5, KeptByRelease
<1>4. ASSUME NEW fd \in Fds, NEW e \in Used, CancelEvent(fd, e) PROVE WaitersKept'
  BY <1>4, KeptByTrigger DEF CancelEvent
<1>5. ASSUME NEW fd \in Fds, CancelAll(fd) PROVE WaitersKept'
  BY <1>5, KeptByTrigger DEF CancelAll
<1>6. ASSUME NEW t \in Idlers, NEW ev \in batch[t], Handle(t, ev)
      PROVE  WaitersKept'
  <2>1. ev.fd \in Fds
    BY DEF Types
  <2> QED BY <1>1, <1>6, <2>1, KeptByTrigger DEF Handle
<1>7. ASSUME NEW t \in Idlers,
             \/ \E fds \in SUBSET edge : EpollWait(t, fds)
             \/ \E ev \in batch[t] : HandleNothing(t, ev)
      PROVE  WaitersKept'
  BY <1>1, <1>7 DEF EpollWait, HandleNothing
<1>8. CASE Kernel \/ UNCHANGED vars
  BY <1>1, <1>8 DEF Kernel, Arrive, Drain, Close, vars
<1> QED
  BY <1>2, <1>3, <1>4, <1>5, <1>6, <1>7, <1>8 DEF Next, Task, IdleStep

\* Every fiber or callback given to addEvent is in exactly one context until
\* triggerEvent schedules it or delEvent drops it, and in none afterwards.
THEOREM WaitersAreKept == Spec => []WaitersKept
<1>1. Init => Types /\ WaitersKept
  BY TypesInit, KeptInit
<1>2. (Types /\ WaitersKept) /\ [Next]_vars => (Types /\ WaitersKept)'
  BY TypesStep, KeptStep
<1> QED BY <1>1, <1>2, PTL DEF Spec

-----------------------------------------------------------------------------
(* The epoll set, when descriptors are not closed while somebody waits *)

\* epoll_ctl with the mask of what is waited for afterwards.
LEMMA CtlWatches ==
    ASSUME Types, KernelWatches, NEW fd \in Fds, NEW m \in SUBSET Event,
           NEW op, Ctl(op, fd, m), op = "DEL" => m = {},
           events' = [events EXCEPT ![fd] = m]
    PROVE  KernelWatches'
<1>1. \A g \in Fds : events'[g] = IF g = fd THEN m ELSE events[g]
  BY DEF Types
<1>2. \A g \in Fds \ {fd} : mask'[g] = mask[g] /\ (g \in registered' <=> g \in registered)
  BY DEF Types, Ctl
<1>3. op # "DEL" => fd \in registered' /\ mask'[fd] = m
  BY DEF Types, Ctl
<1> QED BY <1>1, <1>2, <1>3 DEF KernelWatches

\* And with that mask a report that is due is made again.
LEMMA CtlReports ==
    ASSUME Types, ReportInFlight, ~ crashed, NEW fd \in Fds, NEW m \in SUBSET Event,
           NEW op, Ctl(op, fd, m), op = "DEL" => m = {},
           events' = [events EXCEPT ![fd] = m],
           \A t \in Idlers : \A ev \in batch[t] : ev.fd = fd \/ ev \in batch'[t]
    PROVE  ReportInFlight'
<1> SUFFICES ASSUME NEW g \in Fds, NEW e \in events'[g] \intersect ready'[g]
             PROVE  InFlight(g, e)'
  BY DEF ReportInFlight
<1>1. ready' = ready
  BY DEF Ctl
<1>2. CASE g = fd
  <2>1. e \in m /\ e \in ready[fd]
    BY <1>1, <1>2 DEF Types
  <2>2. op # "DEL" /\ Report(fd, m, ready[fd]) # {}
    BY <2>1 DEF Report
  <2> QED BY <1>2, <2>2 DEF Ctl, InFlight
<1>3. CASE g # fd
  <2>1. e \in events[g] \intersect ready[g]
    BY <1>1, <1>3 DEF Types
  <2>2. InFlight(g, e)
    BY <2>1 DEF ReportInFlight
  <2>3. g \in edge => g \in edge'
    BY <1>3 DEF Ctl
  <2> QED BY <1>3, <2>2, <2>3 DEF InFlight
<1> QED BY <1>2, <1>3

\* Under the assumption that descriptors are not closed, every operation and
\* every thread that handles reports keeps the epoll set up to date, and no
\* report is taken away from a waiter.
LEMMA WatchStep ==
    ASSUME ~ MayClose
    PROVE  Types /\ KernelWatches /\ ReportInFlight /\ [Next]_vars
             => KernelWatches' /\ ReportInFlight'
<1> SUFFICES ASSUME Types, KernelWatches, ReportInFlight, [Next]_vars
             PROVE  KernelWatches' /\ ReportInFlight'
  OBVIOUS
<1> DEFINE Goal == KernelWatches' /\ ReportInFlight'
<1> USE DEF kernelVars, ctxVars
<1>0. CASE crashed
  BY <1>0 DEF Next, vars, KernelWatches, ReportInFlight, InFlight
<1> SUFFICES ASSUME ~ crashed PROVE Goal
  BY <1>0
<1>1. CASE UNCHANGED <<events, kernelVars, batch>>
  BY <1>1 DEF KernelWatches, ReportInFlight, InFlight
<1>2. ASSUME NEW fd \in Fds, NEW e \in Used, NEW w \in Waiters, AddEvent(fd, e, w)
      PROVE  Goal
  <2>1. CASE UNCHANGED <<kernelVars, events>>
    BY <1>1, <1>2, <2>1 DEF AddEvent
  <2>2. ASSUME NEW op \in {"MOD", "ADD"}, Ctl(op, fd, AddMask(fd, e)),
               Register(fd, e, w)
        PROVE  Goal
    <3>1. /\ AddMask(fd, e) \in SUBSET Event /\ op # "DEL"
          /\ events' = [events EXCEPT ![fd] = AddMask(fd, e)]
          /\ batch' = batch
      BY <1>2, <2>2, EventAssumption DEF AddMask, Types, Register, AddEvent
    <3> QED BY <2>2, <3>1, CtlWatches, CtlReports
  <2> QED BY <1>2, <2>1, <2>2 DEF AddEvent
<1>3. ASSUME NEW fd \in Fds, NEW e \in Used, DelEvent(fd, e) \/ CancelEvent(fd, e)
      PROVE  Goal
  <2>1. /\ events[fd] \ {e} \in SUBSET Event /\ batch' = batch
        /\ events' = [events EXCEPT ![fd] = events[fd] \ {e}]
        /\ Ctl("MOD", fd, events[fd] \ {e})
    BY <1>3 DEF DelEvent, CancelEvent, Trigger, Types, WithdrawOp
  <2> QED BY <2>1, CtlWatches, CtlReports
<1>4. ASSUME NEW fd \in Fds, CancelAll(fd) PROVE Goal
  <2>1. /\ {} \in SUBSET Event /\ batch' = batch /\ Ctl("DEL", fd, {})
        /\ events' = [events EXCEPT ![fd] = {}]
    BY <1>4 DEF CancelAll, Trigger, Types
  <2> QED BY <2>1, CtlWatches, CtlReports
<1>5. ASSUME NEW t \in Idlers, NEW ev \in batch[t], Handle(t, ev) PROVE Goal
  <2> DEFINE fd == ev.fd
             real == RealEvents(ev.evs)
             left == events[fd] \ real
  <2>1. fd \in Fds /\ left \in SUBSET Event
    BY DEF Types
  <2>2. events[fd] # {} /\ events[fd] \intersect real # {}
    BY <1>5 DEF Handle
  <2>3. CtlWorks(HandleOp(left), fd)
    BY <2>1, <2>2 DEF KernelWatches, CtlWorks, HandleOp
  <2>4. CASE crashed' = TRUE /\ UNCHANGED <<kernelVars, ctxVars>>
    BY <2>4 DEF KernelWatches, ReportInFlight
  <2>5. CASE Ctl(HandleOp(left), fd, left) /\ Trigger(fd, real)
    <3>1. events' = [events EXCEPT ![fd] = left]
      BY <2>5 DEF Trigger
    <3>2. \A u \in Idlers : \A x \in batch[u] : x.fd = fd \/ x \in batch'[u]
      BY <1>5 DEF Handle, Types
    <3>3. HandleOp(left) = "DEL" => left = {}
      BY DEF HandleOp
    <3> HIDE DEF left, real, fd
    <3> QED BY <2>1, <2>5, <3>1, <3>2, <3>3, CtlWatches, CtlReports
  <2> QED BY <1>5, <2>3, <2>4, <2>5 DEF Handle
<1>6. ASSUME NEW t \in Idlers, NEW fds \in SUBSET edge, EpollWait(t, fds)
      PROVE  Goal
  <2>1. KernelWatches'
    BY <1>6 DEF EpollWait, KernelWatches
  <2>2. ASSUME NEW g \in Fds, NEW e \in events'[g] \intersect ready'[g]
        PROVE  InFlight(g, e)'
    <3>1. e \in events[g] /\ e \in ready[g] /\ mask[g] = events[g]
      BY <1>6, <2>2 DEF EpollWait, KernelWatches
    <3>2. CASE g \in fds
      <4> DEFINE rep == Report(g, mask[g], ready[g])
      <4>1. e \in rep
        BY <3>1 DEF Report
      <4>2. [fd |-> g, evs |-> rep] \in batch'[t]
        BY <1>6, <3>2, <4>1 DEF EpollWait, Types
      <4>3. e \in RealEvents(rep)
        BY <3>1, <4>1 DEF RealEvents, Types
      <4> HIDE DEF rep
      <4> QED BY <4>2, <4>3 DEF InFlight
    <3>3. CASE g \in edge \ fds
      BY <1>6, <3>3 DEF EpollWait, InFlight
    <3>4. CASE g \notin edge
      <4>1. PICK u \in Idlers : \E ev \in batch[u] :
                  ev.fd = g /\ e \in RealEvents(ev.evs)
        BY <3>1, <3>4 DEF ReportInFlight, InFlight
      <4>2. u # t /\ batch'[u] = batch[u]
        BY <1>6, <4>1 DEF EpollWait, Types
      <4> QED BY <4>1, <4>2 DEF InFlight
    <3> QED BY <3>2, <3>3, <3>4
  <2> QED BY <2>1, <2>2 DEF ReportInFlight
<1>7. ASSUME NEW t \in Idlers, NEW ev \in batch[t], HandleNothing(t, ev)
      PROVE  Goal
  <2>1. KernelWatches'
    BY <1>7 DEF HandleNothing, KernelWatches
  <2>2. ASSUME NEW g \in Fds, NEW e \in events'[g] \intersect ready'[g]
        PROVE  InFlight(g, e)'
    <3>1. e \in events[g] /\ InFlight(g, e)
      BY <1>7, <2>2 DEF HandleNothing, ReportInFlight
    <3>2. \A u \in Idlers : \A x \in batch[u] : x = ev \/ x \in batch'[u]
      BY <1>7 DEF HandleNothing, Types
    <3>3. ev.fd = g => e \notin RealEvents(ev.evs)
      BY <1>7, <3>1 DEF HandleNothing
    <3>4. edge' = edge
      BY <1>7 DEF HandleNothing
    <3> QED BY <3>1, <3>2, <3>3, <3>4 DEF InFlight
  <2> QED BY <2>1, <2>2 DEF ReportInFlight
<1>8. ASSUME NEW fd \in Fds, NEW r \in Event \union {"HUP"}, Arrive(fd, r)
      PROVE  Goal
  <2>1. KernelWatches'
    BY <1>8 DEF Arrive, KernelWatches
  <2>2. ASSUME NEW g \in Fds, NEW e \in events'[g] \intersect ready'[g]
        PROVE  InFlight(g, e)'
    <3>1. e \in events[g] /\ g \in registered /\ mask[g] = events[g]
          /\ edge \subseteq edge' /\ batch' = batch
      BY <1>8, <2>2 DEF Arrive, KernelWatches
    <3>2. CASE e \in ready[g]
      BY <3>1, <3>2 DEF ReportInFlight, InFlight
    <3>3. CASE e \notin ready[g]
      <4>1. g = fd /\ e = r
        BY <1>8, <3>3 DEF Arrive, Types
      <4>2. Report(fd, mask[fd], {r}) # {}
        BY <3>1, <4>1 DEF Report
      <4> QED BY <1>8, <3>1, <4>1, <4>2 DEF Arrive, InFlight
    <3> QED BY <3>2, <3>3
  <2> QED BY <2>1, <2>2 DEF ReportInFlight
<1>9. ASSUME NEW fd \in Fds, NEW r \in Event \union {"HUP"}, Drain(fd, r)
      PROVE  Goal
  <2>1. KernelWatches'
    BY <1>9 DEF Drain, KernelWatches
  <2>2. \A g \in Fds : ready'[g] \subseteq ready[g]
    BY <1>9 DEF Drain, Types
  <2> QED BY <1>9, <2>1, <2>2 DEF Drain, ReportInFlight, InFlight
<1>10. ASSUME NEW fd \in Fds, Close(fd) PROVE Goal
  BY <1>10 DEF Close
<1>11. CASE UNCHANGED vars
  BY <1>1, <1>11 DEF vars
<1> QED
  BY <1>2, <1>3, <1>4, <1>5, <1>6, <1>7, <1>8, <1>9, <1>10, <1>11
  DEF Next, Task, Kernel, IdleStep

\* What WatchStep preserves, as an invariant.
LEMMA WatchInvariant ==
    ASSUME ~ MayClose
    PROVE  Spec => [](Types /\ KernelWatches /\ ReportInFlight)
<1> DEFINE Inv == Types /\ KernelWatches /\ ReportInFlight
<1>1. Init => Inv
  BY TypesInit DEF Init, KernelWatches, ReportInFlight
<1>2. Inv /\ [Next]_vars => Inv'
  BY TypesStep, WatchStep
<1> QED BY <1>1, <1>2, PTL DEF Spec

\* As long as descriptors are not closed under their waiters, epoll watches
\* exactly the events somebody waits for, also after hang-ups and withdrawals.
THEOREM EpollWatches ==
    ASSUME ~ MayClose
    PROVE  Spec => []KernelWatches
  BY WatchInvariant, PTL

\* And a waiter whose event has happened always has a report on its way to it,
\* however the threads that collect and handle reports interleave.
THEOREM ReportsNotLost ==
    ASSUME ~ MayClose
    PROVE  Spec => []ReportInFlight
  BY WatchInvariant, PTL
=============================================================================
