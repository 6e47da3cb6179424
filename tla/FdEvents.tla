------------------------------- MODULE FdEvents -------------------------------
(***************************************************************************)
(* The event registrations of sylar::IOManager (iomanager.h, iomanager.cc): *)
(* the FdContext of every file descriptor, addEvent, delEvent, cancelEvent *)
(* and cancelAll, called by tasks on any thread, and the part of idle()    *)
(* that handles what epoll_wait returned.  The kernel's epoll set (edge    *)
(* triggered) is modelled as the code uses it.                             *)
(*                                                                         *)
(* Every operation works under the mutex of one FdContext and is one step; *)
(* idle() takes that mutex once per returned event, so between epoll_wait  *)
(* and the handling of an event anything may happen to its descriptor.     *)
(***************************************************************************)
EXTENDS Integers, FiniteSets, FiniteSetsExt

CONSTANTS
    Fds,         \* file descriptors
    Waiters,     \* fibers or callbacks, each given to addEvent at most once
    Idlers,      \* threads inside IOManager::idle
    Used,        \* the events that tasks register
    MayHangUp,   \* TRUE: the kernel may report EPOLLERR or EPOLLHUP
    MayCancel,   \* TRUE: delEvent and cancelEvent are called
    MayClose,    \* TRUE: descriptors are closed, whoever still waits
    Room,        \* the length of idle()'s events array (64)
    None

Event == {"READ", "WRITE"}

ASSUME EventAssumption ==
    /\ Used \subseteq Event
    /\ MayHangUp \in BOOLEAN /\ MayCancel \in BOOLEAN /\ MayClose \in BOOLEAN
    /\ Room \in Nat \ {0}
ASSUME FdAssumption ==
    /\ IsFiniteSet(Fds) /\ Fds # {}
    /\ None \notin Waiters

VARIABLES
    events,               \* FdContext::events of every descriptor
    context,              \* who waits, for each descriptor and event
    m_pendingEventCount,
    registered,           \* (kernel) descriptors in the epoll set
    mask,                 \* (kernel) the events they are registered for
    ready,                \* (kernel) what would not block, and "HUP"
    edge,                 \* (kernel) descriptors with a report to deliver
    batch,                \* idle()'s events array: what is not handled yet
    wstate,               \* "fresh", "waiting", "scheduled", "dropped", "failed"
    crashed               \* triggerEvent's assertion has failed

kernelVars == <<registered, mask, ready, edge>>
ctxVars    == <<events, context, m_pendingEventCount, wstate>>
vars == <<kernelVars, ctxVars, batch, crashed>>

Init ==
    /\ events = [fd \in Fds |-> {}]
    /\ context = [fd \in Fds |-> [e \in Event |-> None]]
    /\ m_pendingEventCount = 0
    /\ registered = {}
    /\ mask = [fd \in Fds |-> {}]
    /\ ready = [fd \in Fds |-> {}]
    /\ edge = {}
    /\ batch = [t \in Idlers |-> {}]
    /\ wstate = [w \in Waiters |-> "fresh"]
    /\ crashed = FALSE

-----------------------------------------------------------------------------
(* The kernel *)

\* What epoll reports for a descriptor: what is asked for, and always HUP.
Report(fd, m, r) == r \intersect (m \union {"HUP"})

\* epoll_ctl ADD needs a descriptor that is not in the set; MOD and DEL one that
\* is.  ADD and MOD look at once whether there is something to report.
CtlWorks(op, fd) == (op = "ADD") <=> (fd \notin registered)

Ctl(op, fd, m) ==
    /\ registered' = IF op = "DEL" THEN registered \ {fd}
                                   ELSE registered \union {fd}
    /\ mask' = [mask EXCEPT ![fd] = IF op = "DEL" THEN {} ELSE m]
    /\ edge' = IF op # "DEL" /\ Report(fd, m, ready[fd]) # {}
                 THEN edge \union {fd} ELSE edge \ {fd}
    /\ UNCHANGED ready

\* Data arrives (perhaps more of it), space becomes free, or the peer hangs up.
Arrive(fd, r) ==
    /\ r = "HUP" => MayHangUp
    /\ ready' = [ready EXCEPT ![fd] = @ \union {r}]
    /\ edge' = IF fd \in registered /\ Report(fd, mask[fd], {r}) # {}
                 THEN edge \union {fd} ELSE edge
    /\ UNCHANGED <<registered, mask, ctxVars, batch, crashed>>

\* A task that does not wait uses up what was ready.
Drain(fd, r) ==
    /\ r \in ready[fd] \ events[fd]
    /\ r # "HUP"
    /\ ready' = [ready EXCEPT ![fd] = @ \ {r}]
    /\ UNCHANGED <<registered, mask, edge, ctxVars, batch, crashed>>

\* A descriptor is closed, and its number used for a new one: it leaves the epoll
\* set.  The close of hook.cc calls cancelAll first, but another thread may add
\* an event in between, and a thread without the hook closes at once.
Close(fd) ==
    /\ MayClose
    /\ registered' = registered \ {fd}
    /\ mask' = [mask EXCEPT ![fd] = {}]
    /\ ready' = [ready EXCEPT ![fd] = {}]
    /\ edge' = edge \ {fd}
    /\ UNCHANGED <<ctxVars, batch, crashed>>

-----------------------------------------------------------------------------
(* Registering and withdrawing *)

\* epoll_ctl succeeds and the waiter is stored.
Register(fd, e, w) ==
    /\ m_pendingEventCount' = m_pendingEventCount + 1
    /\ events' = [events EXCEPT ![fd] = @ \union {e}]
    /\ context' = [context EXCEPT ![fd][e] = w]
    /\ wstate' = [wstate EXCEPT ![w] = "waiting"]

\* (mutant) the mask forgets the new event.
AddMaskOld(fd, e) == events[fd]

\* The mask addEvent passes to epoll_ctl.
AddMask(fd, e) == events[fd] \union {e}

\* addEvent; that nobody waits for the event yet is the caller's obligation
\* (the assertion at 144).
AddEvent(fd, e, w) ==
    LET op == IF events[fd] # {} THEN "MOD" ELSE "ADD" IN
    /\ wstate[w] = "fresh"
    /\ e \notin events[fd]
    /\ IF CtlWorks(op, fd)
         THEN Ctl(op, fd, AddMask(fd, e)) /\ Register(fd, e, w)
         ELSE /\ wstate' = [wstate EXCEPT ![w] = "failed"]
              /\ UNCHANGED <<kernelVars, events, context, m_pendingEventCount>>
    /\ UNCHANGED <<batch, crashed>>

\* The operation delEvent and cancelEvent choose: they look at the events
\* before the change (192, 225).
WithdrawOp(fd) == IF events[fd] # {} THEN "MOD" ELSE "DEL"

\* (mutant) the context keeps its waiter.
DelKeepsContext(fd, e) ==
    /\ MayCancel
    /\ e \in events[fd]
    /\ CtlWorks(WithdrawOp(fd), fd)
    /\ Ctl(WithdrawOp(fd), fd, events[fd] \ {e})
    /\ m_pendingEventCount' = m_pendingEventCount - 1
    /\ events' = [events EXCEPT ![fd] = @ \ {e}]
    /\ wstate' = [wstate EXCEPT ![context[fd][e]] = "dropped"]
    /\ UNCHANGED <<context, batch, crashed>>

\* delEvent: the waiter is forgotten.  (Here and below, when epoll_ctl fails the
\* call returns false and nothing changes.)
DelEvent(fd, e) ==
    /\ MayCancel
    /\ e \in events[fd]
    /\ CtlWorks(WithdrawOp(fd), fd)
    /\ Ctl(WithdrawOp(fd), fd, events[fd] \ {e})
    /\ m_pendingEventCount' = m_pendingEventCount - 1
    /\ events' = [events EXCEPT ![fd] = @ \ {e}]
    /\ wstate' = [wstate EXCEPT ![context[fd][e]] = "dropped"]
    /\ context' = [context EXCEPT ![fd][e] = None]
    /\ UNCHANGED <<batch, crashed>>

\* (mutant) the count falls by two whichever events were triggered.
TriggerCountsBoth(fd, es) ==
    /\ events' = [events EXCEPT ![fd] = @ \ es]
    /\ context' = [context EXCEPT ![fd] =
                     [e \in Event |-> IF e \in es THEN None ELSE context[fd][e]]]
    /\ wstate' = [w \in Waiters |->
                     IF \E e \in es : context[fd][e] = w THEN "scheduled"
                                                         ELSE wstate[w]]
    /\ m_pendingEventCount' = m_pendingEventCount - Cardinality(Event)

\* triggerEvent for each of the events es, and --m_pendingEventCount after each:
\* the waiters are scheduled, and their contexts are empty again.
Trigger(fd, es) ==
    /\ events' = [events EXCEPT ![fd] = @ \ es]
    /\ context' = [context EXCEPT ![fd] =
                     [e \in Event |-> IF e \in es THEN None ELSE context[fd][e]]]
    /\ wstate' = [w \in Waiters |->
                     IF \E e \in es : context[fd][e] = w THEN "scheduled"
                                                         ELSE wstate[w]]
    /\ m_pendingEventCount' = m_pendingEventCount - Cardinality(es)

\* cancelEvent: the waiter is scheduled at once.
CancelEvent(fd, e) ==
    /\ MayCancel
    /\ e \in events[fd]
    /\ CtlWorks(WithdrawOp(fd), fd)
    /\ Ctl(WithdrawOp(fd), fd, events[fd] \ {e})
    /\ Trigger(fd, {e})
    /\ UNCHANGED <<batch, crashed>>

\* cancelAll
CancelAll(fd) ==
    /\ events[fd] # {}
    /\ CtlWorks("DEL", fd)
    /\ Ctl("DEL", fd, {})
    /\ Trigger(fd, events[fd])
    /\ UNCHANGED <<batch, crashed>>

-----------------------------------------------------------------------------
(* idle() *)

\* epoll_wait: as many reports as there is room for are delivered to this thread,
\* and to no other.
EpollWait(t, fds) ==
    /\ batch[t] = {}
    /\ fds # {}
    /\ fds = edge \/ Cardinality(fds) = Room
    /\ Cardinality(fds) <= Room
    /\ batch' = [batch EXCEPT ![t] =
                   {[fd |-> fd, evs |-> Report(fd, mask[fd], ready[fd])] :
                       fd \in {g \in fds : Report(g, mask[g], ready[g]) # {}}}]
    /\ edge' = edge \ fds
    /\ UNCHANGED <<registered, mask, ready, ctxVars, crashed>>

\* real_events: an error or a hang-up counts as readable and writable.
RealEvents(evs) == IF "HUP" \in evs THEN Event ELSE evs

\* Nobody waits for what was reported: continue.
HandleNothing(t, ev) ==
    /\ ev \in batch[t]
    /\ events[ev.fd] \intersect RealEvents(ev.evs) = {}
    /\ batch' = [batch EXCEPT ![t] = @ \ {ev}]
    /\ UNCHANGED <<kernelVars, ctxVars, crashed>>

\* (mutant) the descriptor leaves the epoll set whatever is left.
HandleOpAlwaysDel(left) == "DEL"

HandleOp(left) == IF left # {} THEN "MOD" ELSE "DEL"

\* The waiters of real_events are scheduled.  triggerEvent asserts that each of
\* them is registered; idle() has only made sure that one of them is.
Handle(t, ev) ==
    LET fd   == ev.fd
        real == RealEvents(ev.evs)
        left == events[fd] \ real
    IN
    /\ ev \in batch[t]
    /\ events[fd] \intersect real # {}
    /\ batch' = [batch EXCEPT ![t] = @ \ {ev}]
    /\ \/ /\ ~ CtlWorks(HandleOp(left), fd)
          /\ UNCHANGED <<kernelVars, ctxVars, crashed>>
       \/ /\ CtlWorks(HandleOp(left), fd)
          /\ real \subseteq events[fd]
          /\ Ctl(HandleOp(left), fd, left)
          /\ Trigger(fd, real)
          /\ UNCHANGED crashed
       \/ /\ CtlWorks(HandleOp(left), fd)
          /\ ~ (real \subseteq events[fd])
          /\ crashed' = TRUE
          /\ UNCHANGED <<kernelVars, ctxVars>>

-----------------------------------------------------------------------------
Task ==
    \E fd \in Fds :
        \/ \E e \in Used, w \in Waiters : AddEvent(fd, e, w)
        \/ \E e \in Used : DelEvent(fd, e) \/ CancelEvent(fd, e)
        \/ CancelAll(fd)

Kernel ==
    \E fd \in Fds :
        \/ \E r \in Event \union {"HUP"} : Arrive(fd, r) \/ Drain(fd, r)
        \/ Close(fd)

IdleStep(t) ==
    \/ \E fds \in SUBSET edge : EpollWait(t, fds)
    \/ \E ev \in batch[t] : HandleNothing(t, ev) \/ Handle(t, ev)

Next ==
    \/ ~ crashed /\ (Task \/ Kernel \/ \E t \in Idlers : IdleStep(t))
    \/ crashed /\ UNCHANGED vars

\* An idle thread goes on; it collects what epoll has for it.
Fairness == \A t \in Idlers : WF_vars(~ crashed /\ IdleStep(t))

Spec == Init /\ [][Next]_vars
FairSpec == Spec /\ Fairness

-----------------------------------------------------------------------------
(* Properties *)

\* The sets the variables range over.
Types ==
    /\ events \in [Fds -> SUBSET Event]
    /\ context \in [Fds -> [Event -> Waiters \union {None}]]
    /\ m_pendingEventCount \in Int
    /\ registered \in SUBSET Fds
    /\ mask \in [Fds -> SUBSET Event]
    /\ ready \in [Fds -> SUBSET (Event \union {"HUP"})]
    /\ edge \in SUBSET Fds
    /\ batch \in [Idlers -> SUBSET [fd : Fds, evs : SUBSET (Event \union {"HUP"})]]
    /\ wstate \in [Waiters ->
                     {"fresh", "waiting", "scheduled", "dropped", "failed"}]
    /\ crashed \in BOOLEAN

\* Types, and m_pendingEventCount (a size_t) is never decremented below zero.
TypeOK == Types /\ m_pendingEventCount \in Nat

\* The registrations that are waiting.
Registrations == {x \in Fds \X Event : x[2] \in events[x[1]]}

\* m_pendingEventCount, which decides whether the IOManager may stop, is the
\* number of registrations, whoever withdraws or triggers them.
PendingExact == m_pendingEventCount = Cardinality(Registrations)

\* A context has a waiter exactly while its event is registered (the assertion at
\* iomanager.cc:164 relies on it).
ContextIffEvent ==
    \A fd \in Fds, e \in Event : e \in events[fd] <=> context[fd][e] # None

\* Exactly the fibers and callbacks that wait are in a context ...
WaitingInContext ==
    \A w \in Waiters :
        wstate[w] = "waiting" <=> \E fd \in Fds, e \in Event : context[fd][e] = w

\* ... and in one only.
OneContext ==
    \A fd, g \in Fds : \A e, f \in Event :
        context[fd][e] # None /\ context[fd][e] = context[g][f] => fd = g /\ e = f

\* Whatever addEvent, the withdrawals and idle() do to a descriptor in turn, no
\* waiter is lost and none is scheduled twice.
WaitersKept == ContextIffEvent /\ WaitingInContext /\ OneContext

\* While somebody waits the kernel watches exactly the events waited for
\* (addEvent, the withdrawals and idle() recompute the mask each time).
KernelWatches ==
    \A fd \in Fds : events[fd] # {} => fd \in registered /\ mask[fd] = events[fd]

\* The report of event e of descriptor fd has not been handled yet: epoll still
\* has it, or an idle thread has collected it.
InFlight(fd, e) ==
    \/ fd \in edge
    \/ \E t \in Idlers : \E ev \in batch[t] :
          ev.fd = fd /\ e \in RealEvents(ev.evs)

\* While somebody waits for what is there, its report is on the way: the safety
\* half of NoLostEdge, for an epoll set that reports each edge once (until the
\* assertion of triggerEvent ends the process).
ReportInFlight ==
    \/ crashed
    \/ \A fd \in Fds : \A e \in events[fd] \intersect ready[fd] : InFlight(fd, e)

\* A waiter whose event is there is scheduled, or its event withdrawn (or the
\* assertion of triggerEvent ends the process): no edge is lost between two
\* threads, or between a report and its handling.
NoLostEdge ==
    \A fd \in Fds, e \in Used :
        (e \in events[fd] /\ e \in ready[fd]) ~> (e \notin events[fd] \/ crashed)
=============================================================================
