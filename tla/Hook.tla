---------------------------------- MODULE Hook ----------------------------------
(***************************************************************************)
(* The system calls sylar replaces (hook.cc) and what it remembers of each *)
(* descriptor (fd_manager.h, fd_manager.cc).  Fibers on hooked threads     *)
(* call socket, connect, accept, read..., write..., sleep, close, fcntl,   *)
(* ioctl and setsockopt.  A call that would block adds a timer and an      *)
(* event and yields; it is resumed by whoever comes first: the event, the  *)
(* timer's callback (which cancels the event), or close.                   *)
(*                                                                         *)
(* IOManager and TimerManager appear through what they promise (FdEvents,  *)
(* TimerManager): an event schedules the fiber registered for it once, a   *)
(* timer hands out its callback at most once and not after cancel().  Each *)
(* of their calls is one step; between any two of them, and between the    *)
(* statements of a timer's callback, other threads run.                    *)
(***************************************************************************)
EXTENDS Integers, FiniteSets

CONSTANTS
    Fibers,     \* fibers that make system calls
    Fds,        \* descriptor numbers, all below the size of m_datas (64)
    Open,       \* those that are connected, with both timeouts set, to begin with
    MaxCalls,   \* bound: calls of all fibers
    MaxSteals,  \* bound: how often somebody else takes what was ready
    MayReuse,   \* TRUE: a number may be given out while a call on it goes on
    None

ASSUME ReuseAssumption == MayReuse \in BOOLEAN
ASSUME OpenAssumption == Open \subseteq Fds
ASSUME HookBounds == MaxCalls \in Nat /\ MaxSteals \in Nat

Event == {"READ", "WRITE"}

VARIABLES
    file,       \* (kernel) what a descriptor refers to
    nonblock,   \* (kernel) its O_NONBLOCK
    ready,      \* (kernel) what would not block
    steals,     \* what others have taken so far, for MaxSteals
    own,        \* (history) descriptors whose O_NONBLOCK the user has set:
                \* made with SOCK_NONBLOCK, or changed with FIONBIO
    m_datas,    \* FdManager: the FdCtx of each descriptor
    context,    \* IOManager: who waits for each event
    timers,     \* TimerManager: timers, and callbacks that are under way
    queued,     \* Scheduler: how often a fiber is in the list
    pc,         \* where each fiber is
    op,         \* its call
    calls,      \* calls made so far, for MaxCalls
    made,       \* timers the fiber has added
    cancelled,  \* timer_info::cancelled of the call
    expired,    \* some timer of the call has expired
    missed,     \* (history) who wanted to wake the call before it was
                \* registered: its own "timer", or a "close"
    result      \* what the last call to return has returned

kernelVars == <<file, nonblock, ready, steals, own>>
wakeVars   == <<context, timers, queued>>
callVars   == <<op, calls, made, cancelled, expired, missed>>
vars == <<kernelVars, m_datas, wakeVars, callVars, pc, result>>

Files == {"free", "new", "listen", "pending", "refused", "up"}
Kinds == {"none", "io", "accept", "connect", "sleep", "socket", "close"}
Labels == {"user", "fun", "event", "parked", "sockopt", "get", "create",
           "closeDel", "closeFd", "stuck"}
Results == {"none", "ok", "again", "timeout", "error"}

\* to: the events for which a timeout is set (m_recvTimeout, m_sendTimeout).
FdCtx == [sys : BOOLEAN, user : BOOLEAN, to : SUBSET Event]
\* no: which call this is, the identity of its timer_info.
Op == [kind : Kinds, no : Nat, fd : Fds \union {None}, ev : Event,
       hooked : BOOLEAN, timed : BOOLEAN]
NoOp == [kind |-> "none", no |-> 0, fd |-> None, ev |-> "READ",
         hooked |-> FALSE, timed |-> FALSE]
Timer == [f : Fibers, n : Nat, call : Nat, sleep : BOOLEAN,
          fd : Fds \union {None}, ev : Event,
          at : {"armed", "due", "locked", "set"}]

ASSUME HookNone == None \notin Fibers \union Fds \union FdCtx

Init ==
    /\ file = [fd \in Fds |-> IF fd \in Open THEN "up" ELSE "free"]
    /\ nonblock = [fd \in Fds |-> fd \in Open]
    /\ ready = [fd \in Fds |-> {}]
    /\ steals = 0
    /\ own \in SUBSET Open
    /\ m_datas = [fd \in Fds |-> IF fd \in Open
                                THEN [sys |-> fd \notin own, user |-> FALSE, to |-> Event]
                                ELSE None]
    /\ context = [fd \in Fds |-> [e \in Event |-> None]]
    /\ timers = {}
    /\ queued = [f \in Fibers |-> 0]
    /\ pc = [f \in Fibers |-> "user"]
    /\ op = [f \in Fibers |-> NoOp]
    /\ calls = 0
    /\ made = [f \in Fibers |-> 0]
    /\ cancelled = [f \in Fibers |-> FALSE]
    /\ expired = [f \in Fibers |-> FALSE]
    /\ missed = [f \in Fibers |-> {}]
    /\ result = "none"

Goto(f, label) == pc' = [pc EXCEPT ![f] = label]

\* The call goes on; or it returns, and its timer_info dies with it.
Continue(f, label) ==
    Goto(f, label) /\ UNCHANGED <<op, cancelled, expired, missed, result>>
Return(f, r) ==
    /\ Goto(f, "user")
    /\ op' = [op EXCEPT ![f] = NoOp]
    /\ cancelled' = [cancelled EXCEPT ![f] = FALSE]
    /\ expired' = [expired EXCEPT ![f] = FALSE]
    /\ missed' = [missed EXCEPT ![f] = {}]
    /\ result' = r

InCall(f) == pc[f] # "user"
On(fd) == {f \in Fibers : InCall(f) /\ op[f].fd = fd}
Closing(fd) == \E f \in On(fd) : op[f].kind = "close"
Opening(fd) == \E f \in On(fd) : op[f].kind \in {"socket", "accept"}
                                 /\ pc[f] \in {"get", "create"}
Usable(fd) == file[fd] # "free" /\ ~ Opening(fd)

\* A new call.  One fiber at a time uses a descriptor for one event: the
\* assertion of addEvent (iomanager.cc:144) makes that the callers' duty.
Begin(f, kind, fd, ev, hooked, timed) ==
    /\ pc[f] = "user"
    /\ calls < MaxCalls
    /\ calls' = calls + 1
    /\ op' = [op EXCEPT ![f] = [kind |-> kind, no |-> calls + 1, fd |-> fd, ev |-> ev,
                                hooked |-> hooked, timed |-> timed]]
    /\ UNCHANGED <<cancelled, expired, missed>>

Mine(f, fd, ev) == \A g \in On(fd) \ {f} : op[g].kind \in {"close", "socket"}
                                           \/ op[g].ev # ev

-----------------------------------------------------------------------------
(* The kernel, and the idle threads of the IOManager *)

\* A connection is made or refused; data arrives or space becomes free.
Resolve(fd, how) ==
    /\ file[fd] = "pending"
    /\ file' = [file EXCEPT ![fd] = how]
    /\ ready' = [ready EXCEPT ![fd] = IF how = "up" THEN {"WRITE"} ELSE Event]
    /\ UNCHANGED <<nonblock, steals, own, m_datas, wakeVars, callVars, pc, result>>

\* (It matters to those who use the descriptor, and is left out when nobody does.)
Arrive(fd, ev) ==
    /\ \E f \in On(fd) : op[f].ev = ev
    /\ file[fd] = "up" \/ (file[fd] = "listen" /\ ev = "READ")
    /\ ready' = [ready EXCEPT ![fd] = @ \union {ev}]
    /\ UNCHANGED <<file, nonblock, steals, own, m_datas, wakeVars, callVars, pc, result>>

\* Another process that shares the descriptor was faster.
Steal(fd, ev) ==
    /\ \E f \in On(fd) : op[f].ev = ev
    /\ ev \in ready[fd]
    /\ steals < MaxSteals
    /\ steals' = steals + 1
    /\ ready' = [ready EXCEPT ![fd] = @ \ {ev}]
    /\ UNCHANGED <<file, nonblock, own, m_datas, wakeVars, callVars, pc, result>>

\* (mutant) who was scheduled stays registered.
WakeKeeps(fd, evs) ==
    /\ queued' = [f \in Fibers |->
          IF \E e \in evs : context[fd][e] = f THEN queued[f] + 1 ELSE queued[f]]
    /\ UNCHANGED context

\* Whoever is registered for one of the events is scheduled.
Wake(fd, evs) ==
    /\ queued' = [f \in Fibers |->
          IF \E e \in evs : context[fd][e] = f THEN queued[f] + 1 ELSE queued[f]]
    /\ context' = [context EXCEPT ![fd] =
          [e \in Event |-> IF e \in evs THEN None ELSE context[fd][e]]]

\* idle() has a report for an event somebody waits for.
Trigger(fd, ev) ==
    /\ file[fd] # "free"
    /\ ev \in ready[fd]
    /\ context[fd][ev] # None
    /\ Wake(fd, {ev})
    /\ UNCHANGED <<timers, kernelVars, m_datas, callVars, pc, result>>

-----------------------------------------------------------------------------
(* Timers *)

Move(t, at) == timers' = (timers \ {t}) \union {[t EXCEPT !.at = at]}

\* (mutant) timer_info is looked up by the fiber, not by the call.
AliveAnyCall(t) == InCall(t.f)

\* winfo.lock(): the call whose timer_info this is has not returned.
Alive(t) == op[t.f].no = t.call

\* listExpiredCb collects the callback; it now waits to be run.
Expire(t) ==
    /\ t.at = "armed"
    /\ Move(t, "due")
    /\ expired' = [expired EXCEPT ![t.f] = @ \/ op[t.f].no = t.call]
    /\ UNCHANGED <<kernelVars, m_datas, context, queued, op, calls, made,
                   cancelled, missed, pc, result>>

\* The callback of sleep, usleep and nanosleep: iom->schedule(fiber).
RunSleep(t) ==
    /\ t.at = "due" /\ t.sleep
    /\ timers' = timers \ {t}
    /\ queued' = [queued EXCEPT ![t.f] = @ + 1]
    /\ UNCHANGED <<kernelVars, m_datas, context, callVars, pc, result>>

\* The callback of do_io and connect: nothing if the call is over or was
\* cancelled before, ...
RunTimeout(t) ==
    /\ t.at = "due" /\ ~ t.sleep
    /\ IF Alive(t) /\ ~ cancelled[t.f] THEN Move(t, "locked")
                                       ELSE timers' = timers \ {t}
    /\ UNCHANGED <<kernelVars, m_datas, context, queued, callVars, pc, result>>

\* (mutant) the callback does not cancel the event.
SetCancelledOnly(t) ==
    /\ t.at = "locked"
    /\ timers' = timers \ {t}
    /\ cancelled' = [cancelled EXCEPT ![t.f] = @ \/ Alive(t)]
    /\ UNCHANGED <<kernelVars, m_datas, context, queued, op, calls, made, expired,
                   missed, pc, result>>

\* ... else t->cancelled = ETIMEDOUT (which only a call that is still going on
\* will see), ...
SetCancelled(t) ==
    /\ t.at = "locked"
    /\ Move(t, "set")
    /\ cancelled' = [cancelled EXCEPT ![t.f] = @ \/ Alive(t)]
    /\ UNCHANGED <<kernelVars, m_datas, context, queued, op, calls, made, expired,
                   missed, pc, result>>

\* ... and cancelEvent, whoever is registered by now: nobody, if the call has
\* not come to its addEvent yet, the first one or that of a retry.  epoll_ctl
\* fails, and cancelEvent does nothing, once the descriptor is closed.
CancelEvent(t) ==
    /\ t.at = "set"
    /\ timers' = timers \ {t}
    /\ IF file[t.fd] # "free" THEN Wake(t.fd, {t.ev})
                              ELSE UNCHANGED <<context, queued>>
    /\ missed' = [missed EXCEPT ![t.f] =
          IF Alive(t) /\ pc[t.f] # "parked" THEN @ \union {"timer"} ELSE @]
    /\ UNCHANGED <<kernelVars, m_datas, op, calls, made, cancelled, expired, pc,
                   result>>

TimerStep(t) ==
    Expire(t) \/ RunSleep(t) \/ RunTimeout(t) \/ SetCancelled(t) \/ CancelEvent(t)

\* timer->cancel() by the fiber: a callback that was collected is not stopped.
CancelTimer(f) ==
    timers' = {t \in timers : ~ (t.f = f /\ t.n = made[f] /\ t.at = "armed"
                                 /\ op[f].timed)}

-----------------------------------------------------------------------------
(* Waiting: the part do_io, connect_with_timeout and the sleeps have in common *)

NewTimer(f, call, sleep, fd, ev) ==
    /\ made' = [made EXCEPT ![f] = @ + 1]
    /\ timers' = timers \union
          {[f |-> f, n |-> made[f] + 1, call |-> call, sleep |-> sleep,
            fd |-> fd, ev |-> ev, at |-> "armed"]}

\* sleep, usleep, nanosleep
Sleep(f) ==
    /\ Begin(f, "sleep", None, "READ", TRUE, TRUE)
    /\ NewTimer(f, calls + 1, TRUE, None, "READ")
    /\ Goto(f, "parked")
    /\ UNCHANGED <<kernelVars, m_datas, context, queued, result>>

\* EAGAIN or EINPROGRESS: a hooked call adds its timer, another one returns.  On
\* a descriptor without O_NONBLOCK the kernel stops the whole thread instead.
Blocks(f) ==
    LET fd == op[f].fd IN
    \/ /\ ~ nonblock[fd]
       /\ Continue(f, "stuck")
       /\ UNCHANGED <<timers, made>>
    \/ /\ nonblock[fd] /\ op[f].hooked
       /\ Continue(f, "event")
       /\ IF op[f].timed THEN NewTimer(f, op[f].no, FALSE, fd, op[f].ev)
                         ELSE UNCHANGED <<timers, made>>
    \/ /\ nonblock[fd] /\ ~ op[f].hooked
       /\ Return(f, "again")
       /\ UNCHANGED <<timers, made>>

\* addEvent succeeds and the fiber yields (a fiber that is scheduled before it
\* has yielded waits in the list until it has: Scheduler) ...
AddEvent(f) ==
    /\ pc[f] = "event"
    /\ file[op[f].fd] # "free"
    /\ context' = [context EXCEPT ![op[f].fd][op[f].ev] = f]
    /\ Goto(f, "parked")
    /\ missed' = [missed EXCEPT ![f] =
          IF Closing(op[f].fd) THEN @ \union {"close"} ELSE @]
    /\ UNCHANGED <<kernelVars, m_datas, timers, queued, op, calls, made, cancelled,
                   expired, result>>

\* ... or fails: do_io gives up, connect goes on to SO_ERROR all the same.
AddEventFails(f) ==
    /\ pc[f] = "event"
    /\ CancelTimer(f)
    /\ IF op[f].kind = "connect" THEN Continue(f, "sockopt") ELSE Return(f, "error")
    /\ UNCHANGED <<kernelVars, m_datas, context, queued, calls, made>>

\* A thread finds the fiber in the list.
Scheduled(f) == queued[f] > 0

\* The fiber is resumed and cancels its timer.  if(tinfo->cancelled) ..., else
\* goto retry, or on to SO_ERROR.
Resume(f) ==
    /\ pc[f] = "parked"
    /\ Scheduled(f)
    /\ queued' = [queued EXCEPT ![f] = @ - 1]
    /\ IF op[f].kind = "sleep" THEN UNCHANGED timers ELSE CancelTimer(f)
    /\ \/ op[f].kind = "sleep" /\ Return(f, "ok")
       \/ op[f].kind # "sleep" /\ cancelled[f] /\ Return(f, "timeout")
       \/ op[f].kind = "connect" /\ ~ cancelled[f] /\ Continue(f, "sockopt")
       \/ op[f].kind \notin {"sleep", "connect"} /\ ~ cancelled[f] /\ Continue(f, "fun")
    /\ UNCHANGED <<kernelVars, m_datas, context, calls, made>>

-----------------------------------------------------------------------------
(* do_io and connect_with_timeout *)

\* What the kernel knows of the descriptor becomes state, ready becomes r.
Kernel(fd, state, r) ==
    /\ file' = [file EXCEPT ![fd] = state]
    /\ ready' = [ready EXCEPT ![fd] = r]

\* A call with no FdCtx, or on a socket the user made non-blocking, goes
\* straight to the original function.
Hooked(fd) == m_datas[fd] # None /\ ~ m_datas[fd].user

\* read, readv, recv, recvfrom, recvmsg and write, writev, send, sendto, sendmsg
Io(f, fd, ev) ==
    /\ Usable(fd) /\ file[fd] # "listen" /\ Mine(f, fd, ev)
    /\ Begin(f, "io", fd, ev, Hooked(fd), Hooked(fd) /\ ev \in m_datas[fd].to)
    /\ Goto(f, "fun")
    /\ UNCHANGED <<kernelVars, m_datas, wakeVars, made, result>>

Accept(f, fd) ==
    /\ Usable(fd) /\ file[fd] = "listen" /\ Mine(f, fd, "READ")
    /\ Begin(f, "accept", fd, "READ", Hooked(fd),
             Hooked(fd) /\ "READ" \in m_datas[fd].to)
    /\ Goto(f, "fun")
    /\ UNCHANGED <<kernelVars, m_datas, wakeVars, made, result>>

\* s_connct_timeout comes from the configuration; -1 means no timeout.
Connect(f, fd, timed) ==
    /\ Usable(fd) /\ file[fd] # "listen" /\ Mine(f, fd, "WRITE")
    /\ Begin(f, "connect", fd, "WRITE", Hooked(fd), Hooked(fd) /\ timed)
    /\ Goto(f, "fun")
    /\ UNCHANGED <<kernelVars, m_datas, wakeVars, made, result>>

\* What the kernel does with a call that finds an error on the socket.
Fails(f, fd) ==
    /\ Kernel(fd, IF file[fd] = "refused" THEN "new" ELSE file[fd], ready[fd])
    /\ Return(f, "error")
    /\ UNCHANGED <<timers, made>>

\* fun(fd, ...) of do_io; a success takes some or all of what was ready.
FunIo(f) ==
    LET fd == op[f].fd
        ev == op[f].ev IN
    /\ pc[f] = "fun" /\ op[f].kind = "io"
    /\ \/ /\ file[fd] = "up" /\ ev \in ready[fd]
          /\ \E rest \in {ready[fd], ready[fd] \ {ev}} : Kernel(fd, "up", rest)
          /\ Return(f, "ok")
          /\ UNCHANGED <<timers, made>>
       \/ /\ file[fd] \in {"pending", "up"} /\ ev \notin ready[fd]
          /\ Blocks(f)
          /\ UNCHANGED <<file, ready>>
       \/ /\ file[fd] \in {"free", "new", "listen", "refused"}
          /\ Fails(f, fd)
    /\ UNCHANGED <<nonblock, steals, own, m_datas, context, queued, calls>>

\* Numbers the kernel may hand out.
Numbers == {fd \in Fds : /\ file[fd] = "free"
                         /\ \/ MayReuse
                            \/ \A g \in On(fd) : op[g].kind = "close"}

\* accept_f: a new, blocking descriptor, or EMFILE, or nothing to accept.
FunAccept(f) ==
    LET fd == op[f].fd IN
    /\ pc[f] = "fun" /\ op[f].kind = "accept"
    /\ \/ /\ file[fd] = "listen" /\ "READ" \in ready[fd]
          /\ \E new \in Numbers, rest \in {{}, {"READ"}} :
                /\ file' = [file EXCEPT ![new] = "up"]
                /\ nonblock' = [nonblock EXCEPT ![new] = FALSE]
                /\ own' = own \ {new}
                /\ ready' = [ready EXCEPT ![new] = {"WRITE"}, ![fd] = rest]
                /\ op' = [op EXCEPT ![f].fd = new]
          /\ Goto(f, "get")
          /\ UNCHANGED <<timers, made, cancelled, expired, missed, result>>
       \/ /\ file[fd] = "listen" /\ "READ" \notin ready[fd]
          /\ Blocks(f)
          /\ UNCHANGED <<file, ready, nonblock, own>>
       \/ /\ file[fd] # "listen" \/ ("READ" \in ready[fd] /\ Numbers = {})
          /\ Fails(f, fd)
          /\ UNCHANGED <<nonblock, own>>
    /\ UNCHANGED <<steals, m_datas, context, queued, calls>>

\* connect_f is called once: it succeeds or fails, or the connection is pending.
FunConnect(f) ==
    LET fd == op[f].fd IN
    /\ pc[f] = "fun" /\ op[f].kind = "connect"
    /\ \/ /\ file[fd] = "new"
          /\ Kernel(fd, "up", {"WRITE"})
          /\ Return(f, "ok")
          /\ UNCHANGED <<timers, made>>
       \/ /\ file[fd] = "new"
          /\ Kernel(fd, "pending", {})
          /\ Blocks(f)
       \/ Fails(f, fd)
    /\ UNCHANGED <<nonblock, steals, own, m_datas, context, queued, calls>>

\* A thread the kernel has stopped goes on when there is something to do; what a
\* stopped connect returns is what SO_ERROR says.
Unblock(f) ==
    LET fd == op[f].fd IN
    /\ pc[f] = "stuck"
    /\ file[fd] \notin {"free", "pending"}
    /\ op[f].kind # "connect" /\ file[fd] # "refused" => op[f].ev \in ready[fd]
    /\ Continue(f, IF op[f].kind = "connect" THEN "sockopt" ELSE "fun")
    /\ UNCHANGED <<kernelVars, m_datas, wakeVars, calls, made>>

\* getsockopt(SO_ERROR): 0 unless the connection was refused; reading clears it.
SockOpt(f) ==
    LET fd == op[f].fd IN
    /\ pc[f] = "sockopt"
    /\ \/ file[fd] \in {"free", "refused"} /\ Fails(f, fd)
       \/ /\ file[fd] \notin {"free", "refused"}
          /\ Return(f, "ok")
          /\ UNCHANGED <<file, ready, timers, made>>
    /\ UNCHANGED <<nonblock, steals, own, m_datas, context, queued, calls>>

-----------------------------------------------------------------------------
(* Descriptors come and go *)

\* socket_f gives a blocking descriptor, or with SOCK_NONBLOCK another one, ...
Socket(f) ==
    \E fd \in Numbers, v \in BOOLEAN :
       /\ Begin(f, "socket", fd, "READ", TRUE, FALSE)
       /\ Kernel(fd, "new", {})
       /\ nonblock' = [nonblock EXCEPT ![fd] = v]
       /\ own' = IF v THEN own \union {fd} ELSE own \ {fd}
       /\ Goto(f, "get")
       /\ UNCHANGED <<steals, m_datas, wakeVars, made, result>>

\* ... which FdManager::get(fd, true) looks up with the read lock ...
Get(f) ==
    /\ pc[f] = "get"
    /\ IF m_datas[op[f].fd] # None THEN Return(f, "ok") ELSE Continue(f, "create")
    /\ UNCHANGED <<kernelVars, m_datas, wakeVars, calls, made>>

\* FdCtx::init: the socket becomes non-blocking and forgets the past.
FdCtxInit(fd) ==
    /\ nonblock' = [nonblock EXCEPT ![fd] = TRUE]
    /\ m_datas' = [m_datas EXCEPT ![fd] =
          [sys |-> ~ nonblock[fd], user |-> FALSE, to |-> {}]]

\* ... and, if it is not there, makes an FdCtx under the write lock.
Create(f) ==
    /\ pc[f] = "create"
    /\ FdCtxInit(op[f].fd)
    /\ Return(f, "ok")
    /\ UNCHANGED <<file, ready, steals, own, wakeVars, calls, made>>

\* listen is not hooked.
Listen(fd) ==
    /\ Usable(fd) /\ On(fd) = {} /\ file[fd] = "new"
    /\ Kernel(fd, "listen", {})
    /\ UNCHANGED <<nonblock, steals, own, m_datas, wakeVars, callVars, pc, result>>

\* (mutant) nobody who waits is woken.
CancelNone(fd) == UNCHANGED <<context, queued>>

\* iom->cancelAll(fd)
CancelAll(fd) == Wake(fd, Event)

\* close: cancelAll wakes all who wait, ...
Close(f, fd) ==
    /\ file[fd] # "free" /\ ~ Opening(fd) /\ ~ Closing(fd)
    /\ Begin(f, "close", fd, "READ", TRUE, FALSE)
    /\ CancelAll(fd)
    /\ Goto(f, "closeDel")
    /\ UNCHANGED <<kernelVars, m_datas, timers, made, result>>

\* (mutant) the FdCtx outlives the descriptor.
DelForgotten(fd) == UNCHANGED m_datas

Del(fd) == m_datas' = [m_datas EXCEPT ![fd] = None]

\* ... FdManager::del forgets the FdCtx, ...
CloseDel(f) ==
    /\ pc[f] = "closeDel"
    /\ Del(op[f].fd)
    /\ Continue(f, "closeFd")
    /\ UNCHANGED <<kernelVars, wakeVars, calls, made>>

\* ... and close_f gives the number back.
CloseFd(f) ==
    /\ pc[f] = "closeFd"
    /\ Kernel(op[f].fd, "free", {})
    /\ Return(f, "ok")
    /\ UNCHANGED <<nonblock, steals, own, m_datas, wakeVars, calls, made>>

-----------------------------------------------------------------------------
(* Options: fcntl, ioctl and setsockopt do not wait; each is one step *)

\* (mutant) the user's O_NONBLOCK goes to the kernel as it is.
FcntlAsAsked(fd, v) ==
    /\ m_datas' = [m_datas EXCEPT ![fd].user = v]
    /\ nonblock' = [nonblock EXCEPT ![fd] = v]
    /\ UNCHANGED own

\* F_SETFL: remember what the user wants, keep the kernel's flag as init set it.
Fcntl(fd, v) ==
    /\ m_datas' = [m_datas EXCEPT ![fd].user = v]
    /\ nonblock' = [nonblock EXCEPT ![fd] = m_datas[fd].sys]
    /\ UNCHANGED own

\* FIONBIO: remembered, and passed on to the kernel as it is.
Ioctl(fd, v) ==
    /\ m_datas' = [m_datas EXCEPT ![fd].user = v]
    /\ nonblock' = [nonblock EXCEPT ![fd] = v]
    /\ own' = own \union {fd}

\* Either of them while a close has forgotten the FdCtx and not yet the number.
SetRaw(fd, v) ==
    /\ nonblock' = [nonblock EXCEPT ![fd] = v]
    /\ own' = own \union {fd}
    /\ UNCHANGED m_datas

\* SO_RCVTIMEO and SO_SNDTIMEO
SetTimeout(fd, ev) ==
    /\ m_datas' = [m_datas EXCEPT ![fd].to = @ \union {ev}]
    /\ UNCHANGED <<nonblock, own>>

Option(f, fd) ==
    /\ pc[f] = "user" /\ calls < MaxCalls
    /\ Usable(fd)
    /\ \/ m_datas[fd] # None /\ \E v \in BOOLEAN : Fcntl(fd, v) \/ Ioctl(fd, v)
       \/ m_datas[fd] # None /\ \E ev \in Event : SetTimeout(fd, ev)
       \/ m_datas[fd] = None /\ \E v \in BOOLEAN : SetRaw(fd, v)
    /\ calls' = calls + 1
    /\ UNCHANGED <<file, ready, steals, wakeVars, op, made, cancelled, expired,
                   missed, pc, result>>

-----------------------------------------------------------------------------
Environment ==
    \E fd \in Fds :
       \/ \E how \in {"up", "refused"} : Resolve(fd, how)
       \/ \E ev \in Event : Arrive(fd, ev) \/ Steal(fd, ev)
       \/ Listen(fd)

Calls(f) ==
    \/ Sleep(f)
    \/ Socket(f)
    \/ \E fd \in Fds :
          \/ \E ev \in Event : Io(f, fd, ev)
          \/ Accept(f, fd)
          \/ \E timed \in BOOLEAN : Connect(f, fd, timed)
          \/ Close(f, fd)
          \/ Option(f, fd)

\* What a thread that runs the fiber does next.
Inside(f) ==
    \/ FunIo(f) \/ FunAccept(f) \/ FunConnect(f) \/ Unblock(f) \/ SockOpt(f)
    \/ AddEvent(f) \/ AddEventFails(f) \/ Resume(f)
    \/ Get(f) \/ Create(f) \/ CloseDel(f) \/ CloseFd(f)

Triggers == \E fd \in Fds, ev \in Event : Trigger(fd, ev)

Timers(f) == \E t \in timers : t.f = f /\ TimerStep(t)

Next ==
    \/ Environment
    \/ Triggers
    \/ \E f \in Fibers : Calls(f) \/ Inside(f) \/ Timers(f)

Spec == Init /\ [][Next]_vars

\* Threads keep running the fibers that are ready, and the idle threads keep
\* collecting expired timers and running their callbacks (Scheduler,
\* TimerManager).  Nothing promises that data or a connection arrives.
FairSpec == Spec /\ \A f \in Fibers : WF_vars(Inside(f)) /\ WF_vars(Timers(f))

-----------------------------------------------------------------------------
(* Properties *)

TypeOK ==
    /\ file \in [Fds -> Files]
    /\ nonblock \in [Fds -> BOOLEAN]
    /\ ready \in [Fds -> SUBSET Event]
    /\ steals \in Nat
    /\ m_datas \in [Fds -> FdCtx \union {None}]
    /\ context \in [Fds -> [Event -> Fibers \union {None}]]
    /\ timers \in SUBSET Timer
    /\ queued \in [Fibers -> Nat]
    /\ pc \in [Fibers -> Labels]
    /\ op \in [Fibers -> Op]
    /\ calls \in Nat
    /\ made \in [Fibers -> Nat]
    /\ cancelled \in [Fibers -> BOOLEAN]
    /\ expired \in [Fibers -> BOOLEAN]
    /\ own \in SUBSET Fds
    /\ missed \in [Fibers -> SUBSET {"timer", "close"}]
    /\ result \in Results

Registered(f) == {w \in Fds \X Event : context[w[1]][w[2]] = f}
Sleeping(f) == {t \in timers : t.f = f /\ t.sleep}

\* However the event, the timer and close race, a fiber that waits inside a hook
\* is woken by exactly one of them, and a fiber that does not wait is in no
\* table and no queue: nothing resumes it in the middle of something else.
OneWakeup ==
    \A f \in Fibers :
       queued[f] + Cardinality(Registered(f)) + Cardinality(Sleeping(f))
          = IF pc[f] = "parked" THEN 1 ELSE 0

\* ETIMEDOUT is returned only if a timer of that very call has expired: the
\* callback of an earlier call, running late, never makes a later one fail.
TimeoutIsReal ==
    [][\A f \in Fibers : InCall(f) /\ ~ InCall(f)' /\ result' = "timeout"
         => expired[f]]_vars

\* A call stops its thread only on a descriptor whose O_NONBLOCK the user has set
\* (SOCK_NONBLOCK, FIONBIO): on a socket sylar made non-blocking, a call that would
\* block finds the flag set, whatever fcntl was told and whoever opens, closes or
\* waits meanwhile.
BlocksOnlyOwn == \A f \in Fibers : pc[f] = "stuck" => op[f].fd \in own

\* Every open socket that nobody is opening or closing has its FdCtx, and no
\* other number has one: an FdCtx never outlives its socket, so that a number
\* that is used again starts from a fresh one.
CtxTracksFile ==
    \A fd \in Fds : ~ Opening(fd) /\ ~ Closing(fd) =>
       (m_datas[fd] # None <=> file[fd] # "free")

\* A fiber is left waiting for a descriptor that was closed under it only if it
\* added its event between the cancelAll and the close_f of that close: whoever
\* waited before has been woken, and whoever comes later finds addEvent fail.
LeftOnlyIfLate ==
    \A f \in Fibers : pc[f] = "parked" /\ op[f].fd # None =>
       (file[op[f].fd] = "free" /\ queued[f] = 0 => "close" \in missed[f])

\* connect returns 0 only on a socket that is connected.
ConnectTruthful ==
    [][\A f \in Fibers : pc[f] = "sockopt" /\ pc'[f] = "user" /\ result' = "ok"
         => file[op[f].fd] = "up"]_vars

\* A call with a timeout returns, whether or not anything ever arrives, unless its
\* thread is stopped, or the timer's callback or a close came while it was not
\* registered: no other order of event, callback, retry and close keeps a fiber in
\* such a call for ever.
TimedCallsReturn ==
    \A f \in Fibers :
       []<>(InCall(f) /\ op[f].timed => missed[f] # {} \/ pc[f] = "stuck")

================================================================================
