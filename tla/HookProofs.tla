------------------------------- MODULE HookProofs -------------------------------
(***************************************************************************)
(* Proofs about Hook, for any number of fibers, descriptors and calls.     *)
(***************************************************************************)
EXTENDS Hook, FiniteSetTheorems, TLAPS

Waiting == {"io", "accept", "connect"}

\* What a call can be at each point of it.
ShapeOf(p, o) ==
    /\ p = "user" => o = NoOp
    /\ p \in {"fun", "event", "stuck"} => o.kind \in Waiting /\ o.fd \in Fds
    /\ p = "parked" => \/ o.kind = "sleep" /\ o.fd = None
                       \/ o.kind \in Waiting /\ o.fd \in Fds
    /\ p = "sockopt" => o.kind = "connect" /\ o.fd \in Fds
    /\ p \in {"get", "create"} => o.kind \in {"socket", "accept"} /\ o.fd \in Fds
    /\ p \in {"closeDel", "closeFd"} => o.kind = "close" /\ o.fd \in Fds

CallShape == \A f \in Fibers : ShapeOf(pc[f], op[f])

\* Fiber f is in the part of its call that registers it.
Waits(f) == pc[f] \in {"fun", "event", "parked", "stuck"} /\ op[f].fd \in Fds

\* The callers' duty (Mine) is kept.
OneWaiter ==
    \A f, g \in Fibers :
        f # g /\ Waits(f) /\ Waits(g) /\ op[f].fd = op[g].fd => op[f].ev # op[g].ev

\* Only a callback of do_io or connect gets past "due", and it has a descriptor.
TimerShape ==
    \A t \in timers :
        /\ t.at \in {"locked", "set"} => ~ t.sleep
        /\ ~ t.sleep => t.fd \in Fds

\* A fiber is in the list only while it waits; where it is registered, or has a
\* timer to wake it, it waits for just that and is not in the list; and who waits
\* is in one of the three places.
Wakeups ==
    /\ \A f \in Fibers : pc[f] # "parked" => queued[f] = 0
    /\ \A f \in Fibers, fd \in Fds, e \in Event : context[fd][e] = f =>
          pc[f] = "parked" /\ op[f].fd = fd /\ op[f].ev = e /\ queued[f] = 0
    /\ \A t \in timers : t.sleep =>
          pc[t.f] = "parked" /\ op[t.f].kind = "sleep" /\ queued[t.f] = 0
    /\ \A t, u \in timers : t.sleep /\ u.sleep /\ t.f = u.f => t = u
    /\ \A f \in Fibers : pc[f] = "parked" =>
          \/ queued[f] = 1
          \/ op[f].fd \in Fds /\ context[op[f].fd][op[f].ev] = f
          \/ \E t \in timers : t.sleep /\ t.f = f

\* A timer knows by its number the call it belongs to, and the number of a call
\* is never used again; a callback that has been collected, or that has set
\* cancelled, has expired during the call it belongs to.
TimersOfCalls ==
    /\ \A t \in timers :
          /\ t.call > 0 /\ t.call <= calls
          /\ t.at # "armed" /\ Alive(t) => expired[t.f]
    /\ \A f \in Fibers :
          /\ cancelled[f] => expired[f]
          /\ op[f].no <= calls
          /\ pc[f] # "user" => op[f].no > 0

-----------------------------------------------------------------------------
(* Types *)

USE DEF Event

LEMMA WakeTypes ==
    ASSUME TypeOK, NEW fd, NEW evs, Wake(fd, evs)
    PROVE  /\ queued' \in [Fibers -> Nat]
           /\ context' \in [Fds -> [Event -> Fibers \union {None}]]
<1>1. queued' \in [Fibers -> Nat]
  BY DEF TypeOK, Wake
<1>2. CASE fd \in Fds
  BY <1>1, <1>2 DEF TypeOK, Wake
<1>3. CASE fd \notin Fds
  BY <1>1, <1>3 DEF TypeOK, Wake
<1>4. QED
  BY <1>2, <1>3

LEMMA EnvironmentTypes ==
    ASSUME TypeOK, Environment \/ Triggers
    PROVE  TypeOK'
<1> USE DEF TypeOK, Files
<1>1. ASSUME NEW fd \in Fds, NEW how \in {"up", "refused"}, Resolve(fd, how) PROVE TypeOK'
  BY <1>1 DEF Resolve, callVars, wakeVars
<1>2. ASSUME NEW fd \in Fds, NEW ev \in Event, Arrive(fd, ev) PROVE TypeOK'
  BY <1>2 DEF Arrive, callVars, wakeVars
<1>3. ASSUME NEW fd \in Fds, NEW ev \in Event, Steal(fd, ev) PROVE TypeOK'
  BY <1>3 DEF Steal, callVars, wakeVars
<1>4. ASSUME NEW fd \in Fds, Listen(fd) PROVE TypeOK'
  BY <1>4 DEF Listen, Kernel, callVars, wakeVars
<1>5. ASSUME NEW fd \in Fds, NEW ev \in Event, Trigger(fd, ev) PROVE TypeOK'
  BY <1>5, WakeTypes DEF Trigger, callVars, kernelVars
<1>6. QED
  BY <1>1, <1>2, <1>3, <1>4, <1>5 DEF Environment, Triggers

LEMMA TimerTypes ==
    ASSUME TypeOK, NEW f \in Fibers, Timers(f)
    PROVE  TypeOK'
<1> USE DEF TypeOK
<1>1. PICK t \in timers : t.f = f /\ TimerStep(t)
  BY DEF Timers
<1>2. /\ t \in Timer /\ t.f = f
      /\ \A a \in {"armed", "due", "locked", "set"} : [t EXCEPT !.at = a] \in Timer
  BY <1>1 DEF Timer
<1>3. ASSUME Expire(t) PROVE TypeOK'
  <2>1. expired' \in [Fibers -> BOOLEAN]
    BY <1>2, <1>3, Zenon DEF Expire
  <2>2. timers' \in SUBSET Timer
    BY <1>2, <1>3 DEF Expire, Move
  <2>3. QED
    BY <1>3, <2>1, <2>2 DEF Expire, kernelVars
<1>4. ASSUME RunSleep(t) PROVE TypeOK'
  BY <1>2, <1>4 DEF RunSleep, kernelVars, callVars
<1>5. ASSUME RunTimeout(t) PROVE TypeOK'
  <2>1. timers' \in SUBSET Timer
    BY <1>2, <1>5 DEF RunTimeout, Move
  <2>2. QED
    BY <2>1, <1>5 DEF RunTimeout, kernelVars, callVars
<1>6. ASSUME SetCancelled(t) PROVE TypeOK'
  <2>1. cancelled' \in [Fibers -> BOOLEAN]
    BY <1>2, <1>6, Zenon DEF SetCancelled, Alive
  <2>2. timers' \in SUBSET Timer
    BY <1>2, <1>6 DEF SetCancelled, Move
  <2>3. QED
    BY <1>6, <2>1, <2>2 DEF SetCancelled, kernelVars
<1>7. ASSUME CancelEvent(t) PROVE TypeOK'
  <2>1. missed' \in [Fibers -> SUBSET {"timer", "close"}]
    BY <1>2, <1>7 DEF CancelEvent
  <2>2. QED
    BY <1>7, <2>1, WakeTypes DEF CancelEvent, kernelVars
<1>8. QED
  BY <1>1, <1>3, <1>4, <1>5, <1>6, <1>7 DEF TimerStep

\* The ways a call goes on or ends keep the types of what they change.
LEMMA GoTypes ==
    ASSUME TypeOK, NEW f \in Fibers,
           \/ \E label \in Labels : Continue(f, label)
           \/ \E r \in Results : Return(f, r)
    PROVE  /\ pc' \in [Fibers -> Labels] /\ op' \in [Fibers -> Op]
           /\ cancelled' \in [Fibers -> BOOLEAN] /\ expired' \in [Fibers -> BOOLEAN]
           /\ missed' \in [Fibers -> SUBSET {"timer", "close"}]
           /\ result' \in Results
<1> USE DEF TypeOK
<1>1. ASSUME NEW label \in Labels, Continue(f, label) PROVE pc' \in [Fibers -> Labels]
  BY <1>1 DEF Continue, Goto
<1>2. NoOp \in Op
  BY DEF NoOp, Op, Kinds
<1>3. ASSUME NEW r \in Results, Return(f, r)
      PROVE  /\ pc' \in [Fibers -> Labels] /\ op' \in [Fibers -> Op]
             /\ cancelled' \in [Fibers -> BOOLEAN] /\ expired' \in [Fibers -> BOOLEAN]
             /\ missed' \in [Fibers -> SUBSET {"timer", "close"}]
             /\ result' \in Results
  BY <1>2, <1>3 DEF Return, Goto, Labels
<1>4. QED
  BY <1>1, <1>3 DEF Continue

LEMMA NewTimerTypes ==
    ASSUME TypeOK, NEW f \in Fibers, NEW call \in Nat, NEW sleep \in BOOLEAN,
           NEW fd \in Fds \union {None}, NEW ev \in Event,
           NewTimer(f, call, sleep, fd, ev)
    PROVE  timers' \in SUBSET Timer /\ made' \in [Fibers -> Nat]
<1> DEFINE t == [f |-> f, n |-> made[f] + 1, call |-> call, sleep |-> sleep,
                 fd |-> fd, ev |-> ev, at |-> "armed"]
<1>1. made[f] + 1 \in Nat /\ made' \in [Fibers -> Nat]
  BY DEF TypeOK, NewTimer
<1>2. t \in Timer
  BY <1>1 DEF Timer
<1>3. timers' = timers \union {t}
  BY DEF NewTimer
<1>4. QED
  BY <1>1, <1>2, <1>3 DEF TypeOK

LEMMA BlocksTypes ==
    ASSUME TypeOK, NEW f \in Fibers, Blocks(f)
    PROVE  /\ pc' \in [Fibers -> Labels] /\ op' \in [Fibers -> Op]
           /\ cancelled' \in [Fibers -> BOOLEAN] /\ expired' \in [Fibers -> BOOLEAN]
           /\ missed' \in [Fibers -> SUBSET {"timer", "close"}]
           /\ result' \in Results
           /\ timers' \in SUBSET Timer /\ made' \in [Fibers -> Nat]
<1>1. op[f] \in Op
  BY DEF TypeOK
<1>2. op[f].no \in Nat /\ op[f].fd \in Fds \union {None} /\ op[f].ev \in Event
  BY <1>1 DEF Op
<1>3. timers' \in SUBSET Timer /\ made' \in [Fibers -> Nat]
  <2>1. CASE NewTimer(f, op[f].no, FALSE, op[f].fd, op[f].ev)
    BY <1>2, <2>1, NewTimerTypes
  <2>2. CASE UNCHANGED <<timers, made>>
    BY <2>2 DEF TypeOK
  <2>3. QED
    BY <2>1, <2>2 DEF Blocks
<1>4. "stuck" \in Labels /\ "event" \in Labels /\ "again" \in Results
  BY DEF Labels, Results
<1>5. \/ \E label \in Labels : Continue(f, label)
      \/ \E r \in Results : Return(f, r)
  BY <1>4, Zenon DEF Blocks
<1>6. QED
  BY <1>3, <1>5, GoTypes

LEMMA FailsTypes ==
    ASSUME TypeOK, NEW f \in Fibers, NEW fd, Fails(f, fd)
    PROVE  /\ pc' \in [Fibers -> Labels] /\ op' \in [Fibers -> Op]
           /\ cancelled' \in [Fibers -> BOOLEAN] /\ expired' \in [Fibers -> BOOLEAN]
           /\ missed' \in [Fibers -> SUBSET {"timer", "close"}]
           /\ result' \in Results
           /\ timers' \in SUBSET Timer /\ made' \in [Fibers -> Nat]
           /\ file' \in [Fds -> Files] /\ ready' \in [Fds -> SUBSET Event]
<1>1. Return(f, "error") /\ "error" \in Results
  BY DEF Fails, Results
<1>2. file' \in [Fds -> Files] /\ ready' \in [Fds -> SUBSET Event]
  BY DEF TypeOK, Fails, Kernel, Files
<1>3. QED
  BY <1>1, <1>2, GoTypes DEF Fails, TypeOK

LEMMA BeginTypes ==
    ASSUME TypeOK, NEW f \in Fibers, NEW kind \in Kinds, NEW fd \in Fds \union {None},
           NEW ev \in Event, NEW hooked \in BOOLEAN, NEW timed \in BOOLEAN,
           Begin(f, kind, fd, ev, hooked, timed)
    PROVE  /\ calls' \in Nat /\ op' \in [Fibers -> Op]
           /\ cancelled' \in [Fibers -> BOOLEAN] /\ expired' \in [Fibers -> BOOLEAN]
           /\ missed' \in [Fibers -> SUBSET {"timer", "close"}]
<1> DEFINE new == [kind |-> kind, no |-> calls + 1, fd |-> fd, ev |-> ev,
                   hooked |-> hooked, timed |-> timed]
<1>1. calls + 1 \in Nat
  BY DEF TypeOK
<1>2. new \in Op
  BY <1>1 DEF Op
<1>3. op' = [op EXCEPT ![f] = new]
  BY DEF Begin
<1>4. QED
  BY <1>1, <1>2, <1>3 DEF Begin, TypeOK

LEMMA CallTypes ==
    ASSUME TypeOK, NEW f \in Fibers, Calls(f)
    PROVE  TypeOK'
<1>1. ASSUME NEW fd \in Fds, NEW ev \in Event, NEW kind \in Kinds, NEW timed \in BOOLEAN,
             Begin(f, kind, fd, ev, Hooked(fd), timed), Goto(f, "fun"),
             UNCHANGED <<kernelVars, m_datas, wakeVars, made, result>>
      PROVE  TypeOK'
  <2>1. Hooked(fd) \in BOOLEAN
    BY DEF Hooked
  <2>2. /\ calls' \in Nat /\ op' \in [Fibers -> Op]
        /\ cancelled' \in [Fibers -> BOOLEAN] /\ expired' \in [Fibers -> BOOLEAN]
        /\ missed' \in [Fibers -> SUBSET {"timer", "close"}]
    BY <1>1, <2>1, BeginTypes
  <2>3. QED
    BY <1>1, <2>2 DEF TypeOK, Goto, Labels, kernelVars, wakeVars
<1>2. ASSUME NEW fd \in Fds, NEW ev \in Event, Io(f, fd, ev) PROVE TypeOK'
  <2>1. "io" \in Kinds
    BY DEF Kinds
  <2>2. (Hooked(fd) /\ ev \in m_datas[fd].to) \in BOOLEAN
    OBVIOUS
  <2>3. QED
    BY <1>1, <1>2, <2>1, <2>2 DEF Io
<1>3. ASSUME NEW fd \in Fds, Accept(f, fd) PROVE TypeOK'
  <2>1. "accept" \in Kinds
    BY DEF Kinds
  <2>2. (Hooked(fd) /\ "READ" \in m_datas[fd].to) \in BOOLEAN
    OBVIOUS
  <2>3. QED
    BY <1>1, <1>3, <2>1, <2>2 DEF Accept
<1>4. ASSUME NEW fd \in Fds, NEW timed \in BOOLEAN, Connect(f, fd, timed) PROVE TypeOK'
  <2>1. "connect" \in Kinds
    BY DEF Kinds
  <2>2. (Hooked(fd) /\ timed) \in BOOLEAN
    OBVIOUS
  <2>3. QED
    BY <1>1, <1>4, <2>1, <2>2 DEF Connect
<1>5. ASSUME Sleep(f) PROVE TypeOK'
  <2>1. "sleep" \in Kinds /\ calls + 1 \in Nat /\ None \in Fds \union {None}
    BY DEF Kinds, TypeOK
  <2>2. /\ calls' \in Nat /\ op' \in [Fibers -> Op]
        /\ cancelled' \in [Fibers -> BOOLEAN] /\ expired' \in [Fibers -> BOOLEAN]
        /\ missed' \in [Fibers -> SUBSET {"timer", "close"}]
    BY <1>5, <2>1, BeginTypes DEF Sleep
  <2>3. timers' \in SUBSET Timer /\ made' \in [Fibers -> Nat]
    BY <1>5, <2>1, NewTimerTypes DEF Sleep
  <2>4. QED
    BY <1>5, <2>2, <2>3 DEF Sleep, TypeOK, Goto, Labels, kernelVars
<1>6. ASSUME Socket(f) PROVE TypeOK'
  <2>1. PICK fd \in Numbers, v \in BOOLEAN :
           /\ Begin(f, "socket", fd, "READ", TRUE, FALSE)
           /\ Kernel(fd, "new", {})
           /\ nonblock' = [nonblock EXCEPT ![fd] = v]
           /\ own' = IF v THEN own \union {fd} ELSE own \ {fd}
           /\ Goto(f, "get")
           /\ UNCHANGED <<steals, m_datas, wakeVars, made, result>>
    BY <1>6 DEF Socket
  <2>2. "socket" \in Kinds /\ fd \in Fds
    BY DEF Kinds, Numbers
  <2>3. /\ calls' \in Nat /\ op' \in [Fibers -> Op]
        /\ cancelled' \in [Fibers -> BOOLEAN] /\ expired' \in [Fibers -> BOOLEAN]
        /\ missed' \in [Fibers -> SUBSET {"timer", "close"}]
    BY <2>1, <2>2, BeginTypes
  <2>4. QED
    BY <2>1, <2>2, <2>3 DEF TypeOK, Goto, Kernel, Files, Labels, wakeVars
<1>7. ASSUME NEW fd \in Fds, Close(f, fd) PROVE TypeOK'
  <2>1. "close" \in Kinds
    BY DEF Kinds
  <2>2. /\ calls' \in Nat /\ op' \in [Fibers -> Op]
        /\ cancelled' \in [Fibers -> BOOLEAN] /\ expired' \in [Fibers -> BOOLEAN]
        /\ missed' \in [Fibers -> SUBSET {"timer", "close"}]
    BY <1>7, <2>1, BeginTypes DEF Close
  <2>3. queued' \in [Fibers -> Nat] /\ context' \in [Fds -> [Event -> Fibers \union {None}]]
    BY <1>7, WakeTypes DEF Close, CancelAll
  <2>4. QED
    BY <1>7, <2>2, <2>3 DEF Close, TypeOK, Goto, Labels, kernelVars
<1>8. ASSUME NEW fd \in Fds, Option(f, fd) PROVE TypeOK'
  <2> DEFINE Flagged == /\ m_datas' \in [Fds -> FdCtx \union {None}]
                        /\ nonblock' \in [Fds -> BOOLEAN]
                        /\ own' \in SUBSET Fds
  <2>1. m_datas[fd] # None => m_datas[fd] \in FdCtx
    BY DEF TypeOK
  <2>2. m_datas[fd] # None =>
        /\ m_datas[fd].sys \in BOOLEAN
        /\ \A v \in BOOLEAN : [m_datas[fd] EXCEPT !.user = v] \in FdCtx
        /\ \A ev \in Event :
              [m_datas[fd] EXCEPT !.to = m_datas[fd].to \union {ev}] \in FdCtx
    BY <2>1 DEF FdCtx
  <2>3. Flagged
    <3>1. ASSUME NEW v \in BOOLEAN, Fcntl(fd, v) \/ Ioctl(fd, v), m_datas[fd] # None
          PROVE  Flagged
      BY <2>2, <3>1 DEF TypeOK, Fcntl, Ioctl
    <3>2. ASSUME NEW ev \in Event, SetTimeout(fd, ev), m_datas[fd] # None PROVE Flagged
      BY <2>2, <3>2 DEF TypeOK, SetTimeout
    <3>3. ASSUME NEW v \in BOOLEAN, SetRaw(fd, v) PROVE Flagged
      BY <3>3 DEF TypeOK, SetRaw
    <3>4. QED
      BY <1>8, <3>1, <3>2, <3>3 DEF Option
  <2>4. QED
    BY <1>8, <2>3 DEF Option, TypeOK, wakeVars
<1>9. QED
  BY <1>2, <1>3, <1>4, <1>5, <1>6, <1>7, <1>8 DEF Calls

LEMMA InsideTypes ==
    ASSUME TypeOK, NEW f \in Fibers, Inside(f)
    PROVE  TypeOK'
<1>0. op[f] \in Op /\ op[f].fd \in Fds \union {None} /\ op[f].ev \in Event
  BY DEF TypeOK, Op
<1>l. /\ "parked" \in Labels /\ "sockopt" \in Labels /\ "fun" \in Labels
      /\ "get" \in Labels /\ "create" \in Labels /\ "closeFd" \in Labels
      /\ "ok" \in Results /\ "error" \in Results /\ "timeout" \in Results
  BY DEF Labels, Results
<1> DEFINE Moved == /\ pc' \in [Fibers -> Labels] /\ op' \in [Fibers -> Op]
                    /\ cancelled' \in [Fibers -> BOOLEAN]
                    /\ expired' \in [Fibers -> BOOLEAN]
                    /\ missed' \in [Fibers -> SUBSET {"timer", "close"}]
                    /\ result' \in Results
           Timed == timers' \in SUBSET Timer /\ made' \in [Fibers -> Nat]
           Filed == file' \in [Fds -> Files] /\ ready' \in [Fds -> SUBSET Event]
<1>r. ASSUME NEW r \in Results, Return(f, r) PROVE Moved
  BY <1>r, GoTypes
<1>c. ASSUME NEW label \in Labels, Continue(f, label) PROVE Moved
  BY <1>c, GoTypes
<1>t. ASSUME UNCHANGED <<timers, made>> PROVE Timed
  BY <1>t DEF TypeOK
<1>k. ASSUME UNCHANGED <<file, ready>> PROVE Filed
  BY <1>k DEF TypeOK
<1>x. CancelTimer(f) => timers' \in SUBSET Timer
  BY DEF CancelTimer, TypeOK
<1>1. ASSUME FunIo(f) PROVE TypeOK'
  <2>1. Moved /\ Timed /\ Filed
    <3>1. CASE \E rest \in {ready[op[f].fd], ready[op[f].fd] \ {op[f].ev}} :
                  Kernel(op[f].fd, "up", rest)
      <4>1. CASE Return(f, "ok") /\ UNCHANGED <<timers, made>>
        <5>1. Moved /\ Timed
          BY <1>r, <1>t, <1>l, <4>1
        <5>2. PICK rest : Kernel(op[f].fd, "up", rest) /\ (op[f].fd \in Fds => rest \subseteq Event)
          BY <3>1 DEF TypeOK
        <5>3. Filed
          BY <5>2 DEF TypeOK, Kernel, Files
        <5>4. QED
          BY <5>1, <5>3
      <4>2. CASE Blocks(f) /\ UNCHANGED <<file, ready>>
        BY <4>2, <1>k, BlocksTypes
      <4>3. CASE Fails(f, op[f].fd)
        BY <4>3, FailsTypes
      <4>4. QED
        BY <1>1, <4>1, <4>2, <4>3 DEF FunIo
    <3>2. CASE Blocks(f) /\ UNCHANGED <<file, ready>>
      BY <3>2, <1>k, BlocksTypes
    <3>3. CASE Fails(f, op[f].fd)
      BY <3>3, FailsTypes
    <3>4. QED
      BY <1>1, <3>1, <3>2, <3>3 DEF FunIo
  <2>2. QED
    BY <1>1, <2>1 DEF FunIo, TypeOK
<1>2. ASSUME FunAccept(f) PROVE TypeOK'
  <2>1. Moved /\ Timed /\ Filed /\ nonblock' \in [Fds -> BOOLEAN] /\ own' \in SUBSET Fds
    <3>1. ASSUME NEW new \in Numbers, NEW rest \in {{}, {"READ"}},
                 file' = [file EXCEPT ![new] = "up"],
                 nonblock' = [nonblock EXCEPT ![new] = FALSE],
                 own' = own \ {new},
                 ready' = [ready EXCEPT ![new] = {"WRITE"}, ![op[f].fd] = rest],
                 op' = [op EXCEPT ![f].fd = new],
                 Goto(f, "get"),
                 UNCHANGED <<timers, made, cancelled, expired, missed, result>>
          PROVE  Moved /\ Timed /\ Filed /\ nonblock' \in [Fds -> BOOLEAN] /\ own' \in SUBSET Fds
      <4>1. new \in Fds
        BY DEF Numbers
      <4>2. [op[f] EXCEPT !.fd = new] \in Op
        BY <1>0, <4>1 DEF Op
      <4>3. Filed
        BY <3>1 DEF TypeOK, Files
      <4>4. nonblock' \in [Fds -> BOOLEAN]
        BY <3>1 DEF TypeOK
      <4>5. op' \in [Fibers -> Op]
        BY <3>1, <4>2 DEF TypeOK
      <4>6. QED
        BY <1>l, <3>1, <4>3, <4>4, <4>5 DEF TypeOK, Goto
    <3>2. CASE Blocks(f) /\ UNCHANGED <<file, ready, nonblock, own>>
      BY <3>2, <1>k, BlocksTypes DEF TypeOK
    <3>3. CASE Fails(f, op[f].fd) /\ UNCHANGED <<nonblock, own>>
      BY <3>3, FailsTypes DEF TypeOK
    <3>4. QED
      BY <1>2, <3>1, <3>2, <3>3, Zenon DEF FunAccept
  <2>2. QED
    BY <1>2, <2>1 DEF FunAccept, TypeOK
<1>3. ASSUME FunConnect(f) PROVE TypeOK'
  <2>1. Moved /\ Timed /\ Filed
    <3>1. CASE Kernel(op[f].fd, "up", {"WRITE"}) /\ Return(f, "ok") /\ UNCHANGED <<timers, made>>
      <4>1. Moved /\ Timed
        BY <1>r, <1>t, <1>l, <3>1
      <4>2. Filed
        BY <3>1 DEF TypeOK, Kernel, Files
      <4>3. QED
        BY <4>1, <4>2
    <3>2. CASE Kernel(op[f].fd, "pending", {}) /\ Blocks(f)
      <4>1. Filed
        BY <3>2 DEF TypeOK, Kernel, Files
      <4>2. QED
        BY <3>2, <4>1, BlocksTypes
    <3>3. CASE Fails(f, op[f].fd)
      BY <3>3, FailsTypes
    <3>4. QED
      BY <1>3, <3>1, <3>2, <3>3 DEF FunConnect
  <2>2. QED
    BY <1>3, <2>1 DEF FunConnect, TypeOK
<1>4. ASSUME SockOpt(f) PROVE TypeOK'
  <2>1. Moved /\ Timed /\ Filed
    <3>1. CASE Fails(f, op[f].fd)
      BY <3>1, FailsTypes
    <3>2. CASE Return(f, "ok") /\ UNCHANGED <<file, ready, timers, made>>
      BY <1>r, <1>t, <1>k, <1>l, <3>2
    <3>3. QED
      BY <1>4, <3>1, <3>2 DEF SockOpt
  <2>2. QED
    BY <1>4, <2>1 DEF SockOpt, TypeOK
<1>5. ASSUME AddEvent(f) PROVE TypeOK'
  <2>1. Moved
    BY <1>5, <1>l DEF AddEvent, Goto, TypeOK
  <2>2. context' \in [Fds -> [Event -> Fibers \union {None}]]
    BY <1>5 DEF AddEvent, TypeOK
  <2>3. QED
    BY <1>5, <2>1, <2>2 DEF AddEvent, TypeOK, kernelVars
<1>6. ASSUME AddEventFails(f) PROVE TypeOK'
  <2>1. Moved
    BY <1>6, <1>c, <1>r, <1>l DEF AddEventFails
  <2>2. timers' \in SUBSET Timer
    BY <1>6, <1>x DEF AddEventFails
  <2>3. QED
    BY <1>6, <2>1, <2>2 DEF AddEventFails, TypeOK, kernelVars
<1>7. ASSUME Resume(f) PROVE TypeOK'
  <2>1. Moved
    BY <1>7, <1>c, <1>r, <1>l DEF Resume
  <2>2. timers' \in SUBSET Timer
    BY <1>7, <1>x DEF Resume, TypeOK
  <2>3. queued' \in [Fibers -> Nat]
    <3>1. queued[f] \in Nat /\ queued[f] > 0 /\ queued' = [queued EXCEPT ![f] = @ - 1]
      BY <1>7 DEF Resume, Scheduled, TypeOK
    <3>2. queued[f] - 1 \in Nat
      BY <3>1
    <3>3. QED
      BY <3>1, <3>2 DEF TypeOK
  <2>4. QED
    BY <1>7, <2>1, <2>2, <2>3 DEF Resume, TypeOK, kernelVars
<1>8. ASSUME Get(f) PROVE TypeOK'
  <2>1. Moved
    BY <1>8, <1>c, <1>r, <1>l DEF Get
  <2>2. QED
    BY <1>8, <2>1 DEF Get, TypeOK, kernelVars, wakeVars
<1>9. ASSUME Create(f) PROVE TypeOK'
  <2>1. Moved
    BY <1>9, <1>r, <1>l DEF Create
  <2>2. /\ nonblock' = [nonblock EXCEPT ![op[f].fd] = TRUE]
        /\ m_datas' = [m_datas EXCEPT ![op[f].fd] =
              [sys |-> ~ nonblock[op[f].fd], user |-> FALSE, to |-> {}]]
    BY <1>9 DEF Create, FdCtxInit
  <2>3. nonblock' \in [Fds -> BOOLEAN]
    BY <2>2 DEF TypeOK
  <2>4. [sys |-> ~ nonblock[op[f].fd], user |-> FALSE, to |-> {}] \in FdCtx
    <3>1. (~ nonblock[op[f].fd]) \in BOOLEAN
      OBVIOUS
    <3>2. QED
      BY <3>1 DEF FdCtx
  <2>5. m_datas' \in [Fds -> FdCtx \union {None}]
    BY <2>2, <2>4 DEF TypeOK
  <2>6. QED
    BY <1>9, <2>1, <2>3, <2>5 DEF Create, TypeOK, wakeVars
<1>10. ASSUME CloseDel(f) PROVE TypeOK'
  <2>1. Moved
    BY <1>10, <1>c, <1>l DEF CloseDel
  <2>2. QED
    BY <1>10, <2>1 DEF CloseDel, Del, TypeOK, kernelVars, wakeVars
<1>11. ASSUME CloseFd(f) PROVE TypeOK'
  <2>1. Moved
    BY <1>11, <1>r, <1>l DEF CloseFd
  <2>2. QED
    BY <1>11, <2>1 DEF CloseFd, Kernel, Files, TypeOK, wakeVars
<1>12. ASSUME Unblock(f) PROVE TypeOK'
  <2>1. Moved
    BY <1>12, <1>c, <1>l DEF Unblock
  <2>2. QED
    BY <1>12, <2>1 DEF Unblock, TypeOK, kernelVars, wakeVars
<1>13. QED
  BY <1>1, <1>2, <1>3, <1>4, <1>5, <1>6, <1>7, <1>8, <1>9, <1>10, <1>11, <1>12 DEF Inside

LEMMA TypesInit == Init => TypeOK
<1> SUFFICES ASSUME Init PROVE TypeOK
  OBVIOUS
<1>1. /\ \A s \in BOOLEAN : [sys |-> s, user |-> FALSE, to |-> Event] \in FdCtx
      /\ NoOp \in Op
  BY DEF FdCtx, NoOp, Op, Kinds
<1>2. nonblock \in [Fds -> BOOLEAN]
  <2>1. nonblock = [fd \in Fds |-> fd \in Open] /\ \A fd \in Fds : (fd \in Open) \in BOOLEAN
    BY DEF Init
  <2>2. QED
    BY <2>1
<1>3. m_datas \in [Fds -> FdCtx \union {None}]
  <2>1. \A fd \in Fds : (fd \notin own) \in BOOLEAN
    OBVIOUS
  <2>2. QED
    BY <1>1, <2>1 DEF Init
<1>4. own \in SUBSET Fds
  BY OpenAssumption DEF Init
<1>5. QED
  BY <1>1, <1>2, <1>3, <1>4 DEF Init, TypeOK, Files, Labels, Results

LEMMA TypesStep == TypeOK /\ [Next]_vars => TypeOK'
<1>1. ASSUME TypeOK, UNCHANGED vars PROVE TypeOK'
  BY <1>1 DEF TypeOK, vars, kernelVars, wakeVars, callVars
<1>2. QED
  BY <1>1, EnvironmentTypes, TimerTypes, CallTypes, InsideTypes DEF Next

\* Every variable of the hooks keeps its type: a counter never goes below zero,
\* and no FdCtx is written where there is none.
THEOREM TypeCorrect == Spec => []TypeOK
  BY TypesInit, TypesStep, PTL DEF Spec

-----------------------------------------------------------------------------
(* Where a call is, and that two fibers never wait for the same event *)

Control == CallShape /\ OneWaiter

\* The fiber starts a call on a descriptor, goes on with it, or leaves it.
LEMMA ShapeSet ==
    ASSUME TypeOK, CallShape, NEW f \in Fibers, NEW p, NEW o, ShapeOf(p, o),
           pc' = [pc EXCEPT ![f] = p], op' = [op EXCEPT ![f] = o]
    PROVE  CallShape'
  BY Zenon DEF TypeOK, CallShape

LEMMA ControlGoto ==
    ASSUME TypeOK, Control, NEW f \in Fibers, NEW label, Goto(f, label), UNCHANGED op,
           ShapeOf(label, op[f]),
           label \in {"fun", "event", "parked", "stuck"} => Waits(f) \/ op[f].fd = None
    PROVE  Control'
<1>1. pc' = [pc EXCEPT ![f] = label] /\ op' = op
  BY DEF Goto
<1>2. op' = [op EXCEPT ![f] = op[f]]
  BY <1>1 DEF TypeOK
<1>3. CallShape'
  BY <1>1, <1>2, ShapeSet DEF Control
<1>4. \A g \in Fibers : Waits(g)' => Waits(g) /\ op'[g] = op[g]
  BY <1>1, HookNone DEF Waits, TypeOK
<1>5. QED
  BY <1>3, <1>4 DEF Control, OneWaiter

LEMMA ControlContinue ==
    ASSUME TypeOK, Control, NEW f \in Fibers, NEW label, Continue(f, label),
           ShapeOf(label, op[f]),
           label \in {"fun", "event", "parked", "stuck"} => Waits(f) \/ op[f].fd = None
    PROVE  Control'
  BY ControlGoto DEF Continue

LEMMA ControlReturn ==
    ASSUME TypeOK, Control, NEW f \in Fibers, NEW r, Return(f, r)
    PROVE  Control'
<1>1. pc' = [pc EXCEPT ![f] = "user"] /\ op' = [op EXCEPT ![f] = NoOp]
  BY DEF Return, Goto
<1>2. ShapeOf("user", NoOp)
  BY DEF ShapeOf
<1>3. CallShape'
  BY <1>1, <1>2, ShapeSet DEF Control
<1>4. \A g \in Fibers : Waits(g)' => Waits(g) /\ op'[g] = op[g]
  BY <1>1 DEF Waits, TypeOK
<1>5. QED
  BY <1>3, <1>4 DEF Control, OneWaiter

LEMMA ControlBlocks ==
    ASSUME TypeOK, Control, NEW f \in Fibers, pc[f] = "fun", Blocks(f)
    PROVE  Control'
<1>1. op[f].kind \in Waiting /\ op[f].fd \in Fds /\ Waits(f)
  BY DEF Control, CallShape, ShapeOf, Waits
<1>2. ShapeOf("stuck", op[f]) /\ ShapeOf("event", op[f])
  BY <1>1 DEF ShapeOf
<1>3. QED
  BY <1>1, <1>2, ControlContinue, ControlReturn DEF Blocks

\* A fiber that starts to use a descriptor for an event is the only one (Mine).
LEMMA ControlBegin ==
    ASSUME TypeOK, Control, NEW f \in Fibers, NEW kind \in Waiting, NEW fd \in Fds,
           NEW ev \in Event, NEW hooked, NEW timed, Mine(f, fd, ev),
           Begin(f, kind, fd, ev, hooked, timed), Goto(f, "fun")
    PROVE  Control'
<1> DEFINE o == [kind |-> kind, no |-> calls + 1, fd |-> fd, ev |-> ev,
                 hooked |-> hooked, timed |-> timed]
<1>1. pc' = [pc EXCEPT ![f] = "fun"] /\ op' = [op EXCEPT ![f] = o]
  BY DEF Begin, Goto
<1>2. ShapeOf("fun", o)
  BY DEF ShapeOf
<1>3. CallShape'
  BY <1>1, <1>2, ShapeSet DEF Control
<1>4. /\ \A g \in Fibers : g # f => (Waits(g)' <=> Waits(g)) /\ op'[g] = op[g]
      /\ op'[f].fd = fd /\ op'[f].ev = ev
  BY <1>1 DEF Waits, TypeOK
<1>5. ASSUME NEW g \in Fibers, g # f, Waits(g), op[g].fd = fd PROVE op[g].ev # ev
  <2>1. g \in On(fd) \ {f}
    BY <1>5 DEF On, InCall, Waits
  <2>2. op[g].kind \in Waiting
    BY <1>5, HookNone DEF Waits, Control, CallShape, ShapeOf
  <2>3. QED
    BY <2>1, <2>2 DEF Mine, Waiting
<1>6. OneWaiter'
  <2> SUFFICES ASSUME NEW g \in Fibers, NEW h \in Fibers, g # h, Waits(g)', Waits(h)',
                      op'[g].fd = op'[h].fd
               PROVE  op'[g].ev # op'[h].ev
    BY Zenon DEF OneWaiter
  <2>1. CASE g = f
    BY <1>4, <1>5, <2>1
  <2>2. CASE h = f
    BY <1>4, <1>5, <2>2
  <2>3. CASE g # f /\ h # f
    BY <1>4, <2>3 DEF Control, OneWaiter
  <2>4. QED
    BY <2>1, <2>2, <2>3
<1>7. QED
  BY <1>3, <1>6 DEF Control

LEMMA ControlSame ==
    ASSUME TypeOK, Control, UNCHANGED <<pc, op>>
    PROVE  Control'
  BY DEF Control, CallShape, OneWaiter, Waits

LEMMA EnvironmentControl ==
    ASSUME TypeOK, Environment \/ Triggers \/ (\E f \in Fibers : Timers(f)) \/ UNCHANGED vars
    PROVE  UNCHANGED <<pc, op>>
  BY DEF Environment, Triggers, Timers, TimerStep, Resolve, Arrive, Steal, Listen, Trigger,
         Expire, RunSleep, RunTimeout, SetCancelled, CancelEvent, vars, callVars

LEMMA CallControl ==
    ASSUME TypeOK, Control, NEW f \in Fibers, Calls(f)
    PROVE  Control'
<1>1. ASSUME NEW fd \in Fds, NEW ev \in Event, Io(f, fd, ev) PROVE Control'
  BY <1>1, ControlBegin DEF Io, Waiting
<1>2. ASSUME NEW fd \in Fds, Accept(f, fd) PROVE Control'
  BY <1>2, ControlBegin DEF Accept, Waiting
<1>3. ASSUME NEW fd \in Fds, NEW timed \in BOOLEAN, Connect(f, fd, timed) PROVE Control'
  BY <1>3, ControlBegin DEF Connect, Waiting
<1>4. ASSUME NEW p, NEW kind, NEW fd, NEW hooked, NEW timed,
             Begin(f, kind, fd, "READ", hooked, timed), Goto(f, p),
             \/ p = "parked" /\ kind = "sleep" /\ fd = None
             \/ p = "get" /\ kind = "socket" /\ fd \in Fds
             \/ p = "closeDel" /\ kind = "close" /\ fd \in Fds
      PROVE  Control'
  <2> DEFINE o == [kind |-> kind, no |-> calls + 1, fd |-> fd, ev |-> "READ",
                   hooked |-> hooked, timed |-> timed]
  <2>1. pc' = [pc EXCEPT ![f] = p] /\ op' = [op EXCEPT ![f] = o]
    BY <1>4 DEF Begin, Goto
  <2>2. ShapeOf(p, o)
    BY <1>4 DEF ShapeOf
  <2>3. CallShape'
    BY <2>1, <2>2, ShapeSet DEF Control
  <2>4. \A g \in Fibers : Waits(g)' => Waits(g) /\ op'[g] = op[g]
    BY <1>4, <2>1, HookNone DEF Waits, TypeOK
  <2>5. QED
    BY <2>3, <2>4 DEF Control, OneWaiter
<1>5. ASSUME Sleep(f) PROVE Control'
  BY <1>4, <1>5 DEF Sleep
<1>6. ASSUME Socket(f) PROVE Control'
  BY <1>4, <1>6 DEF Socket, Numbers
<1>7. ASSUME NEW fd \in Fds, Close(f, fd) PROVE Control'
  BY <1>4, <1>7 DEF Close
<1>8. ASSUME NEW fd \in Fds, Option(f, fd) PROVE Control'
  BY <1>8, ControlSame DEF Option
<1>9. QED
  BY <1>1, <1>2, <1>3, <1>5, <1>6, <1>7, <1>8 DEF Calls

LEMMA InsideControl ==
    ASSUME TypeOK, Control, NEW f \in Fibers, Inside(f)
    PROVE  Control'
<1>0. ShapeOf(pc[f], op[f])
  BY DEF Control, CallShape
<1>1. ASSUME FunIo(f) PROVE Control'
  BY <1>1, ControlReturn, ControlBlocks DEF FunIo, Fails
<1>2. ASSUME FunAccept(f) PROVE Control'
  <2>1. ASSUME NEW new \in Numbers, op' = [op EXCEPT ![f].fd = new], Goto(f, "get")
        PROVE  Control'
    <3>1. pc[f] = "fun" /\ op[f] \in Op /\ op[f].kind = "accept" /\ new \in Fds
      BY <1>2, <2>1 DEF FunAccept, TypeOK, Numbers
    <3>2. /\ pc' = [pc EXCEPT ![f] = "get"]
          /\ op' = [op EXCEPT ![f] = [op[f] EXCEPT !.fd = new]]
      BY <2>1 DEF Goto
    <3>3. ShapeOf("get", [op[f] EXCEPT !.fd = new])
      BY <3>1 DEF ShapeOf, Op
    <3>4. CallShape'
      BY <3>2, <3>3, ShapeSet DEF Control
    <3>5. \A g \in Fibers : Waits(g)' => Waits(g) /\ op'[g] = op[g]
      BY <3>2 DEF Waits, TypeOK
    <3>6. QED
      BY <3>4, <3>5 DEF Control, OneWaiter
  <2>2. QED
    BY <1>2, <2>1, ControlReturn, ControlBlocks DEF FunAccept, Fails
<1>3. ASSUME FunConnect(f) PROVE Control'
  BY <1>3, ControlReturn, ControlBlocks DEF FunConnect, Fails
<1>4. ASSUME SockOpt(f) PROVE Control'
  BY <1>4, ControlReturn DEF SockOpt, Fails
<1>5. ASSUME AddEvent(f) PROVE Control'
  <2>1. ShapeOf("parked", op[f]) /\ Waits(f)
    BY <1>0, <1>5 DEF AddEvent, ShapeOf, Waits
  <2>2. QED
    BY <1>5, <2>1, ControlGoto DEF AddEvent
<1>6. ASSUME AddEventFails(f) PROVE Control'
  <2>1. op[f].kind = "connect" => ShapeOf("sockopt", op[f])
    BY <1>0, <1>6 DEF AddEventFails, ShapeOf
  <2>2. QED
    BY <1>6, <2>1, ControlContinue, ControlReturn DEF AddEventFails
<1>7. ASSUME Resume(f) PROVE Control'
  <2>1. /\ op[f].kind = "connect" => ShapeOf("sockopt", op[f])
        /\ op[f].kind # "sleep" => ShapeOf("fun", op[f]) /\ Waits(f)
    BY <1>0, <1>7 DEF Resume, ShapeOf, Waiting, Waits
  <2>2. QED
    BY <1>7, <2>1, ControlContinue, ControlReturn DEF Resume
<1>8. ASSUME Get(f) PROVE Control'
  <2>1. ShapeOf("create", op[f])
    BY <1>0, <1>8 DEF Get, ShapeOf
  <2>2. QED
    BY <1>8, <2>1, ControlContinue, ControlReturn DEF Get
<1>9. ASSUME Create(f) PROVE Control'
  BY <1>9, ControlReturn DEF Create
<1>10. ASSUME CloseDel(f) PROVE Control'
  <2>1. ShapeOf("closeFd", op[f])
    BY <1>0, <1>10 DEF CloseDel, ShapeOf
  <2>2. QED
    BY <1>10, <2>1, ControlContinue DEF CloseDel
<1>11. ASSUME CloseFd(f) PROVE Control'
  BY <1>11, ControlReturn DEF CloseFd
<1>12. ASSUME Unblock(f) PROVE Control'
  <2>1. /\ op[f].kind = "connect" => ShapeOf("sockopt", op[f])
        /\ ShapeOf("fun", op[f]) /\ Waits(f)
    BY <1>0, <1>12 DEF Unblock, ShapeOf, Waits
  <2>2. QED
    BY <1>12, <2>1, ControlContinue DEF Unblock
<1>13. QED
  BY <1>1, <1>2, <1>3, <1>4, <1>5, <1>6, <1>7, <1>8, <1>9, <1>10, <1>11, <1>12 DEF Inside

LEMMA ControlInvariant == Spec => [](TypeOK /\ Control)
<1>1. Init => TypeOK /\ Control
  BY TypesInit DEF Init, Control, CallShape, ShapeOf, OneWaiter, Waits
<1>2. TypeOK /\ Control /\ [Next]_vars => Control'
  BY EnvironmentControl, ControlSame, CallControl, InsideControl DEF Next
<1>3. QED
  BY <1>1, <1>2, TypesStep, PTL DEF Spec

-----------------------------------------------------------------------------
(* Who wakes a fiber *)

\* What most steps leave alone: who waits, and for what; the timers of the sleeps.
SameWaiters == \A f \in Fibers : /\ pc'[f] = "parked" <=> pc[f] = "parked"
                                 /\ pc[f] = "parked" => op'[f] = op[f]
SameSleepers == {t \in timers' : t.sleep} = {t \in timers : t.sleep}

LEMMA WakeupsKept ==
    ASSUME TypeOK, Wakeups, SameWaiters, SameSleepers, UNCHANGED <<context, queued>>
    PROVE  Wakeups'
<1>1. \A t : t.sleep => (t \in timers' <=> t \in timers)
  BY DEF SameSleepers
<1>2. \A t \in timers : t.f \in Fibers
  BY DEF TypeOK, Timer
<1>3. \A f \in Fibers : pc'[f] # "parked" => queued'[f] = 0
  BY DEF Wakeups, SameWaiters
<1>4. \A f \in Fibers, fd \in Fds, e \in Event : context'[fd][e] = f =>
          pc'[f] = "parked" /\ op'[f].fd = fd /\ op'[f].ev = e /\ queued'[f] = 0
  BY DEF Wakeups, SameWaiters
<1>5. \A t \in timers' : t.sleep =>
          pc'[t.f] = "parked" /\ op'[t.f].kind = "sleep" /\ queued'[t.f] = 0
  BY <1>1, <1>2 DEF Wakeups, SameWaiters
<1>6. \A t, u \in timers' : t.sleep /\ u.sleep /\ t.f = u.f => t = u
  BY <1>1 DEF Wakeups
<1>7. \A f \in Fibers : pc'[f] = "parked" =>
          \/ queued'[f] = 1
          \/ op'[f].fd \in Fds /\ context'[op'[f].fd][op'[f].ev] = f
          \/ \E t \in timers' : t.sleep /\ t.f = f
  BY <1>1 DEF Wakeups, SameWaiters
<1>8. QED
  BY <1>3, <1>4, <1>5, <1>6, <1>7 DEF Wakeups

\* Whoever is woken leaves the one place it had for the list.
LEMMA WakeupsWoken ==
    ASSUME TypeOK, Control, Wakeups, SameWaiters, SameSleepers,
           NEW fd \in Fds, NEW evs \in SUBSET Event, Wake(fd, evs)
    PROVE  Wakeups'
<1> DEFINE Woken(f) == \E e \in evs : context[fd][e] = f
<1>1. \A t : t.sleep => (t \in timers' <=> t \in timers)
  BY DEF SameSleepers
<1>2. \A t \in timers : t.f \in Fibers
  BY DEF TypeOK, Timer
<1>3. /\ \A f \in Fibers : queued'[f] = IF Woken(f) THEN queued[f] + 1 ELSE queued[f]
      /\ \A d \in Fds, e \in Event :
            context'[d][e] = IF d = fd /\ e \in evs THEN None ELSE context[d][e]
  BY DEF Wake, TypeOK
<1>4. \A f \in Fibers : Woken(f) => /\ pc[f] = "parked" /\ queued[f] = 0
                                    /\ op[f].fd = fd /\ op[f].ev \in evs
  BY DEF Wakeups
<1>5. \A f \in Fibers : pc'[f] # "parked" => queued'[f] = 0
  BY <1>3, <1>4 DEF Wakeups, SameWaiters
<1>6. \A f \in Fibers, d \in Fds, e \in Event : context'[d][e] = f =>
          pc'[f] = "parked" /\ op'[f].fd = d /\ op'[f].ev = e /\ queued'[f] = 0
  <2> SUFFICES ASSUME NEW f \in Fibers, NEW d \in Fds, NEW e \in Event, context'[d][e] = f
               PROVE  pc'[f] = "parked" /\ op'[f].fd = d /\ op'[f].ev = e /\ queued'[f] = 0
    OBVIOUS
  <2>1. context[d][e] = f /\ ~ (d = fd /\ e \in evs)
    BY <1>3, HookNone
  <2>2. pc[f] = "parked" /\ op[f].fd = d /\ op[f].ev = e /\ queued[f] = 0
    BY <2>1 DEF Wakeups
  <2>3. ~ Woken(f)
    BY <1>4, <2>1, <2>2
  <2>4. QED
    BY <1>3, <2>2, <2>3 DEF SameWaiters
<1>7. \A t \in timers' : t.sleep =>
          pc'[t.f] = "parked" /\ op'[t.f].kind = "sleep" /\ queued'[t.f] = 0
  <2> SUFFICES ASSUME NEW t \in timers', t.sleep
               PROVE  pc'[t.f] = "parked" /\ op'[t.f].kind = "sleep" /\ queued'[t.f] = 0
    OBVIOUS
  <2>1. t \in timers /\ t.f \in Fibers
    BY <1>1, <1>2
  <2>2. pc[t.f] = "parked" /\ op[t.f].kind = "sleep" /\ queued[t.f] = 0
    BY <2>1 DEF Wakeups
  <2>3. op[t.f].fd = None
    BY <2>1, <2>2 DEF Control, CallShape, ShapeOf, Waiting
  <2>4. ~ Woken(t.f)
    BY <1>4, <2>1, <2>3, HookNone
  <2>5. QED
    BY <1>3, <2>1, <2>2, <2>4 DEF SameWaiters
<1>8. \A t, u \in timers' : t.sleep /\ u.sleep /\ t.f = u.f => t = u
  BY <1>1 DEF Wakeups
<1>9. \A f \in Fibers : pc'[f] = "parked" =>
          \/ queued'[f] = 1
          \/ op'[f].fd \in Fds /\ context'[op'[f].fd][op'[f].ev] = f
          \/ \E t \in timers' : t.sleep /\ t.f = f
  <2> SUFFICES ASSUME NEW f \in Fibers, pc'[f] = "parked"
               PROVE  \/ queued'[f] = 1
                      \/ op'[f].fd \in Fds /\ context'[op'[f].fd][op'[f].ev] = f
                      \/ \E t \in timers' : t.sleep /\ t.f = f
    OBVIOUS
  <2>1. pc[f] = "parked" /\ op'[f] = op[f] /\ op[f].ev \in Event
    BY DEF SameWaiters, TypeOK, Op
  <2>2. CASE Woken(f)
    <3>1. queued'[f] = queued[f] + 1
      BY <1>3, <2>2
    <3>2. queued[f] = 0
      BY <1>4, <2>2
    <3>3. QED
      BY <3>1, <3>2
  <2>3. CASE ~ Woken(f)
    <3>1. queued'[f] = queued[f]
      BY <1>3, <2>3
    <3>2. ASSUME op[f].fd \in Fds, context[op[f].fd][op[f].ev] = f
          PROVE  context'[op[f].fd][op[f].ev] = f
      BY <1>3, <2>1, <2>3, <3>2
    <3>3. QED
      BY <1>1, <2>1, <3>1, <3>2 DEF Wakeups
  <2>4. QED
    BY <2>2, <2>3
<1>10. QED
  BY <1>5, <1>6, <1>7, <1>8, <1>9 DEF Wakeups

WakeInv == Wakeups /\ TimerShape

LEMMA ReturnWaiters ==
    ASSUME TypeOK, NEW f \in Fibers, pc[f] # "parked", NEW r, Return(f, r)
    PROVE  SameWaiters
  BY DEF Return, Goto, SameWaiters, TypeOK

LEMMA ContinueWaiters ==
    ASSUME TypeOK, NEW f \in Fibers, pc[f] # "parked", NEW label, label # "parked",
           Continue(f, label)
    PROVE  SameWaiters
  BY DEF Continue, Goto, SameWaiters, TypeOK

LEMMA BeginWaiters ==
    ASSUME TypeOK, NEW f \in Fibers, NEW kind, NEW fd, NEW ev, NEW hooked, NEW timed,
           NEW label, label # "parked", Begin(f, kind, fd, ev, hooked, timed), Goto(f, label)
    PROVE  SameWaiters
  BY DEF Begin, Goto, SameWaiters, TypeOK

\* Adding or cancelling the timer of a call that may block does not touch a sleep.
LEMMA NewTimerSleepers ==
    ASSUME TypeOK, TimerShape, NEW f \in Fibers, NEW call, NEW fd \in Fds, NEW ev,
           NewTimer(f, call, FALSE, fd, ev)
    PROVE  SameSleepers /\ TimerShape'
<1> DEFINE t == [f |-> f, n |-> made[f] + 1, call |-> call, sleep |-> FALSE,
                 fd |-> fd, ev |-> ev, at |-> "armed"]
<1>1. timers' = timers \union {t} /\ ~ t.sleep /\ t.at = "armed" /\ t.fd \in Fds
  BY DEF NewTimer
<1> HIDE DEF t
<1>2. SameSleepers
  BY <1>1 DEF SameSleepers
<1>3. TimerShape'
  BY <1>1 DEF TimerShape
<1>4. QED
  BY <1>2, <1>3

LEMMA CancelTimerSleepers ==
    ASSUME TypeOK, Wakeups, TimerShape, NEW f \in Fibers,
           pc[f] # "parked" \/ queued[f] # 0, CancelTimer(f)
    PROVE  SameSleepers /\ TimerShape'
<1>1. \A t \in timers : t.sleep => t.f # f
  BY DEF Wakeups
<1>2. timers' \subseteq timers /\ \A t \in timers : t.f # f => t \in timers'
  BY DEF CancelTimer
<1>3. QED
  BY <1>1, <1>2 DEF SameSleepers, TimerShape

LEMMA BlocksWakes ==
    ASSUME TypeOK, Control, WakeInv, NEW f \in Fibers, pc[f] = "fun", Blocks(f),
           UNCHANGED <<context, queued>>
    PROVE  WakeInv'
<1>1. op[f].fd \in Fds
  BY DEF Control, CallShape, ShapeOf
<1>2. SameWaiters
  BY ReturnWaiters, ContinueWaiters DEF Blocks
<1>3. SameSleepers /\ TimerShape'
  <2>1. CASE UNCHANGED timers
    BY <2>1 DEF SameSleepers, TimerShape, WakeInv
  <2>2. CASE NewTimer(f, op[f].no, FALSE, op[f].fd, op[f].ev)
    BY <1>1, <2>2, NewTimerSleepers DEF WakeInv
  <2>3. QED
    BY <2>1, <2>2 DEF Blocks
<1>4. QED
  BY <1>2, <1>3, WakeupsKept DEF WakeInv

\* Steps that neither wake nor add nor remove a timer, of a fiber that does not wait.
LEMMA QuietWakes ==
    ASSUME TypeOK, WakeInv, SameWaiters, UNCHANGED <<context, queued, timers>>
    PROVE  WakeInv'
  BY WakeupsKept DEF WakeInv, SameSleepers, TimerShape

LEMMA EnvironmentWakes ==
    ASSUME TypeOK, Control, WakeInv, Environment \/ Triggers \/ UNCHANGED vars
    PROVE  WakeInv'
<1>1. SameWaiters
  BY EnvironmentControl DEF SameWaiters
<1>2. ASSUME Environment \/ UNCHANGED vars PROVE WakeInv'
  <2>1. UNCHANGED <<context, queued, timers>>
    BY <1>2 DEF Environment, Resolve, Arrive, Steal, Listen, vars, wakeVars
  <2>2. QED
    BY <1>1, <2>1, QuietWakes
<1>3. ASSUME NEW fd \in Fds, NEW ev \in Event, Trigger(fd, ev) PROVE WakeInv'
  <2>1. Wake(fd, {ev}) /\ timers' = timers
    BY <1>3 DEF Trigger
  <2>2. SameSleepers /\ TimerShape'
    BY <2>1 DEF SameSleepers, TimerShape, WakeInv
  <2>3. QED
    BY <1>1, <2>1, <2>2, WakeupsWoken DEF WakeInv
<1>4. QED
  BY <1>2, <1>3 DEF Triggers

LEMMA TimerWakes ==
    ASSUME TypeOK, Control, WakeInv, NEW f \in Fibers, Timers(f)
    PROVE  WakeInv'
<1>0. SameWaiters
  BY EnvironmentControl DEF SameWaiters
<1>1. PICK t \in timers : t.f = f /\ TimerStep(t)
  BY DEF Timers
<1>2. t \in Timer /\ t.sleep \in BOOLEAN /\ t.f = f
  BY <1>1 DEF TypeOK, Timer
<1>s. /\ t.at = "locked" \/ t.at = "set" => ~ t.sleep
      /\ ~ t.sleep => t.fd \in Fds
  BY <1>1, Zenon DEF TimerShape, WakeInv
<1>m. ASSUME NEW a \in {"due", "locked", "set"}
      PROVE  /\ [t EXCEPT !.at = a].sleep = t.sleep /\ [t EXCEPT !.at = a].fd = t.fd
             /\ [t EXCEPT !.at = a].f = t.f /\ [t EXCEPT !.at = a].at = a
  BY <1>2 DEF Timer
<1>3. ASSUME Expire(t) PROVE WakeInv'
  <2> DEFINE u == [t EXCEPT !.at = "due"]
  <2>1. /\ timers' = (timers \ {t}) \union {u} /\ UNCHANGED <<context, queued, pc, op>>
        /\ u.sleep = t.sleep /\ u.fd = t.fd /\ u.f = t.f /\ u.at = "due"
    BY <1>3, <1>m DEF Expire, Move
  <2> HIDE DEF u
  <2>2. TimerShape'
    BY <1>1, <2>1 DEF TimerShape, WakeInv
  <2>3. Wakeups'
    <3>1. /\ \A g \in Fibers : pc'[g] # "parked" => queued'[g] = 0
          /\ \A g \in Fibers, fd \in Fds, e \in Event : context'[fd][e] = g =>
                pc'[g] = "parked" /\ op'[g].fd = fd /\ op'[g].ev = e /\ queued'[g] = 0
      BY <2>1 DEF Wakeups, WakeInv
    <3>2. \A v \in timers' : v.sleep =>
             pc'[v.f] = "parked" /\ op'[v.f].kind = "sleep" /\ queued'[v.f] = 0
      BY <1>1, <2>1 DEF Wakeups, WakeInv
    <3>3. \A v, w \in timers' : v.sleep /\ w.sleep /\ v.f = w.f => v = w
      BY <1>1, <2>1 DEF Wakeups, WakeInv
    <3>4. \A g \in Fibers : (\E v \in timers : v.sleep /\ v.f = g)
                            => \E v \in timers' : v.sleep /\ v.f = g
      BY <1>1, <2>1
    <3>5. \A g \in Fibers : pc'[g] = "parked" =>
             \/ queued'[g] = 1
             \/ op'[g].fd \in Fds /\ context'[op'[g].fd][op'[g].ev] = g
             \/ \E v \in timers' : v.sleep /\ v.f = g
      BY <2>1, <3>4 DEF Wakeups, WakeInv
    <3>6. QED
      BY <3>1, <3>2, <3>3, <3>5 DEF Wakeups
  <2>4. QED
    BY <2>2, <2>3 DEF WakeInv
<1>4. ASSUME RunSleep(t) PROVE WakeInv'
  <2>1. /\ timers' = timers \ {t} /\ t.sleep /\ UNCHANGED <<context, pc, op>>
        /\ queued' = [queued EXCEPT ![f] = queued[f] + 1]
    BY <1>4, <1>2 DEF RunSleep, callVars
  <2>2. /\ pc[f] = "parked" /\ op[f].kind = "sleep" /\ queued[f] = 0
        /\ \A v \in timers : v.sleep /\ v.f = f => v = t
    BY <1>1, <2>1 DEF Wakeups, WakeInv
  <2>3. op[f].fd = None
    BY <2>2 DEF Control, CallShape, ShapeOf, Waiting
  <2>4. queued'[f] = 1 /\ \A g \in Fibers \ {f} : queued'[g] = queued[g]
    BY <2>1, <2>2 DEF TypeOK
  <2>5. Wakeups'
    <3>1. \A g \in Fibers : pc'[g] # "parked" => queued'[g] = 0
      BY <2>1, <2>2, <2>4 DEF Wakeups, WakeInv
    <3>2. \A g \in Fibers, fd \in Fds, e \in Event : context'[fd][e] = g =>
             pc'[g] = "parked" /\ op'[g].fd = fd /\ op'[g].ev = e /\ queued'[g] = 0
      BY <2>1, <2>3, <2>4, HookNone DEF Wakeups, WakeInv
    <3>3. \A v \in timers' : v.sleep =>
             pc'[v.f] = "parked" /\ op'[v.f].kind = "sleep" /\ queued'[v.f] = 0
      <4>1. \A v \in timers : v.f \in Fibers
        BY DEF TypeOK, Timer
      <4>2. QED
        BY <2>1, <2>2, <2>4, <4>1 DEF Wakeups, WakeInv
    <3>4. \A v, w \in timers' : v.sleep /\ w.sleep /\ v.f = w.f => v = w
      BY <2>1 DEF Wakeups, WakeInv
    <3>5. \A g \in Fibers : pc'[g] = "parked" =>
             \/ queued'[g] = 1
             \/ op'[g].fd \in Fds /\ context'[op'[g].fd][op'[g].ev] = g
             \/ \E v \in timers' : v.sleep /\ v.f = g
      BY <1>2, <2>1, <2>4 DEF Wakeups, WakeInv
    <3>6. QED
      BY <3>1, <3>2, <3>3, <3>4, <3>5 DEF Wakeups
  <2>6. TimerShape'
    BY <2>1 DEF TimerShape, WakeInv
  <2>7. QED
    BY <2>5, <2>6 DEF WakeInv
<1>5. ASSUME NEW a \in {"locked", "set"}, ~ t.sleep, UNCHANGED <<context, queued>>,
             Move(t, a) \/ timers' = timers \ {t}
      PROVE  WakeInv'
  <2>1. t.fd \in Fds
    BY <1>1, <1>5 DEF TimerShape, WakeInv
  <2>2. /\ timers' \subseteq timers \union {[t EXCEPT !.at = a]}
        /\ timers \ {t} \subseteq timers'
    BY <1>5 DEF Move
  <2>3. SameSleepers
    BY <1>m, <1>5, <2>2 DEF SameSleepers
  <2>4. TimerShape'
    BY <1>m, <1>5, <2>1, <2>2, ZenonT(40) DEF TimerShape, WakeInv
  <2>5. QED
    BY <1>0, <1>5, <2>3, <2>4, WakeupsKept DEF WakeInv
<1>6. ASSUME RunTimeout(t) PROVE WakeInv'
  BY <1>5, <1>6 DEF RunTimeout
<1>7. ASSUME SetCancelled(t) PROVE WakeInv'
  <2>1. ~ t.sleep
    BY <1>7, <1>s DEF SetCancelled
  <2>2. QED
    BY <1>5, <1>7, <2>1 DEF SetCancelled
<1>8. ASSUME CancelEvent(t) PROVE WakeInv'
  <2>1. ~ t.sleep /\ t.fd \in Fds /\ {t.ev} \subseteq Event
    BY <1>2, <1>8, <1>s DEF CancelEvent, Timer
  <2>2. timers' = timers \ {t}
    BY <1>8 DEF CancelEvent
  <2>3. SameSleepers /\ TimerShape'
    BY <2>1, <2>2 DEF SameSleepers, TimerShape, WakeInv
  <2>4. CASE UNCHANGED <<context, queued>>
    BY <1>0, <2>3, <2>4, WakeupsKept DEF WakeInv
  <2>5. CASE Wake(t.fd, {t.ev})
    BY <1>0, <2>1, <2>3, <2>5, WakeupsWoken DEF WakeInv
  <2>6. QED
    BY <1>8, <2>4, <2>5 DEF CancelEvent
<1>9. QED
  BY <1>1, <1>3, <1>4, <1>6, <1>7, <1>8 DEF TimerStep

LEMMA CallWakes ==
    ASSUME TypeOK, Control, WakeInv, NEW f \in Fibers, Calls(f)
    PROVE  WakeInv'
<1>1. ASSUME NEW fd \in Fds, NEW ev \in Event, Io(f, fd, ev) PROVE WakeInv'
  BY <1>1, BeginWaiters, QuietWakes DEF Io, wakeVars
<1>2. ASSUME NEW fd \in Fds, Accept(f, fd) PROVE WakeInv'
  BY <1>2, BeginWaiters, QuietWakes DEF Accept, wakeVars
<1>3. ASSUME NEW fd \in Fds, NEW timed \in BOOLEAN, Connect(f, fd, timed) PROVE WakeInv'
  BY <1>3, BeginWaiters, QuietWakes DEF Connect, wakeVars
<1>4. ASSUME Socket(f) PROVE WakeInv'
  BY <1>4, BeginWaiters, QuietWakes DEF Socket, wakeVars
<1>5. ASSUME NEW fd \in Fds, Option(f, fd) PROVE WakeInv'
  <2>1. SameWaiters
    BY <1>5 DEF Option, SameWaiters
  <2>2. QED
    BY <1>5, <2>1, QuietWakes DEF Option, wakeVars
<1>6. ASSUME NEW fd \in Fds, Close(f, fd) PROVE WakeInv'
  <2>1. SameWaiters /\ Wake(fd, Event) /\ timers' = timers
    BY <1>6, BeginWaiters DEF Close, CancelAll
  <2>2. SameSleepers /\ TimerShape'
    BY <2>1 DEF SameSleepers, TimerShape, WakeInv
  <2>3. QED
    BY <2>1, <2>2, WakeupsWoken DEF WakeInv
<1>7. ASSUME Sleep(f) PROVE WakeInv'
  <2> DEFINE t == [f |-> f, n |-> made[f] + 1, call |-> calls + 1, sleep |-> TRUE,
                   fd |-> None, ev |-> "READ", at |-> "armed"]
  <2>1. /\ pc[f] = "user" /\ pc' = [pc EXCEPT ![f] = "parked"]
        /\ UNCHANGED <<context, queued>>
        /\ timers' = timers \union {t}
        /\ t.f = f /\ t.sleep /\ t.at = "armed"
    BY <1>7 DEF Sleep, Begin, Goto, NewTimer
  <2>2. /\ \A g \in Fibers \ {f} : op'[g] = op[g]
        /\ op'[f].kind = "sleep" /\ op'[f].fd = None
    BY <1>7 DEF Sleep, Begin, TypeOK
  <2> HIDE DEF t
  <2>3. /\ queued[f] = 0 /\ \A v \in timers : v.sleep => v.f # f
        /\ \A fd \in Fds, e \in Event : context[fd][e] # f
    BY <2>1 DEF WakeInv, Wakeups
  <2>4. \A g \in Fibers \ {f} : pc'[g] = pc[g]
    BY <2>1 DEF TypeOK
  <2>5. pc'[f] = "parked"
    BY <2>1 DEF TypeOK
  <2>6. Wakeups'
    <3>1. \A g \in Fibers : pc'[g] # "parked" => queued'[g] = 0
      BY <2>1, <2>4, <2>5 DEF WakeInv, Wakeups
    <3>2. \A g \in Fibers, fd \in Fds, e \in Event : context'[fd][e] = g =>
             pc'[g] = "parked" /\ op'[g].fd = fd /\ op'[g].ev = e /\ queued'[g] = 0
      BY <2>1, <2>2, <2>3, <2>4 DEF WakeInv, Wakeups
    <3>3. \A v \in timers' : v.sleep =>
             pc'[v.f] = "parked" /\ op'[v.f].kind = "sleep" /\ queued'[v.f] = 0
      <4>1. \A v \in timers : v.f \in Fibers
        BY DEF TypeOK, Timer
      <4>2. QED
        BY <2>1, <2>2, <2>3, <2>4, <2>5, <4>1 DEF WakeInv, Wakeups
    <3>4. \A v, w \in timers' : v.sleep /\ w.sleep /\ v.f = w.f => v = w
      BY <2>1, <2>3 DEF WakeInv, Wakeups
    <3>5. \A g \in Fibers : pc'[g] = "parked" =>
             \/ queued'[g] = 1
             \/ op'[g].fd \in Fds /\ context'[op'[g].fd][op'[g].ev] = g
             \/ \E v \in timers' : v.sleep /\ v.f = g
      <4>1. CASE UNCHANGED context
        BY <2>1, <2>2, <2>4 DEF WakeInv, Wakeups
      <4>2. QED
        BY <2>1, <4>1
    <3>6. QED
      BY <3>1, <3>2, <3>3, <3>4, <3>5 DEF Wakeups
  <2>7. TimerShape'
    BY <2>1 DEF WakeInv, TimerShape
  <2>8. QED
    BY <2>6, <2>7 DEF WakeInv
<1>8. QED
  BY <1>1, <1>2, <1>3, <1>4, <1>5, <1>6, <1>7 DEF Calls

LEMMA InsideWakes ==
    ASSUME TypeOK, Control, WakeInv, NEW f \in Fibers, Inside(f)
    PROVE  WakeInv'
<1>1. ASSUME FunIo(f) PROVE WakeInv'
  <2>1. CASE Blocks(f)
    BY <1>1, <2>1, BlocksWakes DEF FunIo
  <2>2. CASE (\E r \in {"ok", "error"} : Return(f, r)) /\ UNCHANGED timers
    BY <1>1, <2>2, ReturnWaiters, QuietWakes DEF FunIo
  <2>3. QED
    BY <1>1, <2>1, <2>2 DEF FunIo, Fails
<1>2. ASSUME FunAccept(f) PROVE WakeInv'
  <2>1. CASE Blocks(f)
    BY <1>2, <2>1, BlocksWakes DEF FunAccept
  <2>2. CASE Return(f, "error") /\ UNCHANGED timers
    BY <1>2, <2>2, ReturnWaiters, QuietWakes DEF FunAccept
  <2>3. ASSUME NEW new, op' = [op EXCEPT ![f].fd = new], Goto(f, "get"), UNCHANGED timers
        PROVE  WakeInv'
    <3>1. SameWaiters
      BY <1>2, <2>3 DEF FunAccept, Goto, SameWaiters, TypeOK
    <3>2. QED
      BY <1>2, <2>3, <3>1, QuietWakes DEF FunAccept
  <2>4. QED
    BY <1>2, <2>1, <2>2, <2>3 DEF FunAccept, Fails
<1>3. ASSUME FunConnect(f) PROVE WakeInv'
  <2>1. CASE Blocks(f)
    BY <1>3, <2>1, BlocksWakes DEF FunConnect
  <2>2. CASE (\E r \in {"ok", "error"} : Return(f, r)) /\ UNCHANGED timers
    BY <1>3, <2>2, ReturnWaiters, QuietWakes DEF FunConnect
  <2>3. QED
    BY <1>3, <2>1, <2>2 DEF FunConnect, Fails
<1>4. ASSUME SockOpt(f) PROVE WakeInv'
  BY <1>4, ReturnWaiters, QuietWakes DEF SockOpt, Fails
<1>5. ASSUME AddEvent(f) PROVE WakeInv'
  <2> DEFINE fd == op[f].fd
             ev == op[f].ev
  <2>1. /\ pc[f] = "event" /\ fd \in Fds /\ ev \in Event /\ Waits(f)
        /\ op[f].kind \in Waiting
    BY <1>5 DEF AddEvent, Control, CallShape, ShapeOf, Waits, TypeOK, Op
  <2>2. /\ pc' = [pc EXCEPT ![f] = "parked"] /\ UNCHANGED <<op, timers, queued>>
        /\ \A d \in Fds, e \in Event :
              context'[d][e] = IF d = fd /\ e = ev THEN f ELSE context[d][e]
    BY <1>5, <2>1 DEF AddEvent, Goto, TypeOK
  <2>3. /\ queued[f] = 0 /\ \A d \in Fds, e \in Event : context[d][e] # f
        /\ \A v \in timers : v.sleep => v.f # f
    BY <2>1 DEF WakeInv, Wakeups
  <2>4. ASSUME NEW g \in Fibers PROVE context[fd][ev] # g
    <3>1. ASSUME context[fd][ev] = g PROVE FALSE
      <4>1. pc[g] = "parked" /\ op[g].fd = fd /\ op[g].ev = ev
        BY <2>1, <3>1 DEF WakeInv, Wakeups
      <4>2. g # f /\ Waits(g)
        BY <2>1, <4>1 DEF Waits
      <4>3. QED
        BY <2>1, <4>1, <4>2 DEF Control, OneWaiter
    <3>2. QED
      BY <3>1
  <2>5. pc'[f] = "parked" /\ \A g \in Fibers \ {f} : pc'[g] = pc[g]
    BY <2>2 DEF TypeOK
  <2> HIDE DEF fd, ev
  <2>f. op[f].fd = fd /\ op[f].ev = ev
    BY DEF fd, ev
  <2>6. Wakeups'
    <3>1. \A g \in Fibers : pc'[g] # "parked" => queued'[g] = 0
      BY <2>2, <2>5 DEF WakeInv, Wakeups
    <3>2. \A g \in Fibers, d \in Fds, e \in Event : context'[d][e] = g =>
             pc'[g] = "parked" /\ op'[g].fd = d /\ op'[g].ev = e /\ queued'[g] = 0
      BY <2>2, <2>3, <2>5, <2>f DEF WakeInv, Wakeups
    <3>3. \A v \in timers' : v.sleep =>
             pc'[v.f] = "parked" /\ op'[v.f].kind = "sleep" /\ queued'[v.f] = 0
      <4>1. \A v \in timers : v.f \in Fibers
        BY DEF TypeOK, Timer
      <4>2. QED
        BY <2>2, <2>3, <2>5, <4>1 DEF WakeInv, Wakeups
    <3>4. \A v, w \in timers' : v.sleep /\ w.sleep /\ v.f = w.f => v = w
      BY <2>2 DEF WakeInv, Wakeups
    <3>5. \A g \in Fibers : pc'[g] = "parked" =>
             \/ queued'[g] = 1
             \/ op'[g].fd \in Fds /\ context'[op'[g].fd][op'[g].ev] = g
             \/ \E v \in timers' : v.sleep /\ v.f = g
      <4> SUFFICES ASSUME NEW g \in Fibers, pc'[g] = "parked"
                   PROVE  \/ queued'[g] = 1
                          \/ op'[g].fd \in Fds /\ context'[op'[g].fd][op'[g].ev] = g
                          \/ \E v \in timers' : v.sleep /\ v.f = g
        OBVIOUS
      <4>1. CASE g = f
        BY <2>1, <2>2, <2>f, <4>1
      <4>2. CASE g # f
        <5>1. pc[g] = "parked" /\ op[g].ev \in Event
          BY <2>5, <4>2 DEF TypeOK, Op
        <5>2. ASSUME op[g].fd \in Fds, context[op[g].fd][op[g].ev] = g
              PROVE  context'[op[g].fd][op[g].ev] = g
          BY <2>2, <2>4, <5>1, <5>2
        <5>3. QED
          BY <2>2, <5>1, <5>2 DEF WakeInv, Wakeups
      <4>3. QED
        BY <4>1, <4>2
    <3>6. QED
      BY <3>1, <3>2, <3>3, <3>4, <3>5 DEF Wakeups
  <2>7. TimerShape'
    BY <2>2 DEF WakeInv, TimerShape
  <2>8. QED
    BY <2>6, <2>7 DEF WakeInv
<1>6. ASSUME AddEventFails(f) PROVE WakeInv'
  <2>1. SameWaiters
    BY <1>6, ReturnWaiters, ContinueWaiters DEF AddEventFails
  <2>2. SameSleepers /\ TimerShape'
    BY <1>6, CancelTimerSleepers DEF AddEventFails, WakeInv
  <2>3. QED
    BY <1>6, <2>1, <2>2, WakeupsKept DEF AddEventFails, WakeInv
<1>7. ASSUME Resume(f) PROVE WakeInv'
  <2>1. /\ pc[f] = "parked" /\ queued[f] \in Nat /\ queued[f] > 0
        /\ queued' = [queued EXCEPT ![f] = queued[f] - 1] /\ UNCHANGED context
        /\ CancelTimer(f) \/ UNCHANGED timers
    BY <1>7 DEF Resume, Scheduled, TypeOK
  <2>2. /\ \A d \in Fds, e \in Event : context[d][e] # f
        /\ \A v \in timers : v.sleep => v.f # f
    BY <2>1 DEF WakeInv, Wakeups
  <2>3. queued[f] = 1
    <3>1. op[f].fd \in Fds => context[op[f].fd][op[f].ev] # f
      BY <2>2 DEF TypeOK, Op
    <3>2. QED
      BY <2>1, <2>2, <3>1 DEF WakeInv, Wakeups
  <2>4. queued'[f] = 0 /\ \A g \in Fibers \ {f} : queued'[g] = queued[g]
    BY <2>1, <2>3 DEF TypeOK
  <2>5. SameSleepers /\ TimerShape'
    <3>1. CASE CancelTimer(f)
      BY <2>1, <3>1, CancelTimerSleepers DEF WakeInv
    <3>2. CASE UNCHANGED timers
      BY <3>2 DEF SameSleepers, TimerShape, WakeInv
    <3>3. QED
      BY <2>1, <3>1, <3>2
  <2>6. pc'[f] # "parked" /\ \A g \in Fibers \ {f} : pc'[g] = pc[g] /\ op'[g] = op[g]
    BY <1>7 DEF Resume, Return, Continue, Goto, TypeOK
  <2>7. \A v : v.sleep => (v \in timers' <=> v \in timers)
    BY <2>5 DEF SameSleepers
  <2>8. Wakeups'
    <3>1. \A g \in Fibers : pc'[g] # "parked" => queued'[g] = 0
      BY <2>4, <2>6 DEF WakeInv, Wakeups
    <3>2. \A g \in Fibers, d \in Fds, e \in Event : context'[d][e] = g =>
             pc'[g] = "parked" /\ op'[g].fd = d /\ op'[g].ev = e /\ queued'[g] = 0
      BY <2>1, <2>2, <2>4, <2>6 DEF WakeInv, Wakeups
    <3>3. \A v \in timers' : v.sleep =>
             pc'[v.f] = "parked" /\ op'[v.f].kind = "sleep" /\ queued'[v.f] = 0
      <4>1. \A v \in timers : v.f \in Fibers
        BY DEF TypeOK, Timer
      <4>2. QED
        BY <2>2, <2>4, <2>6, <2>7, <4>1 DEF WakeInv, Wakeups
    <3>4. \A v, w \in timers' : v.sleep /\ w.sleep /\ v.f = w.f => v = w
      BY <2>7 DEF WakeInv, Wakeups
    <3>5. \A g \in Fibers : pc'[g] = "parked" =>
             \/ queued'[g] = 1
             \/ op'[g].fd \in Fds /\ context'[op'[g].fd][op'[g].ev] = g
             \/ \E v \in timers' : v.sleep /\ v.f = g
      BY <2>1, <2>4, <2>6, <2>7 DEF WakeInv, Wakeups
    <3>6. QED
      BY <3>1, <3>2, <3>3, <3>4, <3>5 DEF Wakeups
  <2>9. QED
    BY <2>5, <2>8 DEF WakeInv
<1>8. ASSUME Get(f) PROVE WakeInv'
  BY <1>8, ReturnWaiters, ContinueWaiters, QuietWakes DEF Get, wakeVars
<1>9. ASSUME Create(f) PROVE WakeInv'
  BY <1>9, ReturnWaiters, QuietWakes DEF Create, wakeVars
<1>10. ASSUME CloseDel(f) PROVE WakeInv'
  BY <1>10, ContinueWaiters, QuietWakes DEF CloseDel, wakeVars
<1>11. ASSUME CloseFd(f) PROVE WakeInv'
  BY <1>11, ReturnWaiters, QuietWakes DEF CloseFd, wakeVars
<1>12. ASSUME Unblock(f) PROVE WakeInv'
  BY <1>12, ContinueWaiters, QuietWakes DEF Unblock, wakeVars
<1>13. QED
  BY <1>1, <1>2, <1>3, <1>4, <1>5, <1>6, <1>7, <1>8, <1>9, <1>10, <1>11, <1>12 DEF Inside

LEMMA WakeInvariant == Spec => [](TypeOK /\ Control /\ WakeInv)
<1>1. Init => WakeInv
  BY HookNone DEF Init, WakeInv, Wakeups, TimerShape
<1>2. TypeOK /\ Control /\ WakeInv /\ [Next]_vars => WakeInv'
  BY EnvironmentWakes, TimerWakes, CallWakes, InsideWakes DEF Next
<1>3. QED
  BY <1>1, <1>2, ControlInvariant, PTL DEF Spec

\* For any fibers, descriptors and timers, whenever a callback or a close comes and
\* even if a number is given out again under a call: a fiber that waits inside a hook has exactly one wake-up coming, from the
\* event, its timer's callback or close, and a fiber that does not wait has none.
THEOREM WokenOnce == Spec => []OneWakeup
<1>1. TypeOK /\ Control /\ WakeInv => OneWakeup
  <2> SUFFICES ASSUME TypeOK, Control, WakeInv, NEW f \in Fibers
               PROVE  queued[f] + Cardinality(Registered(f)) + Cardinality(Sleeping(f))
                         = IF pc[f] = "parked" THEN 1 ELSE 0
    BY DEF OneWakeup
  <2>0. op[f].ev \in Event /\ Cardinality({}) = 0
    BY FS_EmptySet DEF TypeOK, Op
  <2>1. CASE pc[f] # "parked"
    <3>1. queued[f] = 0 /\ Registered(f) = {} /\ Sleeping(f) = {}
      BY <2>1 DEF WakeInv, Wakeups, Registered, Sleeping
    <3>2. QED
      BY <2>0, <2>1, <3>1
  <2>2. CASE pc[f] = "parked" /\ queued[f] = 1
    <3>1. Registered(f) = {} /\ Sleeping(f) = {}
      BY <2>2 DEF WakeInv, Wakeups, Registered, Sleeping
    <3>2. QED
      BY <2>0, <2>2, <3>1
  <2>3. CASE pc[f] = "parked" /\ op[f].fd \in Fds /\ context[op[f].fd][op[f].ev] = f
    <3>1. queued[f] = 0
      BY <2>0, <2>3 DEF WakeInv, Wakeups
    <3>2. op[f].kind # "sleep"
      BY <2>3, HookNone DEF Control, CallShape, ShapeOf, Waiting
    <3>3. Sleeping(f) = {}
      BY <3>2 DEF WakeInv, Wakeups, Sleeping
    <3>4. Registered(f) = {<<op[f].fd, op[f].ev>>}
      BY <2>0, <2>3 DEF WakeInv, Wakeups, Registered
    <3>5. Cardinality(Registered(f)) = 1 /\ Cardinality(Sleeping(f)) = 0
      BY <3>3, <3>4, FS_EmptySet, FS_Singleton
    <3>6. QED
      BY <2>3, <3>1, <3>5
  <2>4. ASSUME pc[f] = "parked", NEW t \in timers, t.sleep, t.f = f
        PROVE  queued[f] + Cardinality(Registered(f)) + Cardinality(Sleeping(f)) = 1
    <3>1. queued[f] = 0 /\ op[f].kind = "sleep"
      BY <2>4 DEF WakeInv, Wakeups
    <3>2. op[f].fd = None
      BY <2>4, <3>1 DEF Control, CallShape, ShapeOf, Waiting
    <3>3. Registered(f) = {}
      BY <3>2, HookNone DEF WakeInv, Wakeups, Registered
    <3>4. Sleeping(f) = {t}
      BY <2>4 DEF WakeInv, Wakeups, Sleeping
    <3>5. Cardinality(Registered(f)) = 0 /\ Cardinality(Sleeping(f)) = 1
      BY <3>3, <3>4, FS_EmptySet, FS_Singleton
    <3>6. QED
      BY <3>1, <3>5
  <2>5. QED
    BY <2>1, <2>2, <2>3, <2>4 DEF WakeInv, Wakeups
<1>2. QED
  BY <1>1, WakeInvariant, PTL

-----------------------------------------------------------------------------
(* Whose timer it was *)

\* The parts of TimersOfCalls that a step can disturb, one timer and one fiber.
LEMMA OwnersKept ==
    ASSUME TypeOK, TimersOfCalls, calls' = calls,
           \A t \in timers' : /\ t.call > 0 /\ t.call <= calls /\ t.f \in Fibers
                              /\ t \in timers \/ t.at = "armed",
           \A f \in Fibers : \/ /\ op'[f].no = op[f].no /\ pc[f] # "user"
                                /\ cancelled'[f] = cancelled[f] /\ expired'[f] = expired[f]
                             \/ /\ op'[f].no = op[f].no /\ pc'[f] = pc[f]
                                /\ cancelled'[f] = cancelled[f] /\ expired'[f] = expired[f]
                             \/ /\ op'[f] = NoOp /\ pc'[f] = "user"
                                /\ ~ cancelled'[f]
    PROVE  TimersOfCalls'
<1>1. \A f \in Fibers : /\ cancelled'[f] => expired'[f]
                        /\ op'[f].no <= calls'
                        /\ pc'[f] # "user" => op'[f].no > 0
  BY DEF TimersOfCalls, TypeOK, NoOp
<1>2. ASSUME NEW t \in timers' PROVE /\ t.call > 0 /\ t.call <= calls'
                                     /\ t.at # "armed" /\ Alive(t)' => expired'[t.f]
  <2>1. CASE t.at = "armed"
    BY <2>1
  <2>2. CASE t \in timers
    BY <1>2, <2>2 DEF TimersOfCalls, TypeOK, Alive, NoOp
  <2>3. QED
    BY <2>1, <2>2
<1>3. QED
  BY <1>1, <1>2 DEF TimersOfCalls

LEMMA ReturnOwners ==
    ASSUME TypeOK, TimersOfCalls, NEW f \in Fibers, NEW r, Return(f, r),
           timers' \subseteq timers, calls' = calls
    PROVE  TimersOfCalls'
<1>1. /\ op'[f] = NoOp /\ pc'[f] = "user" /\ ~ cancelled'[f]
      /\ \A g \in Fibers \ {f} : /\ op'[g] = op[g] /\ pc'[g] = pc[g]
                                 /\ cancelled'[g] = cancelled[g] /\ expired'[g] = expired[g]
  BY DEF Return, Goto, TypeOK
<1>2. \A t \in timers' : t.call > 0 /\ t.call <= calls /\ t.f \in Fibers /\ t \in timers
  BY DEF TypeOK, Timer, TimersOfCalls
<1>3. QED
  BY <1>1, <1>2, OwnersKept

LEMMA GotoOwners ==
    ASSUME TypeOK, TimersOfCalls, NEW f \in Fibers, pc[f] # "user", NEW label,
           Goto(f, label), UNCHANGED <<op, cancelled, expired>>,
           timers' \subseteq timers, calls' = calls
    PROVE  TimersOfCalls'
<1>1. \A g \in Fibers \ {f} : pc'[g] = pc[g]
  BY DEF Goto, TypeOK
<1>2. \A t \in timers' : t.call > 0 /\ t.call <= calls /\ t.f \in Fibers /\ t \in timers
  BY DEF TypeOK, Timer, TimersOfCalls
<1>3. QED
  BY <1>1, <1>2, OwnersKept

LEMMA ContinueOwners ==
    ASSUME TypeOK, TimersOfCalls, NEW f \in Fibers, pc[f] # "user", NEW label,
           Continue(f, label), timers' \subseteq timers, calls' = calls
    PROVE  TimersOfCalls'
  BY GotoOwners DEF Continue

LEMMA BlocksOwners ==
    ASSUME TypeOK, TimersOfCalls, NEW f \in Fibers, pc[f] = "fun", Blocks(f),
           calls' = calls
    PROVE  TimersOfCalls'
<1>1. CASE UNCHANGED timers
  BY <1>1, ContinueOwners, ReturnOwners DEF Blocks
<1>2. CASE Continue(f, "event") /\ NewTimer(f, op[f].no, FALSE, op[f].fd, op[f].ev)
  <2> DEFINE t == [f |-> f, n |-> made[f] + 1, call |-> op[f].no, sleep |-> FALSE,
                   fd |-> op[f].fd, ev |-> op[f].ev, at |-> "armed"]
  <2>1. /\ timers' = timers \union {t}
        /\ t.call = op[f].no /\ t.f = f /\ t.at = "armed"
    BY <1>2 DEF NewTimer
  <2> HIDE DEF t
  <2>2. op[f].no > 0 /\ op[f].no <= calls
    BY DEF TimersOfCalls
  <2>3. \A u \in timers' : /\ u.call > 0 /\ u.call <= calls /\ u.f \in Fibers
                           /\ u \in timers \/ u.at = "armed"
    BY <2>1, <2>2 DEF TypeOK, Timer, TimersOfCalls
  <2>4. /\ UNCHANGED <<op, cancelled, expired>>
        /\ \A g \in Fibers \ {f} : pc'[g] = pc[g]
    BY <1>2 DEF Continue, Goto, TypeOK
  <2>5. QED
    BY <2>3, <2>4, OwnersKept
<1>3. QED
  BY <1>1, <1>2 DEF Blocks

\* A new call has a number no timer has.
LEMMA BeginOwners ==
    ASSUME TypeOK, TimersOfCalls, NEW f \in Fibers, NEW kind, NEW fd, NEW ev, NEW hooked,
           NEW timed, NEW label, Begin(f, kind, fd, ev, hooked, timed), Goto(f, label),
           \A t \in timers' : t \in timers \/ (t.at = "armed" /\ t.call = calls + 1)
    PROVE  TimersOfCalls'
<1>1. /\ calls' = calls + 1 /\ calls \in Nat /\ op'[f].no = calls + 1
      /\ \A g \in Fibers \ {f} : op'[g] = op[g] /\ pc'[g] = pc[g]
      /\ UNCHANGED <<cancelled, expired>>
  BY DEF Begin, Goto, TypeOK
<1>2. \A g \in Fibers : op[g].no \in Nat
  BY DEF TypeOK, Op
<1>3. \A t \in timers : t.call \in Nat /\ t.f \in Fibers
  BY DEF TypeOK, Timer
<1>4. ASSUME NEW g \in Fibers PROVE /\ cancelled'[g] => expired'[g]
                                    /\ op'[g].no <= calls'
                                    /\ pc'[g] # "user" => op'[g].no > 0
  BY <1>1, <1>2 DEF TimersOfCalls
<1>5. ASSUME NEW t \in timers' PROVE /\ t.call > 0 /\ t.call <= calls'
                                     /\ t.at # "armed" /\ Alive(t)' => expired'[t.f]
  <2>1. CASE t.at = "armed" /\ t.call = calls + 1
    BY <1>1, <2>1
  <2>2. CASE t \in timers
    BY <1>1, <1>3, <2>2 DEF TimersOfCalls, Alive
  <2>3. QED
    BY <2>1, <2>2
<1>6. QED
  BY <1>4, <1>5 DEF TimersOfCalls

LEMMA TimerOwners ==
    ASSUME TypeOK, TimersOfCalls, NEW f \in Fibers, Timers(f)
    PROVE  TimersOfCalls'
<1>1. PICK t \in timers : t.f = f /\ TimerStep(t)
  BY DEF Timers
<1>2. t \in Timer /\ t.f = f /\ UNCHANGED <<pc, op>>
  BY <1>1, EnvironmentControl DEF TypeOK
<1>3. calls' = calls
  BY <1>1 DEF TimerStep, Expire, RunSleep, RunTimeout, SetCancelled, CancelEvent, callVars
<1>4. ASSUME timers' \subseteq timers, UNCHANGED <<cancelled, expired>> PROVE TimersOfCalls'
  <2>1. \A u \in timers' : u.call > 0 /\ u.call <= calls /\ u.f \in Fibers /\ u \in timers
    BY <1>4 DEF TypeOK, Timer, TimersOfCalls
  <2>2. QED
    BY <1>2, <1>3, <1>4, <2>1, OwnersKept
<1>5. ASSUME NEW a \in {"due", "locked", "set"}, Move(t, a),
             \A g \in Fibers : expired[g] => expired'[g],
             Alive(t) => expired'[f],
             \A g \in Fibers : cancelled'[g] => cancelled[g] \/ (g = f /\ Alive(t))
      PROVE  TimersOfCalls'
  <2> DEFINE u == [t EXCEPT !.at = a]
  <2>1. timers' = (timers \ {t}) \union {u} /\ u.f = f /\ u.call = t.call
    BY <1>2, <1>5 DEF Move, Timer
  <2> HIDE DEF u
  <2>2. ASSUME NEW g \in Fibers PROVE /\ cancelled'[g] => expired'[g]
                                      /\ op'[g].no <= calls'
                                      /\ pc'[g] # "user" => op'[g].no > 0
    BY <1>2, <1>3, <1>5 DEF TimersOfCalls
  <2>3. ASSUME NEW v \in timers' PROVE /\ v.call > 0 /\ v.call <= calls'
                                       /\ v.at # "armed" /\ Alive(v)' => expired'[v.f]
    <3>1. CASE v \in timers
      <4>1. v.f \in Fibers
        BY <3>1 DEF TypeOK, Timer
      <4>2. QED
        BY <1>2, <1>3, <1>5, <3>1, <4>1 DEF TimersOfCalls, Alive
    <3>2. CASE v = u
      BY <1>1, <1>2, <1>3, <1>5, <2>1, <3>2 DEF TimersOfCalls, Alive
    <3>3. QED
      BY <2>1, <2>3, <3>1, <3>2
  <2>4. QED
    BY <2>2, <2>3 DEF TimersOfCalls
<1>6. ASSUME Expire(t) PROVE TimersOfCalls'
  <2>1. /\ Move(t, "due") /\ cancelled' = cancelled
        /\ expired' = [expired EXCEPT ![f] = expired[f] \/ op[f].no = t.call]
    BY <1>2, <1>6 DEF Expire
  <2>2. /\ \A g \in Fibers : expired[g] => expired'[g]
        /\ Alive(t) => expired'[f]
    BY <1>2, <2>1 DEF TypeOK, Alive
  <2>3. QED
    BY <1>5, <2>1, <2>2
<1>7. ASSUME RunSleep(t) \/ CancelEvent(t) PROVE TimersOfCalls'
  BY <1>4, <1>7 DEF RunSleep, CancelEvent, callVars
<1>8. ASSUME t.at # "armed" PROVE Alive(t) => expired[f]
  BY <1>1, <1>2, <1>8 DEF TimersOfCalls
<1>9. ASSUME RunTimeout(t) PROVE TimersOfCalls'
  <2>1. CASE Move(t, "locked")
    BY <1>5, <1>8, <1>9, <2>1 DEF RunTimeout, callVars
  <2>2. CASE timers' = timers \ {t}
    BY <1>4, <1>9, <2>2 DEF RunTimeout, callVars
  <2>3. QED
    BY <1>9, <2>1, <2>2 DEF RunTimeout
<1>10. ASSUME SetCancelled(t) PROVE TimersOfCalls'
  <2>1. /\ Move(t, "set") /\ t.at = "locked" /\ expired' = expired
        /\ cancelled' = [cancelled EXCEPT ![f] = cancelled[f] \/ Alive(t)]
    BY <1>2, <1>10 DEF SetCancelled
  <2>2. \A g \in Fibers : cancelled'[g] => cancelled[g] \/ (g = f /\ Alive(t))
    BY <2>1 DEF TypeOK
  <2>3. QED
    BY <1>5, <1>8, <2>1, <2>2
<1>11. QED
  BY <1>1, <1>6, <1>7, <1>9, <1>10 DEF TimerStep

LEMMA CallOwners ==
    ASSUME TypeOK, TimersOfCalls, NEW f \in Fibers, Calls(f)
    PROVE  TimersOfCalls'
<1>1. ASSUME NEW fd \in Fds, NEW ev \in Event, Io(f, fd, ev) PROVE TimersOfCalls'
  BY <1>1, BeginOwners DEF Io, wakeVars
<1>2. ASSUME NEW fd \in Fds, Accept(f, fd) PROVE TimersOfCalls'
  BY <1>2, BeginOwners DEF Accept, wakeVars
<1>3. ASSUME NEW fd \in Fds, NEW timed \in BOOLEAN, Connect(f, fd, timed)
      PROVE  TimersOfCalls'
  BY <1>3, BeginOwners DEF Connect, wakeVars
<1>4. ASSUME Socket(f) PROVE TimersOfCalls'
  BY <1>4, BeginOwners DEF Socket, wakeVars
<1>5. ASSUME NEW fd \in Fds, Option(f, fd) PROVE TimersOfCalls'
  <2>1. calls' = calls + 1 /\ UNCHANGED <<timers, op, pc, cancelled, expired>>
    BY <1>5 DEF Option, wakeVars
  <2>2. /\ calls \in Nat /\ \A g \in Fibers : op[g].no \in Nat
        /\ \A t \in timers : t.call \in Nat
    BY DEF TypeOK, Op, Timer
  <2>3. QED
    BY <2>1, <2>2 DEF TimersOfCalls, Alive
<1>6. ASSUME NEW fd \in Fds, Close(f, fd) PROVE TimersOfCalls'
  BY <1>6, BeginOwners DEF Close
<1>7. ASSUME Sleep(f) PROVE TimersOfCalls'
  <2> DEFINE t == [f |-> f, n |-> made[f] + 1, call |-> calls + 1, sleep |-> TRUE,
                   fd |-> None, ev |-> "READ", at |-> "armed"]
  <2>1. timers' = timers \union {t} /\ t.at = "armed" /\ t.call = calls + 1
    BY <1>7 DEF Sleep, NewTimer
  <2> HIDE DEF t
  <2>2. \A u \in timers' : u \in timers \/ (u.at = "armed" /\ u.call = calls + 1)
    BY <2>1
  <2>3. QED
    BY <1>7, <2>2, BeginOwners DEF Sleep
<1>8. QED
  BY <1>1, <1>2, <1>3, <1>4, <1>5, <1>6, <1>7 DEF Calls

LEMMA InsideOwners ==
    ASSUME TypeOK, TimersOfCalls, NEW f \in Fibers, Inside(f)
    PROVE  TimersOfCalls'
<1>x. CancelTimer(f) => timers' \subseteq timers
  BY DEF CancelTimer
<1>1. ASSUME FunIo(f) PROVE TimersOfCalls'
  BY <1>1, BlocksOwners, ReturnOwners DEF FunIo, Fails
<1>2. ASSUME FunAccept(f) PROVE TimersOfCalls'
  <2>1. ASSUME NEW new, op' = [op EXCEPT ![f].fd = new], Goto(f, "get"),
               UNCHANGED <<timers, cancelled, expired>>
        PROVE  TimersOfCalls'
    <3>1. /\ pc[f] # "user" /\ \A g \in Fibers \ {f} : op'[g] = op[g] /\ pc'[g] = pc[g]
          /\ op[f] \in Op /\ op'[f] = [op[f] EXCEPT !.fd = new]
      BY <1>2, <2>1 DEF FunAccept, Goto, TypeOK
    <3>2. op'[f].no = op[f].no
      BY <3>1 DEF Op
    <3>3. \A t \in timers' : t.call > 0 /\ t.call <= calls /\ t.f \in Fibers /\ t \in timers
      BY <2>1 DEF TypeOK, Timer, TimersOfCalls
    <3>4. calls' = calls
      BY <1>2 DEF FunAccept
    <3>5. QED
      BY <2>1, <3>1, <3>2, <3>3, <3>4, OwnersKept
  <2>2. QED
    BY <1>2, <2>1, BlocksOwners, ReturnOwners DEF FunAccept, Fails
<1>3. ASSUME FunConnect(f) PROVE TimersOfCalls'
  BY <1>3, BlocksOwners, ReturnOwners DEF FunConnect, Fails
<1>4. ASSUME SockOpt(f) PROVE TimersOfCalls'
  BY <1>4, ReturnOwners DEF SockOpt, Fails
<1>5. ASSUME AddEvent(f) PROVE TimersOfCalls'
  BY <1>5, GotoOwners DEF AddEvent
<1>6. ASSUME AddEventFails(f) PROVE TimersOfCalls'
  BY <1>6, <1>x, ContinueOwners, ReturnOwners DEF AddEventFails
<1>7. ASSUME Resume(f) PROVE TimersOfCalls'
  <2>1. timers' \subseteq timers
    BY <1>7, <1>x DEF Resume
  <2>2. QED
    BY <1>7, <2>1, ContinueOwners, ReturnOwners DEF Resume
<1>8. ASSUME Get(f) PROVE TimersOfCalls'
  BY <1>8, ContinueOwners, ReturnOwners DEF Get, wakeVars
<1>9. ASSUME Create(f) PROVE TimersOfCalls'
  BY <1>9, ReturnOwners DEF Create, wakeVars
<1>10. ASSUME CloseDel(f) PROVE TimersOfCalls'
  BY <1>10, ContinueOwners DEF CloseDel, wakeVars
<1>11. ASSUME CloseFd(f) PROVE TimersOfCalls'
  BY <1>11, ReturnOwners DEF CloseFd, wakeVars
<1>12. ASSUME Unblock(f) PROVE TimersOfCalls'
  BY <1>12, ContinueOwners DEF Unblock, wakeVars
<1>13. QED
  BY <1>1, <1>2, <1>3, <1>4, <1>5, <1>6, <1>7, <1>8, <1>9, <1>10, <1>11, <1>12 DEF Inside

LEMMA OwnersInvariant == Spec => [](TypeOK /\ TimersOfCalls)
<1>1. Init => TimersOfCalls
  BY DEF Init, TimersOfCalls, NoOp
<1>2. ASSUME TypeOK, TimersOfCalls, Environment \/ Triggers \/ UNCHANGED vars
      PROVE  TimersOfCalls'
  <2>1. UNCHANGED <<timers, calls, op, pc, cancelled, expired>>
    BY <1>2 DEF Environment, Triggers, Resolve, Arrive, Steal, Listen, Trigger, vars,
                callVars, wakeVars
  <2>2. QED
    BY <1>2, <2>1 DEF TimersOfCalls, Alive
<1>3. TypeOK /\ TimersOfCalls /\ [Next]_vars => TimersOfCalls'
  BY <1>2, TimerOwners, CallOwners, InsideOwners DEF Next
<1>4. QED
  BY <1>1, <1>3, TypesInit, TypesStep, PTL DEF Spec

\* ETIMEDOUT comes from Resume, from a call that has been cancelled.
LEMMA OnlyCancelledTimesOut ==
    ASSUME TypeOK, [Next]_vars, NEW f \in Fibers, pc[f] # "user", pc'[f] = "user",
           result' = "timeout"
    PROVE  cancelled[f]
<1>1. ~ UNCHANGED pc
  OBVIOUS
<1>2. PICK g \in Fibers : Calls(g) \/ Inside(g)
  BY <1>1, EnvironmentControl DEF Next
<1>3. ASSUME NEW label, label # "user", Goto(g, label) PROVE FALSE
  BY <1>3 DEF Goto, TypeOK
<1>4. ASSUME NEW r, r # "timeout", Return(g, r) PROVE FALSE
  BY <1>4 DEF Return
<1>5. ~ Calls(g)
  BY <1>1, <1>3 DEF Calls, Sleep, Socket, Io, Accept, Connect, Close, Option
<1>6. ~ Blocks(g) /\ \A fd : ~ Fails(g, fd)
  BY <1>3, <1>4 DEF Blocks, Continue, Fails
<1>7. Resume(g)
  BY <1>2, <1>3, <1>4, <1>5, <1>6 DEF Inside, FunIo, FunAccept, FunConnect, Unblock, SockOpt,
     AddEvent, AddEventFails, Get, Create, CloseDel, CloseFd, Continue
<1>8. cancelled[g] /\ Return(g, "timeout")
  BY <1>3, <1>4, <1>7 DEF Resume, Continue
<1>9. QED
  BY <1>8 DEF Return, Goto, TypeOK

\* A call returns ETIMEDOUT only if a timer of that very call has expired, for any
\* number of calls, fibers and late callbacks.
THEOREM TimeoutsAreReal == Spec => TimeoutIsReal
<1>1. TypeOK /\ TimersOfCalls /\ [Next]_vars =>
         [\A f \in Fibers : InCall(f) /\ ~ InCall(f)' /\ result' = "timeout" => expired[f]]_vars
  BY OnlyCancelledTimesOut DEF TimersOfCalls, InCall
<1>2. QED
  BY <1>1, OwnersInvariant, PTL DEF Spec, TimeoutIsReal

-----------------------------------------------------------------------------
(* Descriptors that are being opened or closed *)

Opener(f, fd) == pc[f] \in {"get", "create"} /\ op[f].fd = fd
Closer(f, fd) == pc[f] \in {"closeDel", "closeFd"} /\ op[f].fd = fd
Ends == {"get", "create", "closeDel", "closeFd"}

LEMMA OpenersClosers ==
    ASSUME TypeOK, Control, NEW fd
    PROVE  /\ Opening(fd) <=> \E f \in Fibers : Opener(f, fd)
           /\ Closing(fd) <=> \E f \in Fibers : Closer(f, fd)
<1>1. ASSUME NEW f \in Fibers PROVE pc[f] \in Labels /\ ShapeOf(pc[f], op[f])
  BY DEF TypeOK, Control, CallShape
<1>2. ASSUME NEW f \in Fibers
      PROVE  op[f].kind = "close" /\ pc[f] # "user" <=> pc[f] \in {"closeDel", "closeFd"}
  BY <1>1 DEF Labels, ShapeOf, Waiting
<1>3. ASSUME NEW f \in Fibers, pc[f] \in {"get", "create"}
      PROVE  op[f].kind \in {"socket", "accept"} /\ pc[f] # "user"
  BY <1>1, <1>3 DEF ShapeOf
<1>4. QED
  BY <1>2, <1>3 DEF Opening, Closing, On, InCall, Opener, Closer

\* Fiber f neither starts nor ends to open or close a descriptor; it goes on with
\* the descriptor it has, or starts to use one that it may use.
Keeps(f) ==
    \/ pc'[f] = pc[f] /\ op'[f].fd = op[f].fd
    \/ /\ pc[f] \notin Ends /\ pc'[f] \notin Ends
       /\ \/ pc'[f] = "user"
          \/ pc[f] # "user" /\ op'[f].fd = op[f].fd
          \/ op'[f].fd = None \/ Usable(op'[f].fd)

\* Fiber f goes on being stopped, or is stopped for a descriptor that blocks.
Stops(f) ==
    /\ op'[f].fd = op[f].fd
    /\ \/ pc[f] = "stuck"
       \/ pc[f] = "fun" /\ ~ nonblock[op[f].fd] /\ file[op[f].fd] # "free"

\* Steps that open and close nothing ...
Quiet ==
    /\ \A f \in Fibers : Keeps(f)
    /\ \A fd \in Fds : file'[fd] = "free" <=> file[fd] = "free"
    /\ \A fd \in Fds : m_datas'[fd] = None <=> m_datas[fd] = None
    /\ \/ UNCHANGED <<nonblock, m_datas, own>>
       \/ \E f \in Fibers, fd \in Fds : Option(f, fd)
    /\ \A f \in Fibers : pc'[f] = "stuck" => Stops(f)

\* ... and those that open one: socket_f, accept_f.
Opens(f, fd) ==
    /\ fd \in Numbers /\ pc[f] \notin Ends
    /\ pc' = [pc EXCEPT ![f] = "get"]
    /\ op'[f].fd = fd /\ \A g \in Fibers \ {f} : op'[g] = op[g]
    /\ file' = [file EXCEPT ![fd] = file'[fd]] /\ file'[fd] # "free"
    /\ nonblock' = [nonblock EXCEPT ![fd] = nonblock'[fd]]
    /\ nonblock'[fd] => fd \in own'
    /\ \A d \in Fds \ {fd} : d \in own' <=> d \in own
    /\ UNCHANGED m_datas

\* One fiber moves and no descriptor is opened or closed.
LEMMA MoveQuiet ==
    ASSUME TypeOK, NEW f \in Fibers, Keeps(f),
           \A g \in Fibers \ {f} : pc'[g] = pc[g] /\ op'[g] = op[g],
           \A fd \in Fds : file'[fd] = "free" <=> file[fd] = "free",
           UNCHANGED <<nonblock, m_datas, own>>,
           pc'[f] = "stuck" => Stops(f)
    PROVE  Quiet
  BY DEF Quiet, Keeps, Stops

LEMMA ReturnQuiet ==
    ASSUME TypeOK, NEW f \in Fibers, NEW r, Return(f, r), pc[f] \notin Ends,
           \A fd \in Fds : file'[fd] = "free" <=> file[fd] = "free",
           UNCHANGED <<nonblock, m_datas, own>>
    PROVE  Quiet
<1>1. /\ pc'[f] = "user" /\ \A g \in Fibers \ {f} : pc'[g] = pc[g] /\ op'[g] = op[g]
  BY DEF Return, Goto, TypeOK
<1>2. Keeps(f)
  BY <1>1 DEF Keeps, Ends
<1>3. QED
  BY <1>1, <1>2, MoveQuiet

LEMMA GotoQuiet ==
    ASSUME TypeOK, NEW f \in Fibers, NEW label, Goto(f, label), UNCHANGED op,
           label \notin Ends, pc[f] \notin Ends \union {"user"},
           label = "stuck" => pc[f] = "fun" /\ ~ nonblock[op[f].fd] /\ file[op[f].fd] # "free",
           \A fd \in Fds : file'[fd] = "free" <=> file[fd] = "free",
           UNCHANGED <<nonblock, m_datas, own>>
    PROVE  Quiet
<1>1. /\ pc'[f] = label /\ op' = op
      /\ \A g \in Fibers \ {f} : pc'[g] = pc[g] /\ op'[g] = op[g]
  BY DEF Goto, TypeOK
<1>2. Keeps(f) /\ (pc'[f] = "stuck" => Stops(f))
  BY <1>1 DEF Keeps, Stops
<1>3. QED
  BY <1>1, <1>2, MoveQuiet

LEMMA ContinueQuiet ==
    ASSUME TypeOK, NEW f \in Fibers, NEW label, Continue(f, label), label \notin Ends,
           pc[f] \notin Ends \union {"user"},
           label = "stuck" => pc[f] = "fun" /\ ~ nonblock[op[f].fd] /\ file[op[f].fd] # "free",
           \A fd \in Fds : file'[fd] = "free" <=> file[fd] = "free",
           UNCHANGED <<nonblock, m_datas, own>>
    PROVE  Quiet
  BY GotoQuiet DEF Continue

LEMMA BlocksQuiet ==
    ASSUME TypeOK, NEW f \in Fibers, Blocks(f), pc[f] = "fun", file[op[f].fd] # "free",
           \A fd \in Fds : file'[fd] = "free" <=> file[fd] = "free",
           UNCHANGED <<nonblock, m_datas, own>>
    PROVE  Quiet
<1>1. pc[f] \notin Ends \union {"user"} /\ "event" \notin Ends /\ "stuck" \notin Ends
  BY DEF Ends
<1>2. QED
  BY <1>1, ContinueQuiet, ReturnQuiet DEF Blocks

LEMMA BeginQuiet ==
    ASSUME TypeOK, NEW f \in Fibers, NEW kind, NEW fd, NEW ev, NEW hooked, NEW timed,
           NEW label, Begin(f, kind, fd, ev, hooked, timed), Goto(f, label),
           label \in {"fun", "parked"}, fd = None \/ Usable(fd),
           UNCHANGED <<file, nonblock, own, m_datas>>
    PROVE  Quiet
<1>1. /\ pc[f] = "user" /\ pc'[f] = label /\ op'[f].fd = fd
      /\ \A g \in Fibers \ {f} : pc'[g] = pc[g] /\ op'[g] = op[g]
  BY DEF Begin, Goto, TypeOK
<1>2. Keeps(f)
  BY <1>1 DEF Keeps, Ends
<1>3. QED
  BY <1>1, <1>2, MoveQuiet

LEMMA FailsFree ==
    ASSUME TypeOK, NEW f \in Fibers, NEW fd, Fails(f, fd)
    PROVE  /\ \A d \in Fds : file'[d] = "free" <=> file[d] = "free"
           /\ Return(f, "error")
  BY DEF Fails, Kernel, TypeOK

\* Every step is one of these, or one of five that open or close a descriptor.
LEMMA StepKinds ==
    ASSUME TypeOK, Control, [Next]_vars
    PROVE  \/ Quiet
           \/ \E f \in Fibers, fd \in Fds : Opens(f, fd) \/ Close(f, fd)
           \/ \E f \in Fibers : Get(f) \/ Create(f) \/ CloseDel(f) \/ CloseFd(f)
<1>1. ASSUME Environment \/ Triggers \/ (\E f \in Fibers : Timers(f)) \/ UNCHANGED vars
      PROVE  Quiet
  <2>1. UNCHANGED <<pc, op>>
    BY <1>1, EnvironmentControl
  <2>2. UNCHANGED <<nonblock, m_datas, own>>
    BY <1>1 DEF Environment, Triggers, Timers, TimerStep, Resolve, Arrive, Steal, Listen,
       Trigger, Expire, RunSleep, RunTimeout, SetCancelled, CancelEvent, vars, kernelVars
  <2>3. \A fd \in Fds : file'[fd] = "free" <=> file[fd] = "free"
    <3>1. ASSUME NEW d \in Fds, NEW how \in {"up", "refused"}, Resolve(d, how)
          PROVE  \A fd \in Fds : file'[fd] = "free" <=> file[fd] = "free"
      BY <3>1 DEF Resolve, TypeOK
    <3>2. ASSUME NEW d \in Fds, Listen(d)
          PROVE  \A fd \in Fds : file'[fd] = "free" <=> file[fd] = "free"
      BY <3>2 DEF Listen, Kernel, TypeOK
    <3>3. \/ file' = file \/ \E d \in Fds : Listen(d)
          \/ \E d \in Fds, how \in {"up", "refused"} : Resolve(d, how)
      BY <1>1 DEF Environment, Triggers, Timers, TimerStep, Arrive, Steal,
         Trigger, Expire, RunSleep, RunTimeout, SetCancelled, CancelEvent, vars, kernelVars
    <3>4. QED
      BY <3>1, <3>2, <3>3
  <2>4. QED
    BY <2>1, <2>2, <2>3 DEF Quiet, Keeps, Stops
<1>2. ASSUME NEW f \in Fibers, Calls(f)
      PROVE  Quiet \/ \E fd \in Fds : Opens(f, fd) \/ Close(f, fd)
  <2>1. ASSUME NEW fd \in Fds, NEW ev \in Event, Io(f, fd, ev) PROVE Quiet
    BY <2>1, BeginQuiet DEF Io, kernelVars
  <2>2. ASSUME NEW fd \in Fds, Accept(f, fd) PROVE Quiet
    BY <2>2, BeginQuiet DEF Accept, kernelVars
  <2>3. ASSUME NEW fd \in Fds, NEW timed \in BOOLEAN, Connect(f, fd, timed) PROVE Quiet
    BY <2>3, BeginQuiet DEF Connect, kernelVars
  <2>4. ASSUME Sleep(f) PROVE Quiet
    BY <2>4, BeginQuiet DEF Sleep, kernelVars
  <2>5. ASSUME Socket(f) PROVE \E fd \in Fds : Opens(f, fd)
    <3>1. PICK fd \in Numbers, v \in BOOLEAN :
             /\ Begin(f, "socket", fd, "READ", TRUE, FALSE)
             /\ Kernel(fd, "new", {})
             /\ nonblock' = [nonblock EXCEPT ![fd] = v]
             /\ own' = IF v THEN own \union {fd} ELSE own \ {fd}
             /\ Goto(f, "get")
             /\ UNCHANGED m_datas
      BY <2>5 DEF Socket
    <3>2. fd \in Fds /\ "user" \notin Ends
      BY DEF Numbers, Ends
    <3>3. /\ pc[f] = "user" /\ op'[f].fd = fd /\ \A g \in Fibers \ {f} : op'[g] = op[g]
      BY <3>1 DEF Begin, TypeOK
    <3>4. file' = [file EXCEPT ![fd] = "new"] /\ file'[fd] = "new"
      BY <3>1, <3>2 DEF Kernel, TypeOK
    <3>5. /\ nonblock' = [nonblock EXCEPT ![fd] = nonblock'[fd]]
          /\ nonblock'[fd] => fd \in own'
          /\ \A d \in Fds \ {fd} : d \in own' <=> d \in own
      BY <3>1, <3>2 DEF TypeOK
    <3>6. Opens(f, fd)
      BY <3>1, <3>2, <3>3, <3>4, <3>5 DEF Opens, Goto
    <3>7. QED
      BY <3>2, <3>6
  <2>6. ASSUME NEW fd \in Fds, Option(f, fd) PROVE Quiet
    <3>1. UNCHANGED <<pc, op, file>>
      BY <2>6 DEF Option
    <3>2. \A d \in Fds : m_datas'[d] = None <=> m_datas[d] = None
      <4>1. CASE m_datas[fd] # None
        <5>1. m_datas[fd] \in FdCtx
          BY <4>1 DEF TypeOK
        <5>2. /\ \A v \in BOOLEAN : [m_datas[fd] EXCEPT !.user = v] \in FdCtx
              /\ \A ev \in Event :
                    [m_datas[fd] EXCEPT !.to = m_datas[fd].to \union {ev}] \in FdCtx
          BY <5>1 DEF FdCtx
        <5>3. PICK c \in FdCtx : m_datas' = [m_datas EXCEPT ![fd] = c]
          BY <2>6, <4>1, <5>2 DEF Option, Fcntl, Ioctl, SetTimeout
        <5>4. QED
          BY <4>1, <5>3, HookNone DEF TypeOK
      <4>2. CASE m_datas[fd] = None
        BY <2>6, <4>2 DEF Option, SetRaw
      <4>3. QED
        BY <4>1, <4>2
    <3>3. QED
      BY <2>6, <3>1, <3>2 DEF Quiet, Keeps, Stops
  <2>7. QED
    BY <1>2, <2>1, <2>2, <2>3, <2>4, <2>5, <2>6 DEF Calls
<1>3. ASSUME NEW f \in Fibers, Inside(f)
      PROVE  \/ Quiet \/ \E fd \in Fds : Opens(f, fd)
             \/ Get(f) \/ Create(f) \/ CloseDel(f) \/ CloseFd(f)
  <2>0. /\ {"fun", "event", "parked", "sockopt", "stuck"} \cap (Ends \union {"user"}) = {}
        /\ ShapeOf(pc[f], op[f])
    BY DEF Ends, Control, CallShape
  <2>1. ASSUME FunIo(f) PROVE Quiet
    <3>1. pc[f] = "fun" /\ UNCHANGED <<nonblock, m_datas, own>> /\ op[f].fd \in Fds
      BY <2>0, <2>1 DEF FunIo, ShapeOf
    <3>2. CASE Return(f, "ok") /\ file[op[f].fd] = "up"
               /\ file' = [file EXCEPT ![op[f].fd] = "up"]
      <4>1. \A fd \in Fds : file'[fd] = "free" <=> file[fd] = "free"
        BY <3>1, <3>2 DEF TypeOK
      <4>2. QED
        BY <2>0, <3>1, <3>2, <4>1, ReturnQuiet
    <3>3. CASE Blocks(f) /\ UNCHANGED file /\ file[op[f].fd] \in {"pending", "up"}
      BY <3>1, <3>3, BlocksQuiet
    <3>4. CASE Fails(f, op[f].fd)
      BY <2>0, <3>1, <3>4, FailsFree, ReturnQuiet
    <3>5. QED
      BY <2>1, <3>2, <3>3, <3>4 DEF FunIo, Kernel
  <2>2. ASSUME FunAccept(f) PROVE Quiet \/ \E fd \in Fds : Opens(f, fd)
    <3>1. pc[f] = "fun" /\ UNCHANGED m_datas /\ op[f].fd \in Fds
      BY <2>0, <2>2 DEF FunAccept, ShapeOf
    <3>2. ASSUME NEW new \in Numbers, file' = [file EXCEPT ![new] = "up"],
                 nonblock' = [nonblock EXCEPT ![new] = FALSE], own' = own \ {new},
                 op' = [op EXCEPT ![f].fd = new], Goto(f, "get")
          PROVE  \E fd \in Fds : Opens(f, fd)
      <4>1. new \in Fds /\ op[f] \in Op
        BY DEF Numbers, TypeOK
      <4>2. /\ op'[f] = [op[f] EXCEPT !.fd = new] /\ \A g \in Fibers \ {f} : op'[g] = op[g]
        BY <3>2 DEF TypeOK
      <4>3. op'[f].fd = new
        BY <4>1, <4>2 DEF Op
      <4>4. file'[new] = "up"
        BY <3>2, <4>1 DEF TypeOK
      <4>5. /\ nonblock' = [nonblock EXCEPT ![new] = nonblock'[new]] /\ ~ nonblock'[new]
            /\ \A d \in Fds \ {new} : d \in own' <=> d \in own
        BY <3>2, <4>1 DEF TypeOK
      <4>6. Opens(f, new)
        BY <2>0, <3>1, <3>2, <4>2, <4>3, <4>4, <4>5 DEF Opens, Goto
      <4>7. QED
        BY <4>1, <4>6
    <3>3. CASE Blocks(f) /\ UNCHANGED <<file, nonblock, own>> /\ file[op[f].fd] = "listen"
      BY <3>1, <3>3, BlocksQuiet
    <3>4. CASE Fails(f, op[f].fd) /\ UNCHANGED <<nonblock, own>>
      BY <2>0, <3>1, <3>4, FailsFree, ReturnQuiet
    <3>5. QED
      BY <2>2, <3>2, <3>3, <3>4 DEF FunAccept
  <2>3. ASSUME FunConnect(f) PROVE Quiet
    <3>1. pc[f] = "fun" /\ UNCHANGED <<nonblock, m_datas, own>> /\ op[f].fd \in Fds
      BY <2>0, <2>3 DEF FunConnect, ShapeOf
    <3>2. ASSUME NEW state \in {"up", "pending"}, file[op[f].fd] = "new",
                 file' = [file EXCEPT ![op[f].fd] = state]
          PROVE  \A fd \in Fds : file'[fd] = "free" <=> file[fd] = "free"
      BY <3>1, <3>2 DEF TypeOK
    <3>3. CASE Return(f, "ok") /\ file[op[f].fd] = "new" /\ Kernel(op[f].fd, "up", {"WRITE"})
      BY <2>0, <3>1, <3>2, <3>3, ReturnQuiet DEF Kernel
    <3>4. CASE Blocks(f) /\ file[op[f].fd] = "new" /\ Kernel(op[f].fd, "pending", {})
      BY <3>1, <3>2, <3>4, BlocksQuiet DEF Kernel
    <3>5. CASE Fails(f, op[f].fd)
      BY <2>0, <3>1, <3>5, FailsFree, ReturnQuiet
    <3>6. QED
      BY <2>3, <3>3, <3>4, <3>5 DEF FunConnect
  <2>4. ASSUME SockOpt(f) PROVE Quiet
    <3>1. pc[f] = "sockopt" /\ UNCHANGED <<nonblock, m_datas, own>>
      BY <2>4 DEF SockOpt
    <3>2. CASE Return(f, "ok") /\ UNCHANGED file
      BY <2>0, <3>1, <3>2, ReturnQuiet
    <3>3. CASE Fails(f, op[f].fd)
      BY <2>0, <3>1, <3>3, FailsFree, ReturnQuiet
    <3>4. QED
      BY <2>4, <3>2, <3>3 DEF SockOpt
  <2>5. ASSUME AddEvent(f) PROVE Quiet
    BY <2>0, <2>5, GotoQuiet DEF AddEvent, kernelVars
  <2>6. ASSUME AddEventFails(f) PROVE Quiet
    BY <2>0, <2>6, ContinueQuiet, ReturnQuiet DEF AddEventFails, kernelVars
  <2>7. ASSUME Resume(f) PROVE Quiet
    BY <2>0, <2>7, ContinueQuiet, ReturnQuiet DEF Resume, kernelVars
  <2>8. ASSUME Unblock(f) PROVE Quiet
    BY <2>0, <2>8, ContinueQuiet DEF Unblock, kernelVars
  <2>9. QED
    BY <1>3, <2>1, <2>2, <2>3, <2>4, <2>5, <2>6, <2>7, <2>8 DEF Inside
<1>4. QED
  BY <1>1, <1>2, <1>3 DEF Next

\* One fiber at a time closes a descriptor, which stays open until it has done so.
Closers ==
    /\ \A f, g \in Fibers, fd \in Fds : Closer(f, fd) /\ Closer(g, fd) => f = g
    /\ \A f \in Fibers, fd \in Fds : Closer(f, fd) => file[fd] # "free"

\* What the five steps do to the fiber that takes them, and to no other.
LEMMA EndSteps ==
    ASSUME TypeOK, Control, NEW f \in Fibers
    PROVE  /\ Get(f) \/ Create(f) \/ CloseDel(f) \/ CloseFd(f) =>
                 op[f].fd \in Fds /\ \A g \in Fibers \ {f} : pc'[g] = pc[g] /\ op'[g] = op[g]
           /\ Get(f) => /\ pc[f] = "get" /\ UNCHANGED <<file, nonblock, own, m_datas>>
                        /\ \/ pc'[f] = "user" /\ m_datas[op[f].fd] # None
                           \/ pc'[f] = "create" /\ op'[f] = op[f]
           /\ Create(f) => /\ pc[f] = "create" /\ pc'[f] = "user" /\ UNCHANGED <<file, own>>
                           /\ FdCtxInit(op[f].fd)
           /\ CloseDel(f) => /\ pc[f] = "closeDel" /\ pc'[f] = "closeFd" /\ op'[f] = op[f]
                             /\ UNCHANGED <<file, nonblock, own>> /\ Del(op[f].fd)
           /\ CloseFd(f) => /\ pc[f] = "closeFd" /\ pc'[f] = "user"
                            /\ file' = [file EXCEPT ![op[f].fd] = "free"]
                            /\ UNCHANGED <<nonblock, own, m_datas>>
           /\ \A fd \in Fds : Close(f, fd) =>
                 /\ pc[f] = "user" /\ pc'[f] = "closeDel" /\ op'[f].fd = fd
                 /\ UNCHANGED <<file, nonblock, own, m_datas>>
                 /\ file[fd] # "free" /\ ~ Opening(fd) /\ ~ Closing(fd)
                 /\ \A g \in Fibers \ {f} : pc'[g] = pc[g] /\ op'[g] = op[g]
<1>0. ShapeOf(pc[f], op[f])
  BY DEF Control, CallShape
<1>1. Get(f) \/ Create(f) \/ CloseDel(f) \/ CloseFd(f) => op[f].fd \in Fds
  BY <1>0 DEF Get, Create, CloseDel, CloseFd, ShapeOf
<1>2. Get(f) \/ Create(f) \/ CloseDel(f) \/ CloseFd(f) =>
         \A g \in Fibers \ {f} : pc'[g] = pc[g] /\ op'[g] = op[g]
  BY DEF Get, Create, CloseDel, CloseFd, Return, Continue, Goto, TypeOK
<1>3. ASSUME Get(f)
      PROVE  /\ pc[f] = "get" /\ UNCHANGED <<file, nonblock, own, m_datas>>
             /\ \/ pc'[f] = "user" /\ m_datas[op[f].fd] # None
                \/ pc'[f] = "create" /\ op'[f] = op[f]
  BY <1>3 DEF Get, Return, Continue, Goto, TypeOK, kernelVars
<1>4. ASSUME Create(f)
      PROVE  /\ pc[f] = "create" /\ pc'[f] = "user" /\ UNCHANGED <<file, own>>
             /\ FdCtxInit(op[f].fd)
  BY <1>4 DEF Create, Return, Goto, TypeOK
<1>5. ASSUME CloseDel(f)
      PROVE  /\ pc[f] = "closeDel" /\ pc'[f] = "closeFd" /\ op'[f] = op[f]
             /\ UNCHANGED <<file, nonblock, own>> /\ Del(op[f].fd)
  BY <1>5 DEF CloseDel, Continue, Goto, TypeOK, kernelVars
<1>6. ASSUME CloseFd(f)
      PROVE  /\ pc[f] = "closeFd" /\ pc'[f] = "user"
             /\ file' = [file EXCEPT ![op[f].fd] = "free"]
             /\ UNCHANGED <<nonblock, own, m_datas>>
  BY <1>6 DEF CloseFd, Kernel, Return, Goto, TypeOK
<1>7. ASSUME NEW fd \in Fds, Close(f, fd)
      PROVE  /\ pc[f] = "user" /\ pc'[f] = "closeDel" /\ op'[f].fd = fd
             /\ UNCHANGED <<file, nonblock, own, m_datas>>
             /\ file[fd] # "free" /\ ~ Opening(fd) /\ ~ Closing(fd)
             /\ \A g \in Fibers \ {f} : pc'[g] = pc[g] /\ op'[g] = op[g]
  BY <1>7 DEF Close, Begin, Goto, TypeOK, kernelVars
<1>8. QED
  BY <1>1, <1>2, <1>3, <1>4, <1>5, <1>6, <1>7

LEMMA OpensStep ==
    ASSUME TypeOK, NEW f \in Fibers, NEW fd \in Fds, Opens(f, fd)
    PROVE  /\ file[fd] = "free" /\ file'[fd] # "free" /\ pc'[f] = "get"
           /\ \A d \in Fds \ {fd} : file'[d] = file[d] /\ nonblock'[d] = nonblock[d]
           /\ nonblock'[fd] => fd \in own'
           /\ \A d \in Fds \ {fd} : d \in own' <=> d \in own
           /\ \A g \in Fibers \ {f} : pc'[g] = pc[g] /\ op'[g] = op[g]
  BY DEF Opens, Numbers, TypeOK

LEMMA ClosersStep ==
    ASSUME TypeOK, Control, Closers, [Next]_vars
    PROVE  Closers'
<1>1. CASE Quiet
  <2>1. \A f \in Fibers, fd \in Fds : Closer(f, fd)' => Closer(f, fd)
    BY <1>1 DEF Quiet, Keeps, Ends, Closer
  <2>2. QED
    BY <1>1, <2>1 DEF Closers, Quiet
<1>2. ASSUME NEW f \in Fibers, NEW fd \in Fds, Opens(f, fd) PROVE Closers'
  <2>1. \A g \in Fibers, d \in Fds : Closer(g, d)' => Closer(g, d)
    BY <1>2, OpensStep DEF Closer
  <2>2. \A d \in Fds : file[d] # "free" => file'[d] # "free"
    BY <1>2, OpensStep
  <2>3. QED
    BY <2>1, <2>2 DEF Closers
<1>3. ASSUME NEW f \in Fibers, NEW fd \in Fds, Close(f, fd) PROVE Closers'
  <2>1. \A g \in Fibers : ~ Closer(g, fd)
    BY <1>3, EndSteps, OpenersClosers
  <2>2. \A g \in Fibers, d \in Fds : Closer(g, d)' => Closer(g, d) \/ (g = f /\ d = fd)
    BY <1>3, EndSteps DEF Closer
  <2>3. UNCHANGED file /\ file[fd] # "free"
    BY <1>3, EndSteps
  <2>4. QED
    BY <2>1, <2>2, <2>3 DEF Closers
<1>4. ASSUME NEW f \in Fibers, Get(f) \/ Create(f) \/ CloseDel(f) PROVE Closers'
  <2>1. \A g \in Fibers, d \in Fds : Closer(g, d)' => Closer(g, d)
    BY <1>4, EndSteps DEF Closer
  <2>2. UNCHANGED file
    BY <1>4, EndSteps
  <2>3. QED
    BY <2>1, <2>2 DEF Closers
<1>5. ASSUME NEW f \in Fibers, CloseFd(f) PROVE Closers'
  <2>1. \A g \in Fibers, d \in Fds : Closer(g, d)' => Closer(g, d) /\ g # f
    BY <1>5, EndSteps DEF Closer
  <2>2. Closer(f, op[f].fd) /\ op[f].fd \in Fds
    BY <1>5, EndSteps DEF Closer
  <2>3. \A d \in Fds : d # op[f].fd => file'[d] = file[d]
    BY <1>5, EndSteps DEF TypeOK
  <2>4. QED
    BY <2>1, <2>2, <2>3 DEF Closers
<1>6. QED
  BY <1>1, <1>2, <1>3, <1>4, <1>5, StepKinds

LEMMA ClosersInvariant == Spec => [](TypeOK /\ Control /\ Closers)
<1>1. Init => Closers
  BY DEF Init, Closers, Closer
<1>2. QED
  BY <1>1, ClosersStep, ControlInvariant, PTL DEF Spec

\* As long as no number is given out while a call on it is going on: whoever opens
\* a descriptor is alone on it, and it has no FdCtx yet; an open descriptor has
\* one, unless its opener or its closer is between the two halves of its work.
Descriptors ==
    /\ \A f, g \in Fibers, fd \in Fds :
          Opener(f, fd) /\ g # f /\ pc[g] # "user" => op[g].fd # fd
    /\ \A f \in Fibers, fd \in Fds :
          Opener(f, fd) => file[fd] # "free" /\ m_datas[fd] = None
    /\ \A f \in Fibers, fd \in Fds :
          pc[f] = "closeFd" /\ op[f].fd = fd => m_datas[fd] = None
    /\ \A fd \in Fds : file[fd] = "free" => m_datas[fd] = None
    /\ \A fd \in Fds : file[fd] # "free" /\ m_datas[fd] = None =>
          \E f \in Fibers : Opener(f, fd) \/ (pc[f] = "closeFd" /\ op[f].fd = fd)

\* Nobody is on the number that is given out.
LEMMA OpensAlone ==
    ASSUME ~ MayReuse, TypeOK, Control, Closers, NEW f \in Fibers, NEW fd \in Fds, Opens(f, fd)
    PROVE  \A g \in Fibers : pc[g] # "user" => op[g].fd # fd
<1> SUFFICES ASSUME NEW g \in Fibers, pc[g] # "user", op[g].fd = fd PROVE FALSE
  OBVIOUS
<1>1. g \in On(fd) /\ file[fd] = "free"
  BY OpensStep DEF On, InCall
<1>2. op[g].kind = "close"
  BY <1>1 DEF Opens, Numbers
<1>3. Closing(fd)
  BY <1>1, <1>2 DEF Closing
<1>4. \E h \in Fibers : Closer(h, fd)
  BY <1>3, OpenersClosers
<1>5. QED
  BY <1>1, <1>4 DEF Closers

LEMMA DescriptorsStep ==
    ASSUME ~ MayReuse, TypeOK, Control, Closers, Descriptors, [Next]_vars
    PROVE  Descriptors'
<1> DEFINE D1 == \A f, g \in Fibers, fd \in Fds :
                    Opener(f, fd) /\ g # f /\ pc[g] # "user" => op[g].fd # fd
           D2 == \A f \in Fibers, fd \in Fds :
                    Opener(f, fd) => file[fd] # "free" /\ m_datas[fd] = None
           D3 == \A f \in Fibers, fd \in Fds :
                    pc[f] = "closeFd" /\ op[f].fd = fd => m_datas[fd] = None
           D4 == \A fd \in Fds : file[fd] = "free" => m_datas[fd] = None
           D5 == \A fd \in Fds : file[fd] # "free" /\ m_datas[fd] = None =>
                    \E f \in Fibers : Opener(f, fd) \/ (pc[f] = "closeFd" /\ op[f].fd = fd)
<1>0. D1 /\ D2 /\ D3 /\ D4 /\ D5
  BY DEF Descriptors
<1>q. D1' /\ D2' /\ D3' /\ D4' /\ D5' => Descriptors'
  BY DEF Descriptors
<1>1. CASE Quiet
  <2>1. ASSUME NEW f \in Fibers, NEW fd \in Fds
        PROVE  /\ Opener(f, fd)' <=> Opener(f, fd)
               /\ (pc[f] = "closeFd" /\ op[f].fd = fd)' <=> (pc[f] = "closeFd" /\ op[f].fd = fd)
    BY <1>1 DEF Quiet, Keeps, Ends, Opener
  <2>2. D1'
    <3> SUFFICES ASSUME NEW f \in Fibers, NEW g \in Fibers, NEW fd \in Fds,
                        Opener(f, fd), g # f, pc'[g] # "user"
                 PROVE  op'[g].fd # fd
      BY <2>1
    <3>1. Opening(fd)
      BY OpenersClosers
    <3>2. ~ Usable(fd) /\ fd # None
      BY <3>1, HookNone DEF Usable
    <3>3. pc[g] # "user" => op[g].fd # fd
      BY <1>0
    <3>4. Keeps(g)
      BY <1>1 DEF Quiet
    <3>5. QED
      BY <3>2, <3>3, <3>4 DEF Keeps
  <2>3. D2' /\ D3' /\ D4' /\ D5'
    BY <1>0, <1>1, <2>1 DEF Quiet
  <2>4. QED
    BY <1>q, <2>2, <2>3
<1>2. ASSUME NEW f \in Fibers, NEW fd \in Fds, Opens(f, fd) PROVE Descriptors'
  <2>1. \A g \in Fibers : pc[g] # "user" => op[g].fd # fd
    BY <1>2, OpensAlone
  <2>a. op'[f].fd = fd /\ m_datas' = m_datas /\ pc[f] \notin Ends
    BY <1>2 DEF Opens
  <2>2. /\ op'[f].fd = fd /\ m_datas' = m_datas /\ pc[f] \notin Ends /\ pc'[f] = "get"
        /\ \A g \in Fibers \ {f} : pc'[g] = pc[g] /\ op'[g] = op[g]
        /\ file[fd] = "free" /\ file'[fd] # "free"
        /\ \A d \in Fds \ {fd} : file'[d] = file[d]
    BY <1>2, <2>a, OpensStep
  <2>3. Opener(f, fd)' /\ \A g \in Fibers, d \in Fds : g # f => (Opener(g, d)' <=> Opener(g, d))
    BY <2>2 DEF Opener
  <2>4. \A d \in Fds : Opener(f, d)' => d = fd
    BY <2>2 DEF Opener
  <2>5. \A d \in Fds : ~ Opener(f, d)
    BY <2>2 DEF Opener, Ends
  <2>6. D1'
    BY <1>0, <2>1, <2>2, <2>3, <2>4 DEF Opener
  <2>7. D2' /\ D3' /\ D4'
    BY <1>0, <2>2, <2>3, <2>4
  <2>8. D5'
    <3> SUFFICES ASSUME NEW d \in Fds, file'[d] # "free", m_datas'[d] = None
                 PROVE  \E g \in Fibers : Opener(g, d)' \/ (pc'[g] = "closeFd" /\ op'[g].fd = d)
      BY Zenon
    <3>1. CASE d = fd
      BY <2>3, <3>1
    <3>2. CASE d # fd
      <4>1. PICK g \in Fibers : Opener(g, d) \/ (pc[g] = "closeFd" /\ op[g].fd = d)
        BY <1>0, <2>2, <3>2
      <4>2. g # f
        BY <2>2, <2>5, <4>1 DEF Ends
      <4>3. QED
        BY <2>2, <2>3, <4>1, <4>2
    <3>3. QED
      BY <3>1, <3>2
  <2>9. QED
    BY <1>q, <2>6, <2>7, <2>8
<1>3. ASSUME NEW f \in Fibers, NEW fd \in Fds, Close(f, fd) PROVE Descriptors'
  <2>1. /\ pc[f] = "user" /\ pc'[f] = "closeDel" /\ op'[f].fd = fd
        /\ UNCHANGED <<file, nonblock, own, m_datas>>
        /\ \A g \in Fibers : ~ Opener(g, fd)
        /\ \A g \in Fibers \ {f} : pc'[g] = pc[g] /\ op'[g] = op[g]
    BY <1>3, EndSteps, OpenersClosers
  <2>2. \A g \in Fibers, d \in Fds : Opener(g, d)' <=> Opener(g, d)
    BY <2>1 DEF Opener
  <2>3. D1' /\ D2'
    BY <1>0, <2>1, <2>2
  <2>4. D3' /\ D4' /\ D5'
    BY <1>0, <2>1, <2>2
  <2>5. QED
    BY <1>q, <2>3, <2>4
<1>4. ASSUME NEW f \in Fibers, Get(f) PROVE Descriptors'
  <2>1. /\ op[f].fd \in Fds /\ \A g \in Fibers \ {f} : pc'[g] = pc[g] /\ op'[g] = op[g]
        /\ pc[f] = "get" /\ UNCHANGED <<file, nonblock, own, m_datas>>
        /\ \/ pc'[f] = "user" /\ m_datas[op[f].fd] # None
           \/ pc'[f] = "create" /\ op'[f] = op[f]
    BY <1>4, EndSteps
  <2>2. pc'[f] = "create" /\ op'[f] = op[f]
    BY <1>0, <2>1 DEF Opener
  <2>3. \A g \in Fibers, d \in Fds :
           /\ Opener(g, d)' <=> Opener(g, d)
           /\ (pc[g] = "closeFd" /\ op[g].fd = d)' <=> (pc[g] = "closeFd" /\ op[g].fd = d)
           /\ pc'[g] # "user" /\ op'[g].fd = d <=> pc[g] # "user" /\ op[g].fd = d
    BY <2>1, <2>2 DEF Opener
  <2>4. QED
    BY <1>0, <1>q, <2>1, <2>3
<1>5. ASSUME NEW f \in Fibers, Create(f) PROVE Descriptors'
  <2> DEFINE fd == op[f].fd
  <2>1. /\ fd \in Fds /\ \A g \in Fibers \ {f} : pc'[g] = pc[g] /\ op'[g] = op[g]
        /\ pc[f] = "create" /\ pc'[f] = "user" /\ UNCHANGED <<file, own>>
    BY <1>5, EndSteps
  <2>2. m_datas'[fd] # None /\ \A d \in Fds \ {fd} : m_datas'[d] = m_datas[d]
    <3>1. [sys |-> ~ nonblock[fd], user |-> FALSE, to |-> {}] \in FdCtx
      BY <2>1 DEF FdCtx, TypeOK
    <3>2. m_datas' = [m_datas EXCEPT ![fd] =
                         [sys |-> ~ nonblock[fd], user |-> FALSE, to |-> {}]]
      BY <1>5 DEF Create, FdCtxInit
    <3>3. m_datas'[fd] = [sys |-> ~ nonblock[fd], user |-> FALSE, to |-> {}]
      BY <2>1, <3>2 DEF TypeOK
    <3>4. \A d \in Fds \ {fd} : m_datas'[d] = m_datas[d]
      BY <3>2 DEF TypeOK
    <3>5. QED
      BY <3>1, <3>3, <3>4, HookNone
  <2>3. Opener(f, fd)
    BY <2>1 DEF Opener
  <2> HIDE DEF fd
  <2>4. /\ file[fd] # "free" /\ \A g \in Fibers : g # f /\ pc[g] # "user" => op[g].fd # fd
    BY <1>0, <2>1, <2>3
  <2>5. \A g \in Fibers, d \in Fds : Opener(g, d)' <=> Opener(g, d) /\ g # f
    BY <2>1 DEF Opener
  <2>6. D1' /\ D4'
    BY <1>0, <2>1, <2>2, <2>4, <2>5
  <2>7. D2' /\ D3'
    BY <1>0, <2>1, <2>2, <2>4, <2>5 DEF Opener
  <2>8. D5'
    BY <1>0, <2>1, <2>2, <2>5 DEF Opener, fd
  <2>9. QED
    BY <1>q, <2>6, <2>7, <2>8
<1>6. ASSUME NEW f \in Fibers, CloseDel(f) PROVE Descriptors'
  <2>1. /\ op[f].fd \in Fds /\ \A g \in Fibers \ {f} : pc'[g] = pc[g] /\ op'[g] = op[g]
        /\ pc[f] = "closeDel" /\ pc'[f] = "closeFd" /\ op'[f] = op[f]
        /\ UNCHANGED <<file, nonblock, own>> /\ Del(op[f].fd)
    BY <1>6, EndSteps
  <2>2. \A d \in Fds : m_datas'[d] = IF d = op[f].fd THEN None ELSE m_datas[d]
    BY <2>1 DEF Del, TypeOK
  <2>3. \A g \in Fibers, d \in Fds :
           /\ Opener(g, d)' <=> Opener(g, d)
           /\ pc'[g] # "user" /\ op'[g].fd = d <=> pc[g] # "user" /\ op[g].fd = d
           /\ pc[g] = "closeFd" /\ op[g].fd = d => pc'[g] = "closeFd" /\ op'[g].fd = d
           /\ pc'[g] = "closeFd" /\ op'[g].fd = d =>
                 (pc[g] = "closeFd" /\ op[g].fd = d) \/ d = op[f].fd
    BY <2>1 DEF Opener
  <2>4. D1' /\ D4'
    BY <1>0, <2>1, <2>2, <2>3
  <2>5. D2' /\ D3'
    BY <1>0, <2>1, <2>2, <2>3
  <2>6. D5'
    BY <1>0, <2>1, <2>2, <2>3
  <2>7. QED
    BY <1>q, <2>4, <2>5, <2>6
<1>7. ASSUME NEW f \in Fibers, CloseFd(f) PROVE Descriptors'
  <2>1. /\ op[f].fd \in Fds /\ \A g \in Fibers \ {f} : pc'[g] = pc[g] /\ op'[g] = op[g]
        /\ pc[f] = "closeFd" /\ pc'[f] = "user" /\ UNCHANGED m_datas
        /\ file' = [file EXCEPT ![op[f].fd] = "free"]
    BY <1>7, EndSteps
  <2>2. \A d \in Fds : file'[d] = IF d = op[f].fd THEN "free" ELSE file[d]
    BY <2>1 DEF TypeOK
  <2>3. \A g \in Fibers : ~ Opener(g, op[f].fd)
    <3>1. ~ Opener(f, op[f].fd)
      BY <2>1 DEF Opener
    <3>2. \A g \in Fibers \ {f} : ~ Opener(g, op[f].fd)
      BY <1>0, <2>1
    <3>3. QED
      BY <3>1, <3>2
  <2>4. \A g \in Fibers, d \in Fds :
           /\ Opener(g, d)' <=> Opener(g, d)
           /\ pc'[g] # "user" /\ op'[g].fd = d => pc[g] # "user" /\ op[g].fd = d
           /\ pc'[g] = "closeFd" /\ op'[g].fd = d => pc[g] = "closeFd" /\ op[g].fd = d
           /\ pc[g] = "closeFd" /\ op[g].fd = d /\ d # op[f].fd
                 => pc'[g] = "closeFd" /\ op'[g].fd = d
    BY <2>1 DEF Opener
  <2>5. D1' /\ D2'
    BY <1>0, <2>1, <2>2, <2>3, <2>4
  <2>6. D3' /\ D4' /\ D5'
    BY <1>0, <2>1, <2>2, <2>4
  <2>7. QED
    BY <1>q, <2>5, <2>6
<1>8. QED
  BY <1>1, <1>2, <1>3, <1>4, <1>5, <1>6, <1>7, StepKinds

LEMMA DescriptorsInit == Init => Descriptors
<1> SUFFICES ASSUME Init PROVE Descriptors
  OBVIOUS
<1>1. \A fd : [sys |-> fd \notin own, user |-> FALSE, to |-> Event] \in FdCtx
  BY DEF FdCtx
<1>2. \A fd \in Fds : m_datas[fd] = None <=> file[fd] = "free"
  BY <1>1, HookNone DEF Init
<1>3. QED
  BY <1>2 DEF Init, Descriptors, Opener

\* Unless a number is given out while a call on it is going on, the FdCtx of a
\* number is there exactly while the number is open, for any interleaving of the
\* calls that open and close it.
THEOREM ContextsTrackFiles ==
    ASSUME ~ MayReuse
    PROVE  Spec => []CtxTracksFile
<1>1. TypeOK /\ Control /\ Closers /\ Descriptors => CtxTracksFile
  BY OpenersClosers DEF Descriptors, CtxTracksFile, Closer
<1>2. QED
  BY <1>1, ClosersInvariant, DescriptorsInit, DescriptorsStep, PTL DEF Spec

\* Of the sockets whose O_NONBLOCK the user has not set: an open one is
\* non-blocking unless its opener has not come to FdCtx::init, and its FdCtx
\* remembers that it made it so; no call is stopped on it.
Flags ==
    /\ \A f \in Fibers : pc[f] = "stuck" => op[f].fd \in own
    /\ \A fd \in Fds : file[fd] # "free" /\ fd \notin own =>
          (nonblock[fd] <=> \A f \in Fibers : ~ Opener(f, fd))
    /\ \A fd \in Fds : m_datas[fd] # None /\ fd \notin own => m_datas[fd].sys

LEMMA FlagsStep ==
    ASSUME ~ MayReuse, TypeOK, Control, Closers, Descriptors, Flags, [Next]_vars
    PROVE  Flags'
<1> DEFINE F1 == \A f \in Fibers : pc[f] = "stuck" => op[f].fd \in own
           F2 == \A fd \in Fds : file[fd] # "free" /\ fd \notin own =>
                    (nonblock[fd] <=> \A f \in Fibers : ~ Opener(f, fd))
           F3 == \A fd \in Fds : m_datas[fd] # None /\ fd \notin own => m_datas[fd].sys
<1>0. F1 /\ F2 /\ F3
  BY DEF Flags
<1>q. F1' /\ F2' /\ F3' => Flags'
  BY DEF Flags
<1>s. \A f \in Fibers : pc[f] \in {"fun", "stuck"} => op[f].fd \in Fds
  BY DEF Control, CallShape, ShapeOf
<1>1. CASE Quiet
  <2>1. \A f \in Fibers, fd \in Fds : Opener(f, fd)' <=> Opener(f, fd)
    BY <1>1 DEF Quiet, Keeps, Ends, Opener
  <2>2. \A f \in Fibers : pc'[f] = "stuck" => op'[f].fd \in own
    <3> SUFFICES ASSUME NEW f \in Fibers, pc'[f] = "stuck" PROVE op'[f].fd \in own
      OBVIOUS
    <3>1. Stops(f)
      BY <1>1 DEF Quiet
    <3>2. CASE pc[f] = "stuck"
      BY <1>0, <3>1, <3>2 DEF Stops
    <3>3. CASE pc[f] = "fun" /\ ~ nonblock[op[f].fd] /\ file[op[f].fd] # "free"
      <4> SUFFICES ASSUME op[f].fd \notin own PROVE FALSE
        BY <3>1 DEF Stops
      <4>1. op[f].fd \in Fds
        BY <1>s, <3>3
      <4>2. PICK g \in Fibers : Opener(g, op[f].fd)
        BY <1>0, <3>3, <4>1
      <4>3. g # f
        BY <3>3, <4>2 DEF Opener
      <4>4. QED
        BY <3>3, <4>1, <4>2, <4>3 DEF Descriptors
    <3>4. QED
      BY <3>1, <3>2, <3>3 DEF Stops
  <2>3. CASE UNCHANGED <<nonblock, m_datas, own>>
    BY <1>0, <1>1, <1>q, <2>1, <2>2, <2>3 DEF Quiet
  <2>4. ASSUME NEW f \in Fibers, NEW fd \in Fds, Option(f, fd) PROVE Flags'
    <3>1. UNCHANGED file /\ file[fd] # "free" /\ ~ Opening(fd)
      BY <2>4 DEF Option, Usable
    <3>2. \A g \in Fibers : ~ Opener(g, fd)
      BY <3>1, OpenersClosers
    <3>3. own \subseteq own'
      BY <2>4 DEF Option, Fcntl, Ioctl, SetRaw, SetTimeout
    <3>4. \A d \in Fds \ {fd} : nonblock'[d] = nonblock[d] /\ m_datas'[d] = m_datas[d]
      BY <2>4 DEF Option, Fcntl, Ioctl, SetRaw, SetTimeout, TypeOK
    <3>5. ASSUME fd \notin own' PROVE nonblock'[fd] /\ (m_datas'[fd] # None => m_datas'[fd].sys)
      <4>1. \/ \E v \in BOOLEAN : Fcntl(fd, v) \/ \E ev \in Event : SetTimeout(fd, ev)
        BY <2>4, <3>5 DEF Option, Ioctl, SetRaw
      <4>2. m_datas[fd] # None /\ m_datas[fd] \in FdCtx
        BY <2>4, <3>5 DEF Option, SetRaw, TypeOK
      <4>3. m_datas[fd].sys = TRUE /\ nonblock[fd] = TRUE
        BY <1>0, <3>1, <3>2, <3>3, <3>5, <4>2 DEF FdCtx, TypeOK
      <4>4. /\ \A v \in BOOLEAN : [m_datas[fd] EXCEPT !.user = v].sys
            /\ \A ev \in Event : [m_datas[fd] EXCEPT !.to = m_datas[fd].to \union {ev}].sys
        BY <4>2, <4>3 DEF FdCtx
      <4>5. ASSUME NEW v \in BOOLEAN, Fcntl(fd, v) PROVE nonblock'[fd] /\ m_datas'[fd].sys
        BY <4>3, <4>4, <4>5 DEF Fcntl, TypeOK
      <4>6. ASSUME NEW ev \in Event, SetTimeout(fd, ev)
            PROVE  nonblock'[fd] /\ m_datas'[fd].sys
        BY <4>3, <4>4, <4>6 DEF SetTimeout, TypeOK
      <4>7. QED
        BY <4>1, <4>5, <4>6
    <3>6. F1'
      BY <2>2, <3>3
    <3>7. F2'
      BY <1>0, <2>1, <3>1, <3>2, <3>3, <3>4, <3>5
    <3>8. F3'
      BY <1>0, <3>3, <3>4, <3>5
    <3>9. QED
      BY <1>q, <3>6, <3>7, <3>8
  <2>5. QED
    BY <1>1, <2>3, <2>4 DEF Quiet
<1>2. ASSUME NEW f \in Fibers, NEW fd \in Fds, Opens(f, fd) PROVE Flags'
  <2>1. op'[f].fd = fd /\ m_datas' = m_datas /\ pc[f] \notin Ends
    BY <1>2 DEF Opens
  <2>2. /\ file[fd] = "free" /\ file'[fd] # "free" /\ pc'[f] = "get"
        /\ \A d \in Fds \ {fd} : file'[d] = file[d] /\ nonblock'[d] = nonblock[d]
        /\ nonblock'[fd] => fd \in own'
        /\ \A d \in Fds \ {fd} : d \in own' <=> d \in own
        /\ \A g \in Fibers \ {f} : pc'[g] = pc[g] /\ op'[g] = op[g]
    BY <1>2, OpensStep
  <2>3. Opener(f, fd)' /\ \A g \in Fibers, d \in Fds : d # fd => (Opener(g, d)' <=> Opener(g, d))
    BY <2>1, <2>2 DEF Opener, Ends
  <2>4. F1'
    BY <1>0, <1>2, <1>s, <2>2, OpensAlone
  <2>5. F2'
    BY <1>0, <2>2, <2>3
  <2>6. F3'
    BY <1>0, <2>1, <2>2 DEF Descriptors
  <2>7. QED
    BY <1>q, <2>4, <2>5, <2>6
<1>3. ASSUME NEW f \in Fibers,
             \A g \in Fibers, d \in Fds : Opener(g, d)' <=> Opener(g, d),
             pc'[f] # "stuck", \A g \in Fibers \ {f} : pc'[g] = pc[g] /\ op'[g] = op[g],
             UNCHANGED <<nonblock, own>>,
             \A d \in Fds : file'[d] = file[d] \/ file'[d] = "free",
             \A d \in Fds : m_datas'[d] = m_datas[d] \/ m_datas'[d] = None
      PROVE  Flags'
  <2>1. F1' /\ F2' /\ F3'
    BY <1>0, <1>3
  <2>2. QED
    BY <1>q, <2>1
<1>4. ASSUME NEW f \in Fibers, NEW fd \in Fds, Close(f, fd) PROVE Flags'
  <2>1. /\ pc[f] = "user" /\ pc'[f] = "closeDel" /\ UNCHANGED <<file, nonblock, own, m_datas>>
        /\ \A g \in Fibers \ {f} : pc'[g] = pc[g] /\ op'[g] = op[g]
    BY <1>4, EndSteps
  <2>2. \A g \in Fibers, d \in Fds : Opener(g, d)' <=> Opener(g, d)
    BY <2>1 DEF Opener
  <2>3. QED
    BY <1>3, <2>1, <2>2
<1>5. ASSUME NEW f \in Fibers, Get(f) PROVE Flags'
  <2>1. /\ op[f].fd \in Fds /\ \A g \in Fibers \ {f} : pc'[g] = pc[g] /\ op'[g] = op[g]
        /\ pc[f] = "get" /\ UNCHANGED <<file, nonblock, own, m_datas>>
        /\ \/ pc'[f] = "user" /\ m_datas[op[f].fd] # None
           \/ pc'[f] = "create" /\ op'[f] = op[f]
    BY <1>5, EndSteps
  <2>2. pc'[f] = "create" /\ op'[f] = op[f]
    BY <2>1 DEF Opener, Descriptors
  <2>3. \A g \in Fibers, d \in Fds : Opener(g, d)' <=> Opener(g, d)
    BY <2>1, <2>2 DEF Opener
  <2>4. QED
    BY <1>3, <2>1, <2>2, <2>3
<1>6. ASSUME NEW f \in Fibers, CloseDel(f) PROVE Flags'
  <2>1. /\ pc[f] = "closeDel" /\ pc'[f] = "closeFd"
        /\ \A g \in Fibers \ {f} : pc'[g] = pc[g] /\ op'[g] = op[g]
        /\ UNCHANGED <<file, nonblock, own>> /\ Del(op[f].fd)
    BY <1>6, EndSteps
  <2>2. \A g \in Fibers, d \in Fds : Opener(g, d)' <=> Opener(g, d)
    BY <2>1 DEF Opener
  <2>3. \A d \in Fds : m_datas'[d] = m_datas[d] \/ m_datas'[d] = None
    BY <2>1 DEF Del, TypeOK
  <2>4. QED
    BY <1>3, <2>1, <2>2, <2>3
<1>7. ASSUME NEW f \in Fibers, CloseFd(f) PROVE Flags'
  <2>1. /\ pc[f] = "closeFd" /\ pc'[f] = "user"
        /\ \A g \in Fibers \ {f} : pc'[g] = pc[g] /\ op'[g] = op[g]
        /\ UNCHANGED <<nonblock, own, m_datas>> /\ file' = [file EXCEPT ![op[f].fd] = "free"]
    BY <1>7, EndSteps
  <2>2. \A g \in Fibers, d \in Fds : Opener(g, d)' <=> Opener(g, d)
    BY <2>1 DEF Opener
  <2>3. \A d \in Fds : file'[d] = file[d] \/ file'[d] = "free"
    BY <2>1 DEF TypeOK
  <2>4. QED
    BY <1>3, <2>1, <2>2, <2>3
<1>8. ASSUME NEW f \in Fibers, Create(f) PROVE Flags'
  <2>0. PICK fd : fd = op[f].fd
    OBVIOUS
  <2>1. /\ fd \in Fds /\ \A g \in Fibers \ {f} : pc'[g] = pc[g] /\ op'[g] = op[g]
        /\ pc[f] = "create" /\ pc'[f] = "user" /\ UNCHANGED <<file, own>> /\ FdCtxInit(fd)
    BY <1>8, <2>0, EndSteps
  <2>2. Opener(f, fd) /\ file[fd] # "free" /\ (fd \notin own => ~ nonblock[fd])
    BY <1>0, <2>0, <2>1 DEF Opener, Descriptors
  <2>3. \A g \in Fibers : g # f => ~ Opener(g, fd)
    BY <2>1, <2>2 DEF Descriptors, Opener
  <2>4. \A g \in Fibers, d \in Fds : /\ d # fd => (Opener(g, d)' <=> Opener(g, d))
                                     /\ ~ Opener(g, fd)'
    BY <2>0, <2>1, <2>3 DEF Opener
  <2>5. nonblock'[fd] /\ \A d \in Fds \ {fd} : nonblock'[d] = nonblock[d]
    BY <2>1 DEF FdCtxInit, TypeOK
  <2>6. /\ fd \notin own => m_datas'[fd].sys
        /\ \A d \in Fds \ {fd} : m_datas'[d] = m_datas[d]
    <3>1. m_datas' = [m_datas EXCEPT ![fd] =
                         [sys |-> ~ nonblock[fd], user |-> FALSE, to |-> {}]]
      BY <2>1 DEF FdCtxInit
    <3>2. m_datas'[fd] = [sys |-> ~ nonblock[fd], user |-> FALSE, to |-> {}]
      BY <2>1, <3>1 DEF TypeOK
    <3>3. m_datas'[fd].sys = ~ nonblock[fd]
      BY <3>2
    <3>4. \A d \in Fds \ {fd} : m_datas'[d] = m_datas[d]
      BY <3>1 DEF TypeOK
    <3>5. QED
      BY <2>2, <3>3, <3>4
  <2>7. F1'
    BY <1>0, <2>1
  <2>8. F2'
    BY <1>0, <2>1, <2>4, <2>5
  <2>9. F3'
    BY <1>0, <2>1, <2>6
  <2>10. QED
    BY <1>q, <2>7, <2>8, <2>9
<1>9. QED
  BY <1>1, <1>2, <1>4, <1>5, <1>6, <1>7, <1>8, StepKinds

\* Unless a number is given out while a call on it is going on, a call stops its
\* thread only on a descriptor whose O_NONBLOCK the user has set with SOCK_NONBLOCK
\* or FIONBIO, whatever fcntl was told and in whatever order sockets are opened,
\* used and closed.
THEOREM ThreadsNeverBlock ==
    ASSUME ~ MayReuse
    PROVE  Spec => []BlocksOnlyOwn
<1>1. Init => Flags
  <2> SUFFICES ASSUME Init PROVE Flags
    OBVIOUS
  <2>1. \A fd \in Fds : /\ file[fd] # "free" => nonblock[fd]
                        /\ m_datas[fd] # None => (fd \notin own => m_datas[fd].sys)
    BY DEF Init
  <2>2. \A f \in Fibers : pc[f] = "user"
    BY DEF Init
  <2>3. QED
    BY <2>1, <2>2 DEF Flags, Opener
<1>2. Flags => BlocksOnlyOwn
  BY DEF Flags, BlocksOnlyOwn
<1>3. QED
  BY <1>1, <1>2, ClosersInvariant, DescriptorsInit, DescriptorsStep, FlagsStep, PTL DEF Spec

-----------------------------------------------------------------------------
(* Who is left behind on a descriptor that is closed *)

\* Whoever is registered on a descriptor that is being closed or is closed has
\* registered while it was being closed.
Late ==
    \A f \in Fibers, fd \in Fds, e \in Event :
       context[fd][e] = f /\ (file[fd] = "free" \/ \E g \in Fibers : Closer(g, fd))
          => "close" \in missed[f]

\* Only addEvent registers, and notes it if a close is under way; close leaves
\* nobody registered.
LEMMA ContextSteps ==
    ASSUME TypeOK, [Next]_vars, NEW fd \in Fds, NEW e \in Event, NEW f \in Fibers,
           context'[fd][e] = f
    PROVE  /\ \/ context[fd][e] = f
              \/ /\ op[f].fd = fd /\ file[fd] # "free"
                 /\ Closing(fd) => "close" \in missed'[f]
           /\ \A g \in Fibers : ~ Close(g, fd)
<1>1. ASSUME NEW d, NEW evs, Wake(d, evs)
      PROVE  context[fd][e] = f /\ (d = fd => e \notin evs)
  BY <1>1, HookNone DEF Wake, TypeOK
<1>2. ASSUME NEW g \in Fibers, AddEvent(g), context[fd][e] # f
      PROVE  /\ op[f].fd = fd /\ file[fd] # "free"
             /\ Closing(fd) => "close" \in missed'[f]
  <2>1. g = f /\ op[f].fd = fd
    BY <1>2 DEF AddEvent, TypeOK
  <2>2. QED
    BY <1>2, <2>1 DEF AddEvent, TypeOK
<1>3. \/ UNCHANGED context
      \/ \E d, evs : Wake(d, evs)
      \/ \E g \in Fibers : AddEvent(g)
  <2>1. ASSUME Environment \/ Triggers \/ UNCHANGED vars
        PROVE  UNCHANGED context \/ \E d, evs : Wake(d, evs)
    BY <2>1 DEF Environment, Triggers, Resolve, Arrive, Steal, Listen, Trigger, vars, wakeVars
  <2>2. ASSUME NEW g \in Fibers, Timers(g)
        PROVE  UNCHANGED context \/ \E d, evs : Wake(d, evs)
    BY <2>2 DEF Timers, TimerStep, Expire, RunSleep, RunTimeout, SetCancelled, CancelEvent
  <2>3. ASSUME NEW g \in Fibers, Calls(g)
        PROVE  UNCHANGED context \/ \E d, evs : Wake(d, evs)
    BY <2>3 DEF Calls, Sleep, Socket, Io, Accept, Connect, Close, CancelAll, Option, wakeVars
  <2>4. ASSUME NEW g \in Fibers, Inside(g) PROVE UNCHANGED context \/ AddEvent(g)
    BY <2>4 DEF Inside, FunIo, FunAccept, FunConnect, Unblock, SockOpt, AddEventFails,
       Resume, Get, Create, CloseDel, CloseFd, wakeVars
  <2>5. QED
    BY <2>1, <2>2, <2>3, <2>4 DEF Next
<1>4. \A g \in Fibers : ~ Close(g, fd)
  BY <1>1 DEF Close, CancelAll
<1>5. QED
  BY <1>1, <1>2, <1>3, <1>4

\* What a call has missed is forgotten only when it returns.
LEMMA MissedStays ==
    ASSUME TypeOK, [Next]_vars, NEW f \in Fibers, "close" \in missed[f]
    PROVE  "close" \in missed'[f] \/ pc'[f] = "user"
<1>1. ASSUME NEW g \in Fibers, NEW r, Return(g, r)
      PROVE  "close" \in missed'[f] \/ pc'[f] = "user"
  BY <1>1 DEF Return, Goto, TypeOK
<1>2. ASSUME NEW g \in Fibers, NEW label, Continue(g, label) PROVE "close" \in missed'[f]
  BY <1>2 DEF Continue
<1>3. ASSUME NEW g \in Fibers, Blocks(g) \/ \E fd : Fails(g, fd)
      PROVE  "close" \in missed'[f] \/ pc'[f] = "user"
  BY <1>1, <1>2, <1>3 DEF Blocks, Fails
<1>4. ASSUME Environment \/ Triggers \/ UNCHANGED vars PROVE UNCHANGED missed
  BY <1>4 DEF Environment, Triggers, Resolve, Arrive, Steal, Listen, Trigger, vars, callVars
<1>5. ASSUME NEW g \in Fibers, Timers(g) PROVE "close" \in missed'[f]
  <2>1. PICK t \in timers : TimerStep(t)
    BY <1>5 DEF Timers
  <2>2. CASE CancelEvent(t)
    BY <2>2 DEF CancelEvent, TypeOK
  <2>3. CASE UNCHANGED missed
    BY <2>3
  <2>4. QED
    BY <2>1, <2>2, <2>3 DEF TimerStep, Expire, RunSleep, RunTimeout, SetCancelled, callVars
<1>6. ASSUME NEW g \in Fibers, Calls(g) PROVE UNCHANGED missed
  BY <1>6 DEF Calls, Sleep, Socket, Io, Accept, Connect, Close, Option, Begin
<1>7. ASSUME NEW g \in Fibers, Inside(g) PROVE "close" \in missed'[f] \/ pc'[f] = "user"
  <2>1. CASE AddEvent(g)
    BY <2>1 DEF AddEvent, TypeOK
  <2>2. CASE FunIo(g) \/ FunConnect(g) \/ SockOpt(g)
    BY <1>1, <1>3, <2>2 DEF FunIo, FunConnect, SockOpt
  <2>3. CASE FunAccept(g)
    BY <1>3, <2>3 DEF FunAccept
  <2>4. CASE Unblock(g) \/ AddEventFails(g) \/ Resume(g)
    BY <1>1, <1>2, <2>4 DEF Unblock, AddEventFails, Resume
  <2>5. CASE Get(g) \/ Create(g) \/ CloseDel(g) \/ CloseFd(g)
    BY <1>1, <1>2, <2>5 DEF Get, Create, CloseDel, CloseFd
  <2>6. QED
    BY <1>7, <2>1, <2>2, <2>3, <2>4, <2>5 DEF Inside
<1>8. QED
  BY <1>4, <1>5, <1>6, <1>7 DEF Next

LEMMA LateStep ==
    ASSUME TypeOK, Control, Closers, Late, WakeInv', [Next]_vars
    PROVE  Late'
<1> SUFFICES ASSUME NEW f \in Fibers, NEW fd \in Fds, NEW e \in Event, context'[fd][e] = f,
                    file'[fd] = "free" \/ \E g \in Fibers : Closer(g, fd)'
             PROVE  "close" \in missed'[f]
  BY Zenon DEF Late
<1>1. pc'[f] # "user"
  BY DEF WakeInv, Wakeups
<1>2. file[fd] = "free" \/ \E g \in Fibers : Closer(g, fd)
  <2>1. CASE Quiet
    <3>1. \A g \in Fibers : Closer(g, fd)' => Closer(g, fd)
      BY <2>1 DEF Quiet, Keeps, Ends, Closer
    <3>2. QED
      BY <2>1, <3>1 DEF Quiet
  <2>2. ASSUME NEW g \in Fibers, NEW d \in Fds, Opens(g, d)
        PROVE  file[fd] = "free" \/ \E h \in Fibers : Closer(h, fd)
    <3>1. \A h \in Fibers : Closer(h, fd)' => Closer(h, fd)
      BY <2>2, OpensStep DEF Closer
    <3>2. file'[fd] = "free" => file[fd] = "free"
      BY <2>2, OpensStep
    <3>3. QED
      BY <3>1, <3>2
  <2>3. ASSUME NEW g \in Fibers, NEW d \in Fds, Close(g, d)
        PROVE  file[fd] = "free" \/ \E h \in Fibers : Closer(h, fd)
    <3>1. d # fd
      BY <2>3, ContextSteps
    <3>2. UNCHANGED file /\ \A h \in Fibers : Closer(h, fd)' => Closer(h, fd)
      BY <2>3, <3>1, EndSteps DEF Closer
    <3>3. QED
      BY <3>2
  <2>4. ASSUME NEW g \in Fibers, Get(g) \/ Create(g) \/ CloseDel(g)
        PROVE  file[fd] = "free" \/ \E h \in Fibers : Closer(h, fd)
    <3>1. UNCHANGED file /\ \A h \in Fibers : Closer(h, fd)' => Closer(h, fd)
      BY <2>4, EndSteps DEF Closer
    <3>2. QED
      BY <3>1
  <2>5. ASSUME NEW g \in Fibers, CloseFd(g)
        PROVE  file[fd] = "free" \/ \E h \in Fibers : Closer(h, fd)
    <3>1. \A h \in Fibers : Closer(h, fd)' => Closer(h, fd)
      BY <2>5, EndSteps DEF Closer
    <3>2. Closer(g, op[g].fd) /\ (fd # op[g].fd => file'[fd] = file[fd])
      BY <2>5, EndSteps DEF Closer, TypeOK
    <3>3. QED
      BY <3>1, <3>2
  <2>6. QED
    BY <2>1, <2>2, <2>3, <2>4, <2>5, StepKinds
<1>3. CASE context[fd][e] = f
  BY <1>1, <1>2, <1>3, MissedStays DEF Late
<1>4. CASE file[fd] # "free" /\ (Closing(fd) => "close" \in missed'[f])
  BY <1>2, <1>4, OpenersClosers
<1>5. QED
  BY <1>3, <1>4, ContextSteps

\* A fiber is left waiting for a descriptor that was closed under it only if it
\* registered between cancelAll and close_f, for any number of fibers and
\* descriptors, and although the number may have been given out again and closed
\* once more since.
THEOREM ClosedAreWoken == Spec => []LeftOnlyIfLate
<1>1. Init => Late
  BY HookNone DEF Init, Late
<1>2. TypeOK /\ Control /\ WakeInv /\ Late => LeftOnlyIfLate
  <2> SUFFICES ASSUME TypeOK, Control, WakeInv, Late, NEW f \in Fibers,
                      pc[f] = "parked", op[f].fd # None, file[op[f].fd] = "free",
                      queued[f] = 0
               PROVE  "close" \in missed[f]
    BY DEF LeftOnlyIfLate
  <2>1. op[f].fd \in Fds /\ op[f].ev \in Event /\ op[f].kind # "sleep"
    BY DEF Control, CallShape, ShapeOf, Waiting, TypeOK, Op
  <2>2. \A t \in timers : ~ (t.sleep /\ t.f = f)
    BY <2>1 DEF WakeInv, Wakeups
  <2>3. context[op[f].fd][op[f].ev] = f
    BY <2>2 DEF WakeInv, Wakeups
  <2>4. QED
    BY <2>1, <2>3 DEF Late
<1>3. QED
  BY <1>1, <1>2, WakeInvariant, ClosersInvariant, LateStep, PTL DEF Spec
================================================================================
