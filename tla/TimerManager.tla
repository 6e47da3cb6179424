----------------------------- MODULE TimerManager -----------------------------
(***************************************************************************)
(* sylar::Timer and sylar::TimerManager (timer.h, timer.cc), with the part *)
(* of IOManager that depends on them: idle() sleeps in epoll_wait until    *)
(* the first timer is due (iomanager.cc 297-352) and is woken by a byte in *)
(* the tickle pipe when an earlier timer is inserted (288-295, 413-416).   *)
(*                                                                         *)
(* Every section under m_mutex is one step.  The clock is read outside the *)
(* lock in the Timer constructor and in listExpiredCb, so what they read   *)
(* may be old when it is used.  Clients are the threads that create,       *)
(* cancel and change timers; Idlers are the threads that run idle().       *)
(***************************************************************************)
EXTENDS Integers, FiniteSets, FiniteSetsExt

CONSTANTS
    Timers,       \* timer objects, each created at most once
    Clients,      \* threads that call addTimer, reset
    Idlers,       \* threads that run IOManager::idle
    Periods,      \* values of ms
    Recurring,    \* subset of Timers created with recurring = true
    Base,         \* the clock at construction of the manager
    MaxTime,      \* bound: the clock stops there
    Hour,         \* 60*60*1000 in units of the model
    MaxBack,      \* bound: how far the wall clock may be set back, once
    MAX_TIMEOUT,  \* the longest sleep in epoll_wait
    IntBits       \* width of the int that epoll_wait takes

ASSUME ClockAssumption ==
    /\ Base \in Nat /\ MaxTime \in Nat /\ Hour \in Nat /\ MaxBack \in Nat
    /\ Base <= MaxTime
    /\ Hour + MaxBack < Base     \* a wall clock is far from 0
ASSUME SleepAssumption ==
    /\ Periods \subseteq Nat
    /\ MAX_TIMEOUT \in Nat
    /\ IntBits \in Nat \ {0}
    /\ MAX_TIMEOUT < 2^(IntBits - 1)
ASSUME RecurringAssumption == Recurring \subseteq Timers

VARIABLES
    now,             \* GetCurrentMS()
    setBack,         \* by how much the clock has been set back, once
    status,          \* "none", "built" (constructed, not inserted), "shared"
    m_cb,            \* the timer still has its callback
    m_ms,
    m_next,
    m_timers,        \* the ordered set, ordered by m_next
    m_tickled,
    m_previouseTime,
    builder,         \* client -> the timer it is creating, or None
    tickling,        \* clients about to call onTimerInsertedAtfront
    pipe,            \* the tickle pipe holds a byte
    ipc,             \* where each idler is: "away", "idle", "asleep", "listing"
    until,           \* until when an idler sleeps
    nowMs,           \* listExpiredCb's now_ms
    fired,           \* how often a timer's callback was collected
    cancelled,       \* timers whose cancel() returned true
    crashed          \* *begin() of an empty set was dereferenced

clockVars  == <<now, setBack>>
timerVars  == <<status, m_cb, m_ms, m_next, m_timers, m_tickled>>
clientVars == <<builder, tickling>>
idleVars   == <<ipc, until, nowMs>>
histVars   == <<fired, cancelled>>
vars == <<clockVars, timerVars, clientVars, idleVars, histVars, m_previouseTime,
          pipe, crashed>>

NoTimer == "no timer"
Forever == -1   \* epoll_wait with a negative timeout

Init ==
    /\ now = Base
    /\ setBack = 0
    /\ status = [k \in Timers |-> "none"]
    /\ m_cb = [k \in Timers |-> FALSE]
    /\ m_ms = [k \in Timers |-> 0]
    /\ m_next = [k \in Timers |-> 0]
    /\ m_timers = {}
    /\ m_tickled = FALSE
    /\ m_previouseTime = Base
    /\ builder = [c \in Clients |-> NoTimer]
    /\ tickling = {}
    /\ pipe = FALSE
    /\ ipc = [t \in Idlers |-> "away"]
    /\ until = [t \in Idlers |-> 0]
    /\ nowMs = [t \in Idlers |-> 0]
    /\ fired = [k \in Timers |-> 0]
    /\ cancelled = {}
    /\ crashed = FALSE

-----------------------------------------------------------------------------
(* The clock *)

\* Assumption: a thread is never stopped for an hour between reading the clock
\* and taking the lock in listExpiredCb.
Prompt(time) == \A t \in Idlers : ipc[t] = "listing" => time - nowMs[t] < Hour

Tick ==
    /\ now < MaxTime
    /\ Prompt(now + 1)
    /\ now' = now + 1
    /\ UNCHANGED <<setBack, timerVars, clientVars, idleVars, histVars,
                   m_previouseTime, pipe, crashed>>

\* Somebody sets the wall clock back, while nobody is in listExpiredCb.
SetBack(d) ==
    /\ setBack = 0
    /\ \A t \in Idlers : ipc[t] # "listing"
    /\ setBack' = d
    /\ now' = now - d
    /\ UNCHANGED <<timerVars, clientVars, idleVars, histVars, m_previouseTime,
                   pipe, crashed>>

-----------------------------------------------------------------------------
(* Creating and changing timers *)

\* The set is ordered by m_next; timers with equal m_next by address, which
\* no property depends on.
Front(timers) == Min({m_next[k] : k \in timers})
IsFront(k, next, timers) == \A j \in timers \ {k} : next <= m_next[j]

\* The Timer constructor reads the clock before the lock is taken.
Construct(c, k, ms) ==
    /\ builder[c] = NoTimer /\ c \notin tickling
    /\ status[k] = "none"
    /\ status' = [status EXCEPT ![k] = "built"]
    /\ m_cb' = [m_cb EXCEPT ![k] = TRUE]
    /\ m_ms' = [m_ms EXCEPT ![k] = ms]
    /\ m_next' = [m_next EXCEPT ![k] = now + ms]
    /\ builder' = [builder EXCEPT ![c] = k]
    /\ UNCHANGED <<clockVars, m_timers, m_tickled, tickling, idleVars, histVars,
                   m_previouseTime, pipe, crashed>>

\* (mutant) the client never tickles.
InsertQuietly(c, k, next) ==
    /\ m_timers' = m_timers \union {k}
    /\ m_tickled' = m_tickled
    /\ tickling' = tickling

\* addTimer(val, lock): insert; whoever inserts at the front tickles, once.
\* With equal m_next the address decides whether the timer is in front.
Insert(c, k, next) ==
    /\ m_timers' = m_timers \union {k}
    /\ \E first \in BOOLEAN :
          /\ first => IsFront(k, next, m_timers)
          /\ (\A j \in m_timers \ {k} : next < m_next[j]) => first
          /\ m_tickled' = (m_tickled \/ first)
          /\ tickling' = IF first /\ ~ m_tickled THEN tickling \union {c}
                                                 ELSE tickling

\* TimerManager::addTimer, after the constructor.
AddTimer(c) ==
    LET k == builder[c] IN
    /\ k # NoTimer
    /\ Insert(c, k, m_next[k])
    /\ status' = [status EXCEPT ![k] = "shared"]
    /\ builder' = [builder EXCEPT ![c] = NoTimer]
    /\ UNCHANGED <<clockVars, m_cb, m_ms, m_next, idleVars, histVars,
                   m_previouseTime, pipe, crashed>>

\* onTimerInsertedAtfront, IOManager::tickle: a byte, if some thread is idle.
Tickle(c) ==
    /\ c \in tickling
    /\ tickling' = tickling \ {c}
    /\ pipe' = (pipe \/ \E t \in Idlers : ipc[t] # "away")
    /\ UNCHANGED <<clockVars, timerVars, builder, idleVars, histVars,
                   m_previouseTime, crashed>>

\* Timer::cancel
Cancel(k) ==
    /\ status[k] = "shared"
    /\ m_cb[k]
    /\ m_cb' = [m_cb EXCEPT ![k] = FALSE]
    /\ m_timers' = m_timers \ {k}
    /\ cancelled' = cancelled \union {k}
    /\ UNCHANGED <<clockVars, status, m_ms, m_next, m_tickled, clientVars,
                   idleVars, fired, m_previouseTime, pipe, crashed>>

\* Timer::reset, past its first test.  The start of the period is either the
\* clock, or where it was.
Reset(c, k, ms, from_now) ==
    LET start == IF from_now THEN now ELSE m_next[k] - m_ms[k] IN
    /\ builder[c] = NoTimer /\ c \notin tickling
    /\ status[k] = "shared"
    /\ ~ (ms = m_ms[k] /\ ~ from_now)
    /\ m_cb[k] /\ k \in m_timers
    /\ m_ms' = [m_ms EXCEPT ![k] = ms]
    /\ m_next' = [m_next EXCEPT ![k] = start + ms]
    /\ Insert(c, k, start + ms)
    /\ UNCHANGED <<clockVars, status, m_cb, builder, idleVars, histVars,
                   m_previouseTime, pipe, crashed>>

\* Timer::refresh gives up when it finds the timer in the set (54), and a
\* timer with a callback always is: it never changes anything.
Refresh(k) ==
    /\ status[k] = "shared"
    /\ ~ (m_cb[k] /\ k \notin m_timers)
    /\ UNCHANGED vars

-----------------------------------------------------------------------------
(* An idle thread *)

\* run() enters the idle fiber: ++m_idleThreadCount.
EnterIdle(t) ==
    /\ ipc[t] = "away"
    /\ ipc' = [ipc EXCEPT ![t] = "idle"]
    /\ UNCHANGED <<clockVars, timerVars, clientVars, until, nowMs,
                   histVars, m_previouseTime, pipe, crashed>>

\* getNextTimer's result: no timer, overdue, or the time left.
NextTimer == IF m_timers = {} THEN Forever
             ELSE IF now >= Front(m_timers) THEN 0 ELSE Front(m_timers) - now

\* A conversion to int keeps the low bits.
ToInt(x) ==
    LET half == 2^(IntBits - 1) IN ((x + half) % (2 * half)) - half

\* (mutant) the time left is not compared with MAX_TIMEOUT.
TimeoutUncapped(next) == IF next = Forever THEN MAX_TIMEOUT ELSE ToInt(next)

\* The timeout idle() passes to epoll_wait, as the int epoll_wait sees.
Timeout(next) ==
    IF next = Forever THEN MAX_TIMEOUT
    ELSE IF ToInt(next) > MAX_TIMEOUT THEN MAX_TIMEOUT ELSE ToInt(next)

\* stopping(next_timeout), with getNextTimer under the read lock, and the call
\* of epoll_wait.
Sleep(t) ==
    LET timeout == Timeout(NextTimer) IN
    /\ ipc[t] = "idle"
    /\ m_tickled' = FALSE
    /\ ipc' = [ipc EXCEPT ![t] = "asleep"]
    /\ until' = [until EXCEPT ![t] = IF timeout < 0 THEN Forever ELSE now + timeout]
    /\ UNCHANGED <<clockVars, status, m_cb, m_ms, m_next, m_timers, clientVars,
                   nowMs, histVars, m_previouseTime, pipe, crashed>>

\* epoll_wait returns, for the pipe (edge triggered: one thread gets it, and
\* drains it) or because its time is over; then listExpiredCb reads the clock
\* and looks whether there are timers.  Its sleep is not measured by the wall
\* clock, so it may also end early when the clock was set back.
Awake(t) ==
    /\ ipc[t] = "asleep"
    /\ \/ pipe /\ pipe' = FALSE
       \/ until[t] # Forever /\ (now >= until[t] \/ setBack > 0) /\ UNCHANGED pipe
    /\ until' = [until EXCEPT ![t] = 0]
    /\ \/ /\ m_timers = {}
          /\ ipc' = [ipc EXCEPT ![t] = "away"]
          /\ UNCHANGED nowMs
       \/ /\ m_timers # {}
          /\ ipc' = [ipc EXCEPT ![t] = "listing"]
          /\ nowMs' = [nowMs EXCEPT ![t] = now]
    /\ UNCHANGED <<clockVars, timerVars, clientVars, histVars, m_previouseTime,
                   crashed>>

\* (mutant) any step back counts.
RolloverAlways(now_ms) == now_ms < m_previouseTime

\* detectClockRollover
Rollover(now_ms) ==
    now_ms < m_previouseTime /\ now_ms < m_previouseTime - Hour

\* (mutant) a timer that is not recurring is left with its callback.
ExpireKeepsCb(t, expired) ==
    /\ m_timers' = (m_timers \ expired) \union (expired \intersect Recurring)
    /\ m_next' = [k \in Timers |-> IF k \in expired \intersect Recurring
                                   THEN nowMs[t] + m_ms[k] ELSE m_next[k]]
    /\ m_cb' = m_cb
    /\ fired' = [k \in Timers |-> IF k \in expired /\ fired[k] < 2
                                  THEN fired[k] + 1 ELSE fired[k]]

\* (mutant) recurring timers are not inserted again.
ExpireForgets(t, expired) ==
    /\ m_timers' = m_timers \ expired
    /\ m_next' = [k \in Timers |-> IF k \in expired \intersect Recurring
                                   THEN nowMs[t] + m_ms[k] ELSE m_next[k]]
    /\ m_cb' = [k \in Timers |-> m_cb[k] /\ ~ (k \in expired \ Recurring)]
    /\ fired' = [k \in Timers |-> IF k \in expired /\ fired[k] < 2
                                  THEN fired[k] + 1 ELSE fired[k]]

\* The expired timers leave the set and their callbacks are handed over;
\* recurring ones start a new period, the others are over.  (fired counts up
\* to 2.)
Expire(t, expired) ==
    /\ m_timers' = (m_timers \ expired) \union (expired \intersect Recurring)
    /\ m_next' = [k \in Timers |-> IF k \in expired \intersect Recurring
                                   THEN nowMs[t] + m_ms[k] ELSE m_next[k]]
    /\ m_cb' = [k \in Timers |-> m_cb[k] /\ ~ (k \in expired \ Recurring)]
    /\ fired' = [k \in Timers |-> IF k \in expired /\ fired[k] < 2
                                  THEN fired[k] + 1 ELSE fired[k]]

\* (mutant) only the timers that are due at this very moment.
DueExactly(now_ms) == {k \in m_timers : m_next[k] = now_ms}

\* What listExpiredCb takes: all of them after a rollover, none if the first is
\* due at this very moment (156), else those that are due.
Expired(now_ms) ==
    IF Rollover(now_ms) THEN m_timers
    ELSE IF m_timers # {} /\ Front(m_timers) = now_ms THEN {}
    ELSE {k \in m_timers : m_next[k] <= now_ms}

\* The part of listExpiredCb under the write lock.
ListExpired(t) ==
    /\ ipc[t] = "listing"
    /\ m_timers # {}
    /\ Expire(t, Expired(nowMs[t]))
    /\ m_previouseTime' = nowMs[t]
    /\ ipc' = [ipc EXCEPT ![t] = "away"]
    /\ nowMs' = [nowMs EXCEPT ![t] = 0]
    /\ UNCHANGED <<clockVars, status, m_ms, m_tickled, clientVars, until,
                   cancelled, pipe, crashed>>

\* The same when the set has become empty since: *m_timers.begin() is undefined.
\* Either nothing comes of it, or the process crashes.
ListEmpty(t) ==
    /\ ipc[t] = "listing"
    /\ m_timers = {}
    /\ m_previouseTime' = nowMs[t]
    /\ ipc' = [ipc EXCEPT ![t] = "away"]
    /\ nowMs' = [nowMs EXCEPT ![t] = 0]
    /\ crashed' \in (IF Rollover(nowMs[t]) THEN {FALSE} ELSE BOOLEAN)
    /\ UNCHANGED <<clockVars, timerVars, clientVars, until, histVars, pipe>>

-----------------------------------------------------------------------------
ClientStep(c) ==
    \/ \E k \in Timers, ms \in Periods : Construct(c, k, ms)
    \/ AddTimer(c)
    \/ Tickle(c)
    \/ \E k \in Timers, ms \in Periods, from_now \in BOOLEAN :
          Reset(c, k, ms, from_now)

IdlerStep(t) ==
    EnterIdle(t) \/ Sleep(t) \/ Awake(t) \/ ListExpired(t) \/ ListEmpty(t)

Step ==
    \/ Tick
    \/ \E d \in 1..MaxBack : SetBack(d)
    \/ \E c \in Clients : ClientStep(c)
    \/ \E k \in Timers : Cancel(k) \/ Refresh(k)
    \/ \E t \in Idlers : IdlerStep(t)

Next ==
    \/ ~ crashed /\ Step
    \/ crashed /\ UNCHANGED vars

Spec == Init /\ [][Next]_vars

-----------------------------------------------------------------------------
(* Properties *)

\* Types; the times of the code are unsigned, so none may fall below zero.
TypeOK ==
    /\ now \in Nat
    /\ setBack \in Nat
    /\ status \in [Timers -> {"none", "built", "shared"}]
    /\ m_cb \in [Timers -> BOOLEAN]
    /\ m_ms \in [Timers -> Nat]
    /\ m_next \in [Timers -> Nat]
    /\ m_timers \in SUBSET Timers
    /\ m_tickled \in BOOLEAN
    /\ m_previouseTime \in Nat
    /\ builder \in [Clients -> Timers \union {NoTimer}]
    /\ tickling \in SUBSET Clients
    /\ pipe \in BOOLEAN
    /\ ipc \in [Idlers -> {"away", "idle", "asleep", "listing"}]
    /\ until \in [Idlers -> Nat \union {Forever}]
    /\ nowMs \in [Idlers -> Nat]
    /\ fired \in [Timers -> 0..2]
    /\ cancelled \in SUBSET Timers
    /\ crashed \in BOOLEAN

\* cancel(), refresh() and reset() decide by m_cb whether the timer is in the
\* set, and cancel() erases what find() returns without looking: a timer that
\* others can see has its callback exactly as long as it is in the set.
CbIffInSet ==
    \A k \in Timers : status[k] = "shared" => (m_cb[k] <=> k \in m_timers)

\* A timer that does not recur hands out its callback at most once, and never
\* if cancel() returned true.
FiresOnceOrCancelled ==
    \A k \in Timers \ Recurring :
        fired[k] <= 1 /\ (k \in cancelled => fired[k] = 0)

\* When every idle thread sleeps and there is a timer, somebody wakes up in
\* time for it: a sleeper whose timeout ends by then (or has ended), or a byte
\* in the pipe, or a client that is about to write one.  It says nothing while
\* a thread is on its way: one that took the byte and runs a task leaves
\* m_tickled set, and a client's tickle for the threads that sleep is not sent.
NoOversleep ==
    /\ m_timers # {}
    /\ Idlers # {} /\ \A t \in Idlers : ipc[t] = "asleep"
    /\ setBack = 0
    => \/ pipe
       \/ tickling # {}
       \/ \E t \in Idlers : /\ until[t] # Forever
                            /\ until[t] <= Front(m_timers) \/ until[t] <= now

\* "This constant is used as the timeout of epoll_wait" (iomanager.cc:328): no
\* thread sleeps longer than MAX_TIMEOUT, however far the first timer is.  It
\* holds for periods an int can hold; a longer one is converted to a negative
\* timeout, which is less than MAX_TIMEOUT and for epoll_wait has no end.
BoundedSleep ==
    \A t \in Idlers :
        ipc[t] = "asleep" /\ setBack = 0 =>
            until[t] # Forever /\ until[t] <= now + MAX_TIMEOUT

\* No callback is handed out before its timer is due, unless the clock was set
\* back by more than an hour; also when another thread's older reading of the
\* clock comes last.
NeverEarly ==
    [][\A k \in Timers :
          fired'[k] # fired[k] /\ setBack <= Hour => m_next[k] <= now]_vars

\* Thread t goes through the locked part of listExpiredCb.
Lists(t) == ipc[t] = "listing" /\ ipc'[t] = "away" /\ m_timers # {}

\* listExpiredCb leaves no timer behind that was due before its now_ms.
NothingOverdueLeft ==
    [][\A t \in Idlers :
          Lists(t) => \A k \in m_timers' : m_next'[k] >= nowMs[t]]_vars
=============================================================================
