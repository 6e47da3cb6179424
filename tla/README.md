# Verification of sylar

sylar is a C++ server framework built on user-level threads (fibers): a scheduler runs
fibers on a pool of threads, an I/O manager wakes fibers when descriptors become ready or
timers expire, and hooks turn blocking system calls into waits of the calling fiber. Around
it are configuration variables, loggers and network addresses. This directory holds TLA+
models of these parts, the TLC configurations that check them and TLAPS proofs about them.
The source is `src/sylar/`; line numbers below refer to it.

## 1. Inventory

| Component | State | Operations | Talks to | What is hard | What makes it correct |
|---|---|---|---|---|---|
| `Scheduler` | `m_fibers` (list of tasks), `m_activeThreadCount`, `m_idleThreadCount`, `m_stopping`, `m_autoStop`, per thread the locals of `run()` | `schedule`, `run`, `idle`, `start`, `stop`, `stopping` | owns the threads, enters fibers, asks the IOManager's `stopping()`/`tickle()` | threads share the list under a mutex but fiber states without one; termination is decided from counters | a fiber has one owner; the counters are exact; every task runs once; `stop()` returns with nothing left |
| `Fiber` | `m_state`, saved context, callback | `reset`, `swapIn`, `swapOut`, `call`, `back`, `YieldToHold`, `YieldToReady`, `MainFunc` | entered by the scheduler, scheduled by whoever it waits for | the new state is visible before the context is saved | never entered while executing; assertions on states |
| `TimerManager` | ordered set of timers, `m_tickled`, `m_previouseTime`; per timer `m_next`, `m_ms`, `m_cb` | `addTimer`, `cancel`, `reset`, `refresh`, `getNextTimer`, `listExpiredCb` | `idle()` sleeps until the first timer and collects the expired ones; an insertion in front tickles it | clock read outside the lock, a flag that suppresses wake-ups, clock set back | each timer fires once or is cancelled, not early, and nobody sleeps past it |
| `IOManager` events | per descriptor `events`, contexts of the waiters; `m_pendingEventCount`; the kernel's epoll set | `addEvent`, `delEvent`, `cancelEvent`, `cancelAll`, the event loop of `idle` | waiters are scheduled on the Scheduler | reports are old when handled; edge triggering; several idle threads; `epoll_ctl` may fail | no waiter lost or woken twice; the count is exact; no edge is lost |
| `IOManager` wake-ups | tickle pipe, timeout of `epoll_wait`, table `m_FdContexts` | `tickle`, `idle`, `stopping`, `contextResize` | Scheduler, TimerManager | a byte per tickle, skipped when nobody seems idle; the byte may go to the wrong thread | every task is run, every thread notices `stop()` |
| Hook | `timer_info` of each call, `t_hook_enable`, the FdCtx flags | `do_io` (read, write, recv, send...), `accept`, `connect_with_timeout`, `sleep`..., `socket`, `close`, `fcntl`, `ioctl`, `setsockopt` | adds a timer and an event for the calling fiber | event, timer and close race for one waiter; the timer is added before the event | one wake-up per wait; a timeout is a timeout of that call; no call blocks the thread |
| `FdManager` | `m_datas`: one `FdCtx` per descriptor | `get`, `del`, `FdCtx::init` | the hook | check under the read lock, create under the write lock; numbers are reused | one FdCtx per open socket, none that outlives it |
| Config | `ConfigVar::m_val`, `m_cbs`; the registry | `setValue`, `add/del/clearListener`, `Lookup`, `LoadFromYaml`, `Visit`, the `LexicalCast`s | log and hook listen | listeners run under the read lock before the value is stored; names in any case, nested members, values that do not convert | no deadlock; no unregistered listener is called; what is saved is restored |
| Log | loggers with level, formatter, appenders and a lock | `log`, `addAppender`, `delAppender`, `clearAppenders`, `setFormatter`, `LogFormatter::init`, the listener of "logs" | Config | reconfiguration while others log; two locks held at once | formatters are inherited; the configuration is what loggers do; log() returns |
| Address | sockaddr bytes | `Create`, `Lookup`, `GetInterfaceAddresses`, comparison, broadcast, printing | getaddrinfo, getifaddrs | shifts, byte order, comparison up to the shorter length, pointer arithmetic | a strict order; the right broadcast address; printed text is read back |
| Thread, locks | `m_id`, `m_thread`, semaphores | constructor handshake, `join` | the Scheduler | hand-over of the id | the id is set when the constructor returns |
| Socket, util | - | - | - | `socket.cc` is empty; util has no state | - |

The list of hazards, each at its line and with the properties that would catch it, is
`PROJECT.json` "hazards".

## 2. Modules

Every section under a mutex is one action. Outside, the code is cut wherever another thread
can see or change what it uses. Variables that are members have the members' names.

**`Scheduler.tla`** (scheduler.h, scheduler.cc, fiber.cc). The scheduler and the fibers
together, because the scheduler's correctness is about the states of fibers. `ft`, `cbFiber`,
`idleTerm` and `pc` are the locals and the position of each thread in `run()`, `running` is
the thread-local `t_fiber`, and `saved` says whether a fiber's context holds all it needs to
be resumed. One pass through `run()` is `Fetch`/`FetchNone` (157-185), one of
`DispatchFiber`, `DispatchCb`, `DispatchDropped`, `DispatchExit`, `DispatchIdle` (190-243),
the task's own steps (`Arm`, `YieldToHold`, `YieldToReady`, `Return`, `Throw`), `SwapOut`,
`Dec` (the `--m_activeThreadCount` at 193 or 214), `SettleOver`/`SettleWaiting` (the state is
read) and `Requeue` or `Hold` (it is acted on). `Arm` and `Wake` stand for whoever the fiber
waits for: an event or a timer of the IOManager. `IdlePending` and `IdleStopping` are the two
halves of IOManager::stopping(): an unlocked look at what is pending, then the locked test.
The owner calls `start()` once and `stop()` at most once. Switches choose how disciplined the
tasks are: `WakeParkedOnly` (a waiting fiber is woken only when its thread has let go of it),
`MayRepeat` (a fiber may be scheduled once more by somebody with a pointer to it), `MayHold`,
`MayReady`, and `TasksPin` (tasks pin what they schedule).

**`WakeUps.tla`** and **`TaskPool.tla`** (scheduler.h, scheduler.cc, iomanager.cc). How
threads fall asleep and are woken. A task is one step here; the scan, `++m_idleThreadCount`,
the test of `tickle()`, the write to the pipe, the test of `stopping()`, epoll_wait, the
draining of the pipe and `--m_idleThreadCount` are steps of their own, and callers outside
the pool call `schedule()` and `stop()` in between. The pipe is edge-triggered: one report
goes to one thread. `TaskPool` is the abstract specification: tasks that are waiting, running
on a thread they may run on, or finished, and a pool that is over only when nothing is left.
`WakeUps` implements it with `waiting <- m_fibers`, `runner <-` the inverse of `ft`,
`finished <- done`, `over <-` all threads have left `run()`.

**`TimerManager.tla`** (timer.h, timer.cc, iomanager.cc 288-352, 413-416). The clock is a
variable that ticks and may be set back once. `Construct` (25-32) reads it before `AddTimer`
takes the lock; an idle thread goes through `EnterIdle`, `Sleep` (getNextTimer and
epoll_wait, with the conversion of the timeout to an int of `IntBits` bits), `Awake` (the
pipe or the timeout; then listExpiredCb reads the clock) and `ListExpired`, or `ListEmpty`
when the set has become empty between the two locks of listExpiredCb, which is undefined
behaviour: either nothing happens or the process ends.

**`FdEvents.tla`** (iomanager.cc 17-44, 127-282, 354-404). The FdContext of each descriptor,
the four operations on it, and `EpollWait`, `HandleNothing`, `Handle` of each idle thread.
The kernel's epoll set (`registered`, `mask`, `ready`, `edge`) is external and modelled by
how it is used: edge-triggered, a report goes to one thread, ADD and MOD look for a report at
once, closing a descriptor removes it. A failed assertion in `triggerEvent` sets `crashed`,
after which nothing happens.

**`Hook.tla`** (hook.h, hook.cc, fd_manager.h, fd_manager.cc). Fibers on hooked threads make
system calls on descriptors that come, are connected, listen, fail and are closed. A call is
`Io`, `Accept` or `Connect`, then `FunIo`/`FunAccept`/`FunConnect` (the original function),
and if that would block `NewTimer`, `AddEvent` or `AddEventFails`, and `Resume`. A timer's
callback is cut into `Expire`, `RunTimeout` (the weak pointer and the flag), `SetCancelled`
and `CancelEvent`, with anything in between. `Socket`, `Get`, `Create` and `FdCtxInit` are
FdManager::get with its two locks; `Close`, `CloseDel`, `CloseFd` the three steps of close.
What IOManager and TimerManager do appears as what `FdEvents` and `TimerManager` establish
about them: a registration schedules its fiber once, a timer fires at most once and not after
cancel(). Callbacks, closes and options come at any moment: a timer may fire before addEvent, a
woken fiber may retry while the close goes on, `ioctl(FIONBIO)` and SOCK_NONBLOCK are the user's
to choose, and a call that finds its descriptor blocking stops its thread (position `stuck`) until
the kernel lets it go on (`Unblock`). Two history variables say what happened on the way: `own`
holds the descriptors whose O_NONBLOCK the user has set (with SOCK_NONBLOCK, with FIONBIO, or,
`SetRaw`, while a close has forgotten the FdCtx), `missed` who wanted to wake a call that was not
registered (its timer, or a close). `MayReuse` allows the kernel to give out a number while a call
on it goes on.

**`Config.tla`** and **`Log.tla`** (config.h 297-340; log.h, log.cc 230-460, 760-860). `Config` is
one variable, its listeners and the two locks of setValue. `Log` extends it: the variable is
"logs", and its listener is the one of `LogIniter`, which changes loggers step by step while the
read lock is held, and itself logs to the root at level INFO. The root is a logger like the others
for the listener: it is created with level DEBUG and one appender, and may be defined by the
configuration, as bin/conf/log.yml does. clearListener takes no lock (config.h:330): it may come
in the middle of the loop over the listeners, and what the loop still calls is then any part of
what was left (`cut` holds the setters this happened to). Writers hold a logger's lock while they
write, and the root's too when the logger has no appenders. A formatter is its pattern; a pattern
is valid or not.

**`LogFormatter.tla`**, **`ConfigFile.tla`**, **`Address.tla`**: pure code as functions, each with
a reference definition. `LogFormatter` is the parser of patterns; `ConfigFile` the registry,
`LoadFromYaml` and the conversions of every type, on YAML nodes, with what yaml-cpp throws on
nodes of the wrong kind (`Throws`); `Address` the bytes of addresses (a byte is the set of its
bits), order, masks, interfaces, and the text of IPv6 addresses as printed and as `Lookup` takes
it apart. `broadcastAddress` is the set of its outcomes, an address and what is written behind it.
Loops are functions of the number of turns and not RECURSIVE operators: the outer loop of
`LogFormatter::init` (`CutStep`), the groups that `insert` prints (`InsertGroups`), the levels of
`ListAllMember` (`Levels`; a turn visits what the turn before has found, in place, so that the
members come out in the order of the code's recursion), the calls of `Lookup` (`Lookups`) and the
members that are loaded (`LoadMembers`). `Algorithms` makes each input a state, so that a run goes
through all of them.

The `*Proofs` modules extend the module they are about; `LogFormatterProofs` (the parser) and
`AlgorithmsProofs` (the rest) share the lemmas on loops.

The `MC*` modules give the instances and the symmetry of interchangeable values. Operators
marked *(mutant)* are plausible mistakes in the operator that follows them; each property is
known to fail when its mutant takes the operator's place.

## 3. Runs

| Run | Question | Instance | Result |
|---|---|---|---|
| `SchedulerPool` | does each fiber have one owner, are the counters exact, do the state assertions hold, does `stop()` return and what may it leave? | 1 worker and the caller, 2 callbacks pinned by the owner to either or to none, 2 fibers, 1 yield each | holds under fairness, if fibers are woken only when parked and are scheduled by one party at a time |
| `SchedulerSingle` | does every task run exactly once and does `stop()` return? | 1 worker, 2 tasks that wait, give way, are woken early and scheduled twice | holds under fairness |
| `SchedulerEarlyWake` | is a fetched fiber parked, without that discipline? | 2 workers, 1 fiber | **violated**: HOLD is published before the context is saved (fiber.cc:193) |
| `SchedulerStranded` | may every fiber be destroyed when `stop()` has returned? | 2 workers, 2 callbacks that wait | **violated** (scheduler.cc:236, fiber.cc:98) |
| `WakeUps` | do the threads implement `TaskPool`, is every task run, does every thread notice `stop()`? | 2 threads, 2 callers, 3 tasks, one of them pinned | holds under fairness |
| `TimerManager` | life of timers, wake-ups, length of sleeps, a clock that is read outside the lock and set back | 2 timers (one recurring), periods 0 and 2, `MAX_TIMEOUT` = 1, 1 client, 2 idle threads, clock 3..6, `Hour` = 2, set back by up to 3 | holds |
| `FdEvents` | are waiters kept and counted, with cancels, hang-ups and closes? | 2 descriptors, 3 waiters, 2 idle threads, room for 1 report | holds |
| `FdLive` | does the kernel watch what is waited for, is an edge lost? | 2 descriptors, 2 waiters, 2 idle threads, room for 1 report, no close | holds under fairness |
| `Hook` | one wake-up per wait, real timeouts, blocking, FdCtx, close; does a call with a timeout return? | 2 fibers, 3 descriptors (1 connected at first), 2 calls, 1 steal | holds under fairness, with the exceptions the properties name |
| `HookConnect` | does connect return 0 only when connected? | 1 fiber, 1 descriptor | **violated** (hook.cc:283) |
| `Log` | reconfiguration while logging; does every call return? | 1 setter, 2 writers, the root and one logger, both configured, 3 configurations, 2 listeners, 2 log calls, 1 change by hand | holds under fairness |
| `Algorithms` | parser, files, addresses against their references | all patterns of up to 5 characters; all files of up to 2 of 39 members, loaded into 2 registries; all triples of 12 addresses; 288 sets of interfaces, with the prefixes 0, 32 and 128 among them; 256 IPv6 addresses | holds |

**Bounds.** Two threads and two tasks are what the races need: one that acts and one that
interferes; the third waiter of `FdEvents` registers after both events of one descriptor were
taken. `MaxYields` lets a task go round the loop of `run()` at least twice, so that cb_fiber is
dropped, created again and reused. In `WakeUps` the third task is pinned, so that a thread can be
woken for a task that is not for it while the list is not empty (no second tickle). In
`TimerManager`, with `MAX_TIMEOUT` = 1 the period 2 is beyond the cap and within an int of
`IntBits` = 3 bits. `Hour` = 2 lets the clock go on while a thread has read it and not yet taken
the lock, so that the older of two readings may be used last; `MaxBack` = 3 gives steps back of
less than the hour, exactly the hour and more. For the number of states the clock starts at its
bound and goes on only after it was set back. `Room` = 1 with two descriptors makes the array of
epoll_wait overflow. In `Hook` two calls are a wait and what races it (a close, an option, the
next call of the same fiber, which an old callback may meet), and three descriptors are a
listening socket, what it accepts and another one; one steal makes a woken call block again and
add a second timer. In `Log` configurations with no, one and two appenders, a valid and an invalid
pattern, for the root and for another logger, give every kind of change, and the two log calls
meet in one logger or in a logger and the root. The patterns of five characters have an item with
a format next to another one or to a doubled percent sign; the prefixes are those at and next to
the edges of bytes and of the address; the groups of printed addresses are zero or have one zero
byte. `MaxDepth` = 2 is the depth of a saved registry (the document, its variables, the elements
of a map), and no file of the run is nested deeper.

**Fairness.** Each thread's step is weakly fair: the operating system runs every thread, and
no mutex is held across a wait. A waiting fiber's event is strongly fair in `Scheduler`:
somebody who waits is waiting for something that happens, and an idle thread that keeps looking
finds it although each look is short. Tasks are finite (`MaxYields`). The owner need not call
`stop()`, but goes on inside it. In `WakeUps` epoll_wait returns by its timeout of at most
`MAX_TIMEOUT` (iomanager.cc:324); who gets a report of the pipe is not fair. In `FdLive` an idle
thread goes on with its loop; arrivals are not fair. In `Hook` a fiber that can go on does, and
expired timers are collected and their callbacks run; nothing promises that data, a connection
or a close comes. In `Log` a thread inside a call goes on; the locks need no fairness of their
own because the calls are bounded (`MaxLogs`): with threads that log without end, a spin lock may
pass over one of them for ever.

**What limits the passing runs.** Each of these is behaviour of the code that the instance, a
constant or a precondition keeps out.

- Scheduler. With `TasksPin` = TRUE the instance of `SchedulerPool` violates `StopTerminates`:
  run() decrements `m_activeThreadCount` before it re-queues a task that gave way
  (scheduler.cc:193-196), a thread may leave in between, and what that task later pins to the
  thread is never run. `NoTaskStranded` holds for one thread; `SchedulerStranded` shows two
  workers whose tasks wait when `stop()` has returned, and `OnlyWaitersLeft` says that nothing
  else is left. `SchedulerPool` lets a fiber be woken only once it is parked (`WakeParkedOnly`),
  which nothing in iomanager.cc guarantees; `SchedulerEarlyWake` runs without it.
- Wake-ups. A task that is scheduled between a scan and `++m_idleThreadCount` (scheduler.cc:242)
  is not tickled for, and whoever drains the pipe need not be the thread a pinned task is for:
  both wait for the timeout, which is why the liveness properties rest on it. Tasks are handed
  in before `stop()`.
- Timers. The set may become empty between the locks of listExpiredCb and `begin()` of an empty
  set is dereferenced (timer.cc:152-156): the model may stop there. `NoOversleep` speaks of the
  moments when all idle threads sleep: if one of two has taken the byte of the pipe and is at a
  task, `m_tickled` is still set, and a tickle the other would need is suppressed until its own
  timeout of at most `MAX_TIMEOUT`. A timer due at the very millisecond listExpiredCb has read is
  left for the next round (timer.cc:156), which is why `NothingOverdueLeft` speaks of timers due
  before it. refresh() does nothing for a timer that is in the set (timer.cc:54). The periods of
  the run fit an int. A first timer further away than that (25 days) makes the timeout negative
  (iomanager.cc:330) and the thread sleeps until something else wakes it: `BoundedSleep` fails
  with a period of 2^(`IntBits`-1).
- Events. A hang-up is handled as both events (iomanager.cc:369, 380), so that an event that is
  not registered is triggered and the assertion at line 34 fails; the model stops there.
  delEvent and cancelEvent of the last event use MOD and not DEL (192, 225): the descriptor stays
  in the epoll set and the next addEvent fails.
- Hook. `TimedCallsReturn` excepts three kinds of calls: those whose timer fires between addTimer
  and addEvent, or whose earlier callback comes while they retry (hook.cc:131-142), which cancels
  nothing and leaves them without a timeout; those that add their event between the cancelAll and
  the close_f of a close (381-385), which `LeftOnlyIfLate` names; and those whose thread the
  kernel has stopped. `BlocksOnlyOwn` says where that happens: on sockets whose O_NONBLOCK the
  user has set, because `ioctl(FIONBIO)` with 0 reaches the kernel (494) and F_SETFL clears the
  flag of a socket made with SOCK_NONBLOCK (405, fd_manager.cc:49). `MayReuse` = FALSE: the kernel
  gives out no number while a call on it goes on; otherwise `BlocksOnlyOwn` fails within three
  calls: a call that was on its way to the old socket finds the new one before FdCtx::init has
  been there. That a call ends with a timeout although its event came at the same time is possible
  (156) and no property excludes it. All threads are hooked: a close on another thread leaves the
  FdCtx behind. Descriptors are below 64: FdManager::get writes beyond the vector for others
  (fd_manager.cc:100). setsockopt computes the timeout with `tv_sec * 100` (514); that a timeout
  is set is all the model knows.
- Config and Log. One setter: with two at once both run the listener under the read lock, one
  clears before both add, and the logger ends with appenders twice (`ConfigApplied` fails).
  clearListener takes no lock (config.h:330); it may cut the loop over the listeners short or let a
  listener be called that is no longer registered, and `OnlyRegisteredCalled` excepts the setters
  this happened to. A listener that sets its own variable waits for itself. An appender that
  is added again keeps its old formatter (log.cc:285); the model's are fresh.
- Algorithms. `%%` puts a percent sign into the text but the parser goes on at the second sign
  (log.cc:503), which then has to begin an item: `%%m` is a sign and an item, `%%` alone is refused.
  `PatternsParsed` states this (`SecondBegins`) for patterns with doubled signs, and for all others
  that they are refused exactly if some sign begins no item (`WellFormed`). The check of names lacks
  the digit 9 (config.h:378), which the model has too. Loading a map variable also sets a variable
  with the name of one of its members (`Overlap`). A variable with an empty name is never loaded
  (config.cc:43), and the level of an appender is written but not read (log.cc:706-735), so that
  no value of "logs" that was read has one. One definition of "logs" that is a scalar, or has a
  name, level or formatter that is none, makes the whole conversion throw, and the variable keeps
  its value. Prefix 0 of IPv4 shifts an int by 32 (address.cc:20), so that the address may be left
  as it is, and prefix 128 of IPv6, which every host has on `lo`, sets the byte after the address,
  the first of the scope (457): `BroadcastsRight` states these outcomes. An IPv6 address whose last
  group is zero is printed wrongly (435-449): `::` as `[]` and `1::` as `[1]`, and one with an
  earlier run of zeros with a second `::`; `PrintedIsRead` states that Lookup reads no address in
  any of these texts. `host:port` is not split, because Lookup looks for `]`
  twice (88).

## 4. Findings

- `SchedulerEarlyWake`: a fiber that waits is visible in HOLD, to those who may schedule it,
  before its context is saved; another thread may enter it meanwhile, which run() and the
  assertion of `swapIn` say cannot be.
- `SchedulerStranded`: with two workers `stop()` may return while a fiber waits. A thread whose
  idle fiber is over leaves run() without asking again (scheduler.cc:236), stopping() has looked at
  the pending events before it took the lock (iomanager.cc:299), and the other thread's task begins
  to wait in between. ~IOManager then destroys a fiber in HOLD, which ~Fiber asserts cannot be.
- `HookConnect`: when addEvent fails, connect_with_timeout goes on to SO_ERROR and returns 0
  although the connection is pending.

## 5. Proofs

Checked by TLAPS for every value of the constants that satisfies the named assumptions of the
module (finite sets, `None` distinct from everything else, natural bounds).

**`SchedulerProofs.tla`**
- `TypesInvariant`, `ActiveCountExact`, `IdleCountExact`, `TypeCorrect`: `Types` is inductive
  alone. Both counters equal the cardinality of a set of threads defined by their positions;
  lemma `CounterStep` shows that each step moves counter and set together (`CounterMoves`), and
  `CounterFollows` turns that into equality by the theorems on finite sets. `MainOrder` is
  needed because `start()` and `call()` move threads. That the counters are natural numbers
  follows. None of this needs any discipline of the tasks.
- `FetchedParked`, `AssertionsHold`, under `Discipline`: no fiber is scheduled
  twice (not `MayRepeat`), and fibers are woken only once parked (`WakeParkedOnly`) or there is
  only one thread. Neither is inductive: one has to know where else a fiber may
  be. `Exclusive` says that a fiber in the list is there once and referred to by no thread
  (`QueueExclusive`), that at most one local of one thread refers to it (`HeldOnce`), what its
  state, saved context and registration are at each position (`LabelState`), that an unused
  cb_fiber has been reset (`SpareReset`) and that a fiber nobody has is parked (`LooseFibers`).
- `EndsOnce`, an action property, and `NoCallbackLost`, under `Discipline`, from `Callbacks`: a
  callback that has been scheduled and has not ended is in one place and in no other, the list,
  a thread's `ft`, or a fiber that has begun or waits (`Unended`, `BorneOnce`, `NoneLost`), and
  such a fiber is in the list, with a thread, or registered (`LiveOwned`, which needs
  `HoldsArmed`: a fiber parks only after it registered). Lemmas say what each kind of step does
  to places: nothing (`BearersSame`), hand in (`BearersMore`, `BearersBorn`), take
  (`BearersTaken`), enter (`BearersEntered`), end (`BearersEnd`).
- `NothingStranded`, with one thread and not `MayRepeat`, from `Callbacks` and `Leaving`: once the
  idle function has returned, or `stop()` has found nothing to do, the list is empty and nothing
  is pending (`Drained`), and nobody is left who could change that. With two threads it is false
  (`SchedulerStranded`), which is why the theorem assumes one.

**`WakeUpsProofs.tla`**
- `PoolInvariant`: a task is in the list, with one thread, or over (`OnePlace`); a thread has a
  task exactly at the positions between the scan and the end of the task (`TaskPlaces`);
  `m_activeThreadCount` is the number of such threads (`ActiveExact`); and a thread whose idle
  fiber has ended knows that stop() was called and nothing is left (`LeavesLast`). The counter is
  what makes the last part inductive: stopping() sees only the counter.
- `Implementation`: `Spec => ImplementsPool`. `AsideStep` shows that the steps of wake-ups leave
  the tasks alone, `AsideRefines` that such a step is a step of the pool only when the last thread
  leaves; scheduling, fetching and running are `Submit`, `Start` and `Finish`.

**`TimerManagerProofs.tla`**
- `CallbackIffInSet`, `FiresAtMostOnce` from `LifeCycle`: besides the two properties, a timer
  under construction belongs to one client and is in nobody's hands (`Building`, `Unshared`),
  and one that still has its callback has neither fired nor been cancelled (`Pristine`).
- `NoneEarly`, an action property, from `ReadingsRecent`: a reading in use is at most an hour
  old, and the last one used is not later than the clock, or than the clock before it was set
  back. So detectClockRollover cannot say yes unless the clock went back by more than an hour.
- `NoneLeftBehind`, an action property, from the types of times.
- `SleepIsBounded`, `NobodyOversleeps`, for periods that an int holds (`ShortPeriods`: without it
  the conversion of the timeout wraps and both are false). `Begun` (no timer is further away than
  its period) gives the range of the converted timeout. `SleepersTickled` is what makes
  `NoOversleep` inductive: while all idle threads sleep, a set `m_tickled`, which keeps insertions
  from tickling, means that the byte is in the pipe or a client is about to write it, and a
  cleared one that some thread's own timeout ends in time.
- `TypeCorrect`.

**`FdEventsProofs.tla`**
- `PendingCount`, `TypeCorrect`: the count is the cardinality of the set of registrations;
  triggering a set of events removes exactly a product of that size.
- `WaitersAreKept`: `WaitersKept` with the types is inductive; lemmas `KeptByRegister` and
  `KeptByRelease` cover all operations. None of these three assumes that `epoll_ctl` succeeds,
  that descriptors stay open or that nobody hangs up.
- `EpollWatches` and `ReportsNotLost`, as long as nobody closes a descriptor under its waiters
  (not `MayClose`; a closed one leaves the epoll set). They are inductive together:
  `ReportInFlight` says that a waiter whose event has happened has a report in the kernel or in
  the hands of an idle thread, the safety half of `NoLostEdge`.

**`HookProofs.tla`**
- `TypeCorrect`, with `Control`: what a call is at each of its positions (`CallShape`), and that
  one fiber waits for an event of a descriptor (`OneWaiter`, iomanager.cc:151).
- `WokenOnce` from `WakeInv`: a fiber is in the scheduler's list only while it waits; where it is
  registered, or has a timer to end its sleep, it waits for just that and is not in the list; and
  who waits is in one of the three places (`Wakeups`). Nothing is assumed.
- `TimeoutsAreReal`, an action property, from `TimersOfCalls`: a timer carries the number of its
  call, numbers are not used again, and `cancelled` is set only during a call one of whose timers
  has expired.
- `ContextsTrackFiles` from `Closers` and `Descriptors`: one fiber at a time closes a descriptor,
  whoever opens one is alone on it, and an open descriptor lacks its FdCtx only while its opener
  or its closer is between the two halves of its work. Assumes that numbers are not given out
  under a call (not `MayReuse`).
- `ThreadsNeverBlock` (`BlocksOnlyOwn`) from `Flags`: an open socket whose O_NONBLOCK the user has
  not set is non-blocking unless its opener has not come to FdCtx::init, its FdCtx remembers that,
  and nobody is stopped on it. Assumes not `MayReuse`.
- `ClosedAreWoken` (`LeftOnlyIfLate`) from `Late`: whoever is registered on a descriptor that is
  closed or being closed registered while it was being closed. Nothing is assumed: fibers that are
  woken by the close may go on at once, retry and register again.

**`LogProofs.tla`** (`Log` extends `Config`)
- `ListenersRegistered` from `ReadLock`: exactly the setters that call listeners hold the read lock,
  which keeps out who adds or deletes listeners; clearListener, which takes no lock, marks the
  setters it comes under.
- `FormattersInherited` from `LoggerInv`: the step of the listener's work fits the definition it
  is at (`JobShape`), and lists and formatters have their types.
- `WritersAttached` from `Writing`: who is writing has something left to write to, in the logger
  it has locked; `ListsGuarded` shows that lists change only while nobody holds that lock.
- `ConfigurationsApplied`, with one setter, from `Progress`: before the listener of "logs" has run,
  every logger follows the old value of the variable, after it the new one; while it runs the
  loggers it is done with, and those whose definition did not change, follow the new one. With
  two setters it is false (section 3).
- `TypeCorrect`.

**`LogFormatterProofs.tla`** and **`AlgorithmsProofs.tla`**. The states of `Algorithms` never
change, so that each theorem is about every input, of any length, that satisfies the assumptions
of `Algorithms`. The arguments are inductions over loops. `SetInduction` states induction for a
set of numbers; `LoopExists` shows that a loop that is written as a recursive function of its
turns is what its equation says, and `LoopInvariant` that what a turn preserves holds after all.
- `PatternsOfLogs`: the parser is at a place in front of which no format is open (`Top`), and what
  it has cut, put together, is the pattern up to there; `ScanResult` says where the inner loop
  stops, and `TopText`, `TopItem`, `TopFormat`, `NoItem` how each outcome moves on and whether the
  item is well-formed.
- `OrderOfAddresses`: comparing memory is decided at the first byte that differs; equal, smaller
  and greater exclude each other and carry over to a third address, with the lengths as the last
  criterion.
- `BroadcastsOfInterfaces`: the ones of a netmask counted bit by bit are the prefix, and the mask
  made from the prefix sets the same bits, for every prefix; the two at the ends (0 of IPv4, 128 of
  IPv6) have the further outcomes of section 3, and no others.
- `PrintedAddressesRead`: the loop of `insert` has printed the groups so far, with at most one gap
  (`Inserted`); the text of a gap (`GapText`) is the only doubled colon, so that the reader puts
  the zeros back where they were; and `Lookup` takes off the brackets and the port
  (`HostSplit`). If the last group is zero (`ZerosPrinted`) the text has too few groups without a
  gap, or a second gap, and nothing is read.
- `FilesOfRegistries`: after k members a variable has the value of the last of them that names it
  and converts, or the old one (`LoadedTo`, kept by each turn: `MemberLoaded`). A registry has
  values of its variables' types, before (`RegistryIs`) and after loading (`LoadedIsRegistry`,
  from what each conversion can return). For the way back, each conversion undoes the other
  (`ValueBack`, one lemma per type; sets, maps and logs are written in an order nobody chose, and
  `ListedAll` says that it is complete); the members of a saved registry are the document, the
  variables and the elements of maps (`SavedListed`), of which only a variable's own has its name.

Every invariant and action property of the passing runs is stated by a theorem, but for two:
`OneThreadPerFiber`, which the proof of `FetchedParked` contains, and `OnlyWaitersLeft`. Only
model-checked besides: liveness (`EveryTaskRuns`, `StopTerminates`, `StopReturns`, `NoLostEdge`,
`TimedCallsReturn`, `CallsReturn`), which the prover does not support; and, of `EndedOnce` and
`NoTaskStranded`, the case of a single thread with fibers that are scheduled once more while they
wait, run or are over (`MayRepeat`).

## 6. Not modelled

- What is printed: format items, `toYamlString`, the text of IPv4 and Unix addresses; the files
  of FileLogAppender, which are opened again every second and cut off (log.cc:384, 417).
- Address: `networdAress` and `subnetMask`, `inet_pton`, Unix paths that are too long, an
  interface without an address (address.cc:139).
- `Thread`: the handshake of the constructor and `join` are one step each in `Scheduler`;
  `m_threadIds` takes an id that may not be set yet (scheduler.cc:68). The lock classes wrap
  pthread and appear as atomic sections or as locks with an owner.
- `Scheduler::start` after a `stop` (the root fiber is TERM then, scheduler.cc:121); names, stack
  sizes and reference counts of fibers.
- The growth of `m_FdContexts` when two threads find it too small (iomanager.cc:136).
- The wall clock is set back at most once and never while a thread is inside listExpiredCb; the
  read of `m_ms` outside the lock in `Timer::reset` (63) is made with the lock; timers with equal
  `m_next`, which the code orders by address, are ordered nondeterministically.
- `socket.cc` (empty), `util`, `macro.h`, `singleton.h` (no state); yaml-cpp, boost and the kernel
  are external.

## 7. Plan

1. `EndedOnce` and `NoTaskStranded` for one thread with `MayRepeat`: a fiber is in the list more
   than once there, so that `QueueExclusive` has to become a statement about states.
2. `m_FdContexts` under concurrent growth and the hand-over of the thread's id.
