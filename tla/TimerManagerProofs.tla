-------------------------- MODULE TimerManagerProofs --------------------------
(***************************************************************************)
(* Proofs about TimerManager, for any timers, threads and clock: the life  *)
(* of a timer, that no callback is handed out early and none that is due   *)
(* left behind, and that the idle threads wake up in time.                 *)
(***************************************************************************)
EXTENDS TimerManager, WellFoundedInduction, TLAPS

-----------------------------------------------------------------------------
(* The life of a timer *)

\* The types of the variables that make up a timer's life.
LifeTypes ==
    /\ status \in [Timers -> {"none", "built", "shared"}]
    /\ m_cb \in [Timers -> BOOLEAN]
    /\ m_timers \in SUBSET Timers
    /\ builder \in [Clients -> Timers \union {NoTimer}]
    /\ fired \in [Timers -> Nat]
    /\ cancelled \in SUBSET Timers

\* Each timer that is being created is new, has its callback, and belongs to one
\* client.
Building ==
    /\ \A c \in Clients : builder[c] # NoTimer =>
          status[builder[c]] = "built" /\ m_cb[builder[c]]
    /\ \A c, d \in Clients :
          builder[c] # NoTimer /\ builder[c] = builder[d] => c = d

\* Nothing has happened yet to a timer that is not in other hands.
Unshared ==
    \A k \in Timers :
        status[k] # "shared" => k \notin m_timers /\ fired[k] = 0 /\ k \notin cancelled

\* A timer that does not recur and still has its callback has not handed it out,
\* and was not cancelled.
Pristine ==
    \A k \in Timers \ Recurring : m_cb[k] => fired[k] = 0 /\ k \notin cancelled

\* The inductive invariant behind CbIffInSet and FiresOnceOrCancelled.
LifeCycle == LifeTypes /\ Building /\ Unshared /\ Pristine /\ CbIffInSet /\ FiresOnceOrCancelled

\* Before any timer exists the invariant holds.
LEMMA LifeCycleInit == Init => LifeCycle
<1> SUFFICES ASSUME Init PROVE LifeCycle
  OBVIOUS
<1>1. LifeTypes
  BY DEF Init, LifeTypes
<1>2. Building /\ Unshared /\ Pristine /\ CbIffInSet /\ FiresOnceOrCancelled
  BY DEF Init, Building, Unshared, Pristine, CbIffInSet, FiresOnceOrCancelled
<1> QED BY <1>1, <1>2 DEF LifeCycle

\* addTimer and reset put a timer into the set; whether the client has to tickle
\* does not matter here.
LEMMA InsertSets ==
    ASSUME NEW c, NEW k, NEW next, Insert(c, k, next)
    PROVE  m_timers' = m_timers \union {k}
  BY DEF Insert

\* Every step of a client, of an idle thread or of the clock keeps it.
LEMMA LifeCycleStep == LifeCycle /\ [Next]_vars => LifeCycle'
<1> SUFFICES ASSUME LifeCycle, [Next]_vars PROVE LifeCycle'
  OBVIOUS
<1> USE DEF clockVars, timerVars, clientVars, idleVars, histVars
<1>1. CASE UNCHANGED <<status, m_cb, m_timers, builder, fired, cancelled>>
  BY <1>1 DEF LifeCycle, LifeTypes, Building, Unshared, Pristine, CbIffInSet,
              FiresOnceOrCancelled
<1>2. ASSUME NEW c \in Clients, NEW k \in Timers, NEW ms \in Periods,
             Construct(c, k, ms)
      PROVE  LifeCycle'
  <2> USE DEF LifeCycle
  <2>1. /\ status[k] = "none" /\ builder[c] = NoTimer
        /\ status' = [status EXCEPT ![k] = "built"]
        /\ m_cb' = [m_cb EXCEPT ![k] = TRUE]
        /\ builder' = [builder EXCEPT ![c] = k]
        /\ UNCHANGED <<m_timers, fired, cancelled>>
    BY <1>2 DEF Construct
  <2>2. LifeTypes'
    BY <2>1 DEF LifeTypes
  <2>3. \A d \in Clients : builder[d] = k => k = NoTimer
    BY <2>1 DEF Building
  <2>4. Building'
    BY <2>1, <2>3 DEF Building, LifeTypes
  <2>5. fired[k] = 0 /\ k \notin cancelled
    BY <2>1 DEF Unshared
  <2>6. Unshared' /\ Pristine' /\ FiresOnceOrCancelled'
    BY <2>1, <2>5 DEF Unshared, Pristine, FiresOnceOrCancelled, LifeTypes
  <2>7. CbIffInSet'
    BY <2>1 DEF CbIffInSet, LifeTypes
  <2> QED BY <2>2, <2>4, <2>6, <2>7
<1>3. ASSUME NEW c \in Clients, AddTimer(c) PROVE LifeCycle'
  <2> USE DEF LifeCycle
  <2> DEFINE k == builder[c]
  <2>1. /\ k # NoTimer
        /\ m_timers' = m_timers \union {k}
        /\ status' = [status EXCEPT ![k] = "shared"]
        /\ builder' = [builder EXCEPT ![c] = NoTimer]
        /\ UNCHANGED <<m_cb, fired, cancelled>>
    BY <1>3, InsertSets DEF AddTimer
  <2>2. k \in Timers /\ status[k] = "built" /\ m_cb[k]
    BY <2>1 DEF Building, LifeTypes
  <2>3. LifeTypes'
    BY <2>1, <2>2 DEF LifeTypes
  <2>4. Building'
    BY <2>1, <2>2 DEF Building, LifeTypes
  <2>5. Unshared' /\ Pristine' /\ FiresOnceOrCancelled'
    BY <2>1, <2>2 DEF Unshared, Pristine, FiresOnceOrCancelled, LifeTypes
  <2>6. CbIffInSet'
    BY <2>1, <2>2 DEF CbIffInSet, LifeTypes
  <2> QED BY <2>3, <2>4, <2>5, <2>6
<1>4. ASSUME NEW k \in Timers, Cancel(k) PROVE LifeCycle'
  <2> USE DEF LifeCycle
  <2>1. /\ status[k] = "shared" /\ m_cb[k]
        /\ m_cb' = [m_cb EXCEPT ![k] = FALSE]
        /\ m_timers' = m_timers \ {k}
        /\ cancelled' = cancelled \union {k}
        /\ UNCHANGED <<status, builder, fired>>
    BY <1>4 DEF Cancel
  <2>2. LifeTypes'
    BY <2>1 DEF LifeTypes
  <2>3. Building'
    BY <2>1 DEF Building, LifeTypes
  <2>4. Unshared' /\ Pristine' /\ FiresOnceOrCancelled'
    BY <2>1 DEF Unshared, Pristine, FiresOnceOrCancelled, LifeTypes
  <2>5. CbIffInSet'
    BY <2>1 DEF CbIffInSet, LifeTypes
  <2> QED BY <2>2, <2>3, <2>4, <2>5
<1>5. ASSUME NEW c \in Clients, NEW k \in Timers, NEW ms \in Periods,
             NEW from_now \in BOOLEAN, Reset(c, k, ms, from_now)
      PROVE  LifeCycle'
  <2>1. k \in m_timers /\ UNCHANGED <<status, m_cb, builder, fired, cancelled>>
    BY <1>5 DEF Reset
  <2>2. m_timers' = m_timers \union {k}
    BY <1>5, InsertSets DEF Reset
  <2> QED BY <1>1, <2>1, <2>2
<1>6. ASSUME NEW t \in Idlers, ListExpired(t) PROVE LifeCycle'
  <2> USE DEF LifeCycle
  <2> DEFINE gone == Expired(nowMs[t])
  <2>1. gone \subseteq m_timers
    BY DEF Expired
  <2>2. /\ m_timers' = (m_timers \ gone) \union (gone \intersect Recurring)
        /\ m_cb' = [k \in Timers |-> m_cb[k] /\ ~ (k \in gone \ Recurring)]
        /\ fired' = [k \in Timers |-> IF k \in gone /\ fired[k] < 2
                                      THEN fired[k] + 1 ELSE fired[k]]
        /\ UNCHANGED <<status, builder, cancelled>>
    BY <1>6 DEF ListExpired, Expire
  <2> HIDE DEF gone
  <2>3. \A k \in gone : status[k] = "shared" /\ m_cb[k]
    BY <2>1 DEF Unshared, CbIffInSet, LifeTypes
  <2>4. LifeTypes'
    <3>1. fired' \in [Timers -> Nat]
      BY <2>2 DEF LifeTypes
    <3>2. m_cb' \in [Timers -> BOOLEAN]
      BY <2>2 DEF LifeTypes
    <3> QED BY <2>1, <2>2, <3>1, <3>2 DEF LifeTypes
  <2>5. \A k \in Timers :
           m_cb'[k] <=> m_cb[k] /\ ~ (k \in gone /\ k \notin Recurring)
    BY <2>2 DEF LifeTypes
  <2>6. \A k \in Timers :
           fired'[k] = IF k \in gone /\ fired[k] < 2 THEN fired[k] + 1 ELSE fired[k]
    BY <2>2
  <2>7. Building'
    <3>1. \A c \in Clients : builder[c] # NoTimer =>
             builder[c] \in Timers /\ builder[c] \notin gone
      BY <2>3 DEF Building, LifeTypes
    <3> QED BY <2>2, <2>5, <3>1 DEF Building
  <2>8. Unshared'
    <3> SUFFICES ASSUME NEW k \in Timers, status[k] # "shared"
                 PROVE  k \notin m_timers' /\ fired'[k] = 0 /\ k \notin cancelled'
      BY <2>2 DEF Unshared
    <3>1. k \notin gone /\ k \notin m_timers /\ fired[k] = 0 /\ k \notin cancelled
      BY <2>3 DEF Unshared
    <3> QED BY <2>2, <2>6, <3>1
  <2>9. Pristine' /\ FiresOnceOrCancelled'
    <3> SUFFICES ASSUME NEW k \in Timers \ Recurring
                 PROVE  /\ m_cb'[k] => fired'[k] = 0 /\ k \notin cancelled'
                        /\ fired'[k] <= 1 /\ (k \in cancelled' => fired'[k] = 0)
      BY DEF Pristine, FiresOnceOrCancelled
    <3>1. CASE k \in gone
      <4>1. fired[k] = 0 /\ k \notin cancelled
        BY <2>3, <3>1 DEF Pristine
      <4>2. fired'[k] = 1
        BY <2>6, <3>1, <4>1
      <4>3. ~ m_cb'[k] /\ k \notin cancelled'
        BY <2>2, <2>5, <3>1, <4>1
      <4> QED BY <4>2, <4>3
    <3>2. CASE k \notin gone
      <4>1. fired'[k] = fired[k] /\ cancelled' = cancelled /\ (m_cb'[k] => m_cb[k])
        BY <2>2, <2>5, <2>6, <3>2
      <4> QED BY <4>1 DEF Pristine, FiresOnceOrCancelled
    <3> QED BY <3>1, <3>2
  <2>10. CbIffInSet'
    <3> SUFFICES ASSUME NEW k \in Timers, status[k] = "shared"
                 PROVE  m_cb'[k] <=> k \in m_timers'
      BY <2>2 DEF CbIffInSet
    <3>1. m_cb[k] <=> k \in m_timers
      BY DEF CbIffInSet
    <3> QED BY <2>1, <2>2, <2>5, <3>1
  <2> QED BY <2>4, <2>7, <2>8, <2>9, <2>10
<1>7. ASSUME NEW c \in Clients, Tickle(c) PROVE LifeCycle'
  BY <1>1, <1>7 DEF Tickle
<1>8. ASSUME NEW t \in Idlers,
             EnterIdle(t) \/ Sleep(t) \/ Awake(t) \/ ListEmpty(t)
      PROVE  LifeCycle'
  BY <1>1, <1>8 DEF EnterIdle, Sleep, Awake, ListEmpty
<1>9. CASE Tick \/ (\E d \in 1..MaxBack : SetBack(d))
           \/ (\E k \in Timers : Refresh(k)) \/ UNCHANGED vars
  BY <1>1, <1>9 DEF Tick, SetBack, Refresh, vars
<1> QED
  BY <1>2, <1>3, <1>4, <1>5, <1>6, <1>7, <1>8, <1>9
  DEF Next, Step, ClientStep, IdlerStep

\* Whatever clients and idle threads do to a timer, in whatever order, it has its
\* callback exactly while it is in the set: cancel() always erases an element.
THEOREM CallbackIffInSet == Spec => []CbIffInSet
<1>1. LifeCycle => CbIffInSet
  BY DEF LifeCycle
<1> QED BY <1>1, LifeCycleInit, LifeCycleStep, PTL DEF Spec

\* A timer that does not recur runs at most once, and never after a cancel()
\* that returned true.
THEOREM FiresAtMostOnce == Spec => []FiresOnceOrCancelled
<1>1. LifeCycle => FiresOnceOrCancelled
  BY DEF LifeCycle
<1> QED BY <1>1, LifeCycleInit, LifeCycleStep, PTL DEF Spec

-----------------------------------------------------------------------------
(* No callback is early *)

\* The types of the clock and of its readings, and how far the clock can be.
ClockTypes ==
    /\ now \in Nat /\ setBack \in Nat /\ m_previouseTime \in Nat
    /\ setBack <= MaxBack /\ Base <= now + setBack
    /\ ipc \in [Idlers -> {"away", "idle", "asleep", "listing"}]
    /\ nowMs \in [Idlers -> Nat]

\* What a thread in listExpiredCb has read is at most an hour old, and the last
\* reading that was used is no later than the clock, or than the clock was
\* before it was set back.
ReadingsRecent ==
    /\ \A t \in Idlers :
          ipc[t] = "listing" => nowMs[t] <= now /\ now <= nowMs[t] + Hour
    /\ \/ m_previouseTime <= now
       \/ /\ m_previouseTime <= now + setBack
          /\ \A t \in Idlers :
                ipc[t] = "listing" => m_previouseTime <= nowMs[t] + setBack

\* The manager is constructed with a fresh reading of the clock.
LEMMA ReadingsInit == Init => ClockTypes /\ ReadingsRecent
<1> SUFFICES ASSUME Init PROVE ClockTypes /\ ReadingsRecent
  OBVIOUS
<1>1. ClockTypes
  BY ClockAssumption DEF Init, ClockTypes
<1>2. ReadingsRecent
  BY ClockAssumption DEF Init, ReadingsRecent
<1> QED BY <1>1, <1>2

\* Ticks, a change of the clock and the idle threads keep the readings recent.
LEMMA ReadingsStep ==
    ClockTypes /\ ReadingsRecent /\ [Next]_vars => (ClockTypes /\ ReadingsRecent)'
<1> SUFFICES ASSUME ClockTypes, ReadingsRecent, [Next]_vars
             PROVE  ClockTypes' /\ ReadingsRecent'
  OBVIOUS
<1> USE DEF clockVars, timerVars, clientVars, idleVars, histVars
<1>0. /\ Hour \in Nat /\ MaxBack \in Nat /\ Base \in Nat
      /\ Hour + MaxBack < Base
  BY ClockAssumption
<1>1. CASE UNCHANGED <<now, setBack, m_previouseTime, ipc, nowMs>>
  BY <1>1 DEF ClockTypes, ReadingsRecent
<1>2. CASE Tick
  <2>1. /\ now' = now + 1 /\ Prompt(now + 1)
        /\ UNCHANGED <<setBack, m_previouseTime, ipc, nowMs>>
    BY <1>2 DEF Tick
  <2>2. \A t \in Idlers : ipc[t] = "listing" => (now + 1) - nowMs[t] < Hour
    BY <2>1 DEF Prompt
  <2> QED BY <1>0, <2>1, <2>2 DEF ClockTypes, ReadingsRecent
<1>3. ASSUME NEW d \in 1..MaxBack, SetBack(d) PROVE ClockTypes' /\ ReadingsRecent'
  BY <1>0, <1>3 DEF SetBack, ClockTypes, ReadingsRecent
<1>4. ASSUME NEW t \in Idlers, EnterIdle(t) \/ Sleep(t)
      PROVE  ClockTypes' /\ ReadingsRecent'
  <2>1. /\ \E l \in {"idle", "asleep"} : ipc' = [ipc EXCEPT ![t] = l]
        /\ UNCHANGED <<now, setBack, m_previouseTime, nowMs>>
    BY <1>4 DEF EnterIdle, Sleep
  <2> QED BY <1>0, <2>1 DEF ClockTypes, ReadingsRecent
<1>5. ASSUME NEW t \in Idlers, Awake(t) PROVE ClockTypes' /\ ReadingsRecent'
  <2>1. UNCHANGED <<now, setBack, m_previouseTime>>
    BY <1>5 DEF Awake
  <2>2. CASE ipc' = [ipc EXCEPT ![t] = "away"] /\ UNCHANGED nowMs
    BY <1>0, <2>1, <2>2 DEF ClockTypes, ReadingsRecent
  <2>3. CASE ipc' = [ipc EXCEPT ![t] = "listing"] /\ nowMs' = [nowMs EXCEPT ![t] = now]
    BY <1>0, <2>1, <2>3 DEF ClockTypes, ReadingsRecent
  <2> QED BY <1>5, <2>2, <2>3 DEF Awake
<1>6. ASSUME NEW t \in Idlers, ListExpired(t) \/ ListEmpty(t)
      PROVE  ClockTypes' /\ ReadingsRecent'
  <2>1. /\ ipc[t] = "listing"
        /\ ipc' = [ipc EXCEPT ![t] = "away"]
        /\ nowMs' = [nowMs EXCEPT ![t] = 0]
        /\ m_previouseTime' = nowMs[t]
        /\ UNCHANGED <<now, setBack>>
    BY <1>6 DEF ListExpired, ListEmpty
  <2> QED BY <1>0, <2>1 DEF ClockTypes, ReadingsRecent
<1>7. ASSUME NEW c \in Clients, ClientStep(c) PROVE ClockTypes' /\ ReadingsRecent'
  BY <1>1, <1>7 DEF ClientStep, Construct, AddTimer, Tickle, Reset
<1>8. CASE (\E k \in Timers : Cancel(k) \/ Refresh(k)) \/ UNCHANGED vars
  BY <1>1, <1>8 DEF Cancel, Refresh, vars
<1> QED
  BY <1>2, <1>3, <1>4, <1>5, <1>6, <1>7, <1>8 DEF Next, Step, IdlerStep

\* What NeverEarly says of one step.
NotEarly ==
    \A k \in Timers : fired'[k] # fired[k] /\ setBack <= Hour => m_next[k] <= now

\* A step that hands out callbacks is listExpiredCb; without a rollover it takes
\* only timers that are due, and recent readings allow no rollover.
LEMMA NotEarlyStep ==
    ClockTypes /\ ReadingsRecent /\ m_next \in [Timers -> Nat] /\ [Next]_vars
      => [NotEarly]_vars
<1> SUFFICES ASSUME ClockTypes, ReadingsRecent, m_next \in [Timers -> Nat], Next
             PROVE  NotEarly
  OBVIOUS
<1> USE DEF clockVars, timerVars, clientVars, idleVars, histVars
<1>1. CASE UNCHANGED fired
  BY <1>1 DEF NotEarly
<1>2. ASSUME NEW t \in Idlers, ListExpired(t) PROVE NotEarly
  <2> SUFFICES ASSUME NEW k \in Timers, fired'[k] # fired[k], setBack <= Hour
               PROVE  m_next[k] <= now
    BY DEF NotEarly
  <2>1. k \in Expired(nowMs[t])
    BY <1>2 DEF ListExpired, Expire
  <2>2. ~ Rollover(nowMs[t])
    <3>1. ipc[t] = "listing" /\ nowMs[t] \in Int /\ Hour \in Nat
      BY <1>2, ClockAssumption DEF ListExpired, ClockTypes
    <3> QED BY <3>1 DEF Rollover, ReadingsRecent, ClockTypes
  <2>3. m_next[k] <= nowMs[t]
    BY <2>1, <2>2 DEF Expired
  <2>4. nowMs[t] <= now /\ nowMs[t] \in Int
    BY <1>2 DEF ListExpired, ReadingsRecent, ClockTypes
  <2> QED BY <2>3, <2>4 DEF ClockTypes
<1>3. ASSUME NEW t \in Idlers,
             EnterIdle(t) \/ Sleep(t) \/ Awake(t) \/ ListEmpty(t)
      PROVE  NotEarly
  BY <1>1, <1>3 DEF EnterIdle, Sleep, Awake, ListEmpty
<1>4. ASSUME NEW c \in Clients, ClientStep(c) PROVE NotEarly
  BY <1>1, <1>4 DEF ClientStep, Construct, AddTimer, Tickle, Reset
<1>5. CASE Tick \/ (\E d \in 1..MaxBack : SetBack(d))
           \/ (\E k \in Timers : Cancel(k) \/ Refresh(k)) \/ UNCHANGED vars
  BY <1>1, <1>5 DEF Tick, SetBack, Cancel, Refresh, vars
<1> QED BY <1>2, <1>3, <1>4, <1>5 DEF Next, Step, IdlerStep

\* The period and the expiry of every timer are numbers, and the beginning of
\* the period, which reset() computes from them, does not fall below zero.
TimeTypes ==
    /\ m_ms \in [Timers -> Nat] /\ m_next \in [Timers -> Nat]
    /\ \A k \in Timers : m_ms[k] <= m_next[k] /\ m_ms[k] \in Periods \union {0}

\* They stay so when timers are created, changed or start a new period.
LEMMA TimesStep == ClockTypes /\ TimeTypes /\ [Next]_vars => TimeTypes'
<1> SUFFICES ASSUME ClockTypes, TimeTypes, [Next]_vars PROVE TimeTypes'
  OBVIOUS
<1> USE DEF clockVars, timerVars, clientVars, idleVars, histVars
<1>1. CASE UNCHANGED <<m_ms, m_next>>
  BY <1>1 DEF TimeTypes
<1>2. ASSUME NEW c \in Clients, NEW k \in Timers, NEW ms \in Periods,
             Construct(c, k, ms)
      PROVE  TimeTypes'
  <2>1. ms \in Nat
    BY SleepAssumption
  <2> QED BY <1>2, <2>1 DEF Construct, TimeTypes, ClockTypes
<1>3. ASSUME NEW c \in Clients, NEW k \in Timers, NEW ms \in Periods,
             NEW from_now \in BOOLEAN, Reset(c, k, ms, from_now)
      PROVE  TimeTypes'
  <2>1. ms \in Nat
    BY SleepAssumption
  <2> QED BY <1>3, <2>1 DEF Reset, TimeTypes, ClockTypes
<1>4. ASSUME NEW t \in Idlers, ListExpired(t) PROVE TimeTypes'
  <2>1. /\ m_next' \in [Timers -> Nat] /\ m_ms' = m_ms
        /\ \A k \in Timers : m_next'[k] = m_next[k] \/ m_next'[k] = nowMs[t] + m_ms[k]
    BY <1>4 DEF ListExpired, Expire, TimeTypes, ClockTypes
  <2> QED BY <2>1 DEF TimeTypes, ClockTypes
<1>5. ASSUME NEW c \in Clients, AddTimer(c) \/ Tickle(c) PROVE TimeTypes'
  BY <1>1, <1>5 DEF AddTimer, Tickle
<1>6. ASSUME NEW t \in Idlers,
             EnterIdle(t) \/ Sleep(t) \/ Awake(t) \/ ListEmpty(t)
      PROVE  TimeTypes'
  BY <1>1, <1>6 DEF EnterIdle, Sleep, Awake, ListEmpty
<1>7. CASE Tick \/ (\E d \in 1..MaxBack : SetBack(d))
           \/ (\E k \in Timers : Cancel(k) \/ Refresh(k)) \/ UNCHANGED vars
  BY <1>1, <1>7 DEF Tick, SetBack, Cancel, Refresh, vars
<1> QED
  BY <1>2, <1>3, <1>4, <1>5, <1>6, <1>7 DEF Next, Step, ClientStep, IdlerStep

\* If no thread is stopped for an hour inside listExpiredCb and the clock is not
\* set back by more than an hour, no callback is handed out before its time,
\* however the readings of the clock by several threads are interleaved.
THEOREM NoneEarly == Spec => NeverEarly
<1> DEFINE Inv == ClockTypes /\ ReadingsRecent /\ TimeTypes
<1>1. Init => TimeTypes
  BY DEF Init, TimeTypes
<1>2. Init => Inv
  BY <1>1, ReadingsInit
<1>3. Inv /\ [Next]_vars => Inv'
  BY ReadingsStep, TimesStep
<1>4. Inv /\ [Next]_vars => [NotEarly]_vars
  BY NotEarlyStep DEF TimeTypes
<1>5. Spec => [][NotEarly]_vars
  BY <1>2, <1>3, <1>4, PTL DEF Spec
<1> QED BY <1>5 DEF NeverEarly, NotEarly

-----------------------------------------------------------------------------
(* The first timer *)

\* A set of natural numbers that is not empty has a least one: Min.
LEMMA MinLeast ==
    ASSUME NEW S \in SUBSET Nat, S # {}
    PROVE  Min(S) \in S /\ \A x \in S : Min(S) <= x
<1>1. PICK R : /\ IsWellFoundedOn(R, Nat)
               /\ \A x, y \in Nat : <<y, x>> \in R <=> y < x
  <2>1. \A x, y \in Nat : <<y, x>> \in OpToRel(<, Nat) <=> y < x
    BY DEF OpToRel
  <2> QED BY <2>1, NatLessThanWellFounded
<1>2. PICK m \in S : \A y \in S : ~ (<<y, m>> \in R)
  BY <1>1, WFMin
<1>3. \A y \in S : m <= y
  <2>1. \A y \in S : ~ (y < m)
    BY <1>1, <1>2, Zenon
  <2> QED BY <2>1
<1>4. \E x \in S : \A y \in S : x <= y
  BY <1>3
<1> QED BY <1>4, Zenon DEF Min

\* getNextTimer and listExpiredCb look at *m_timers.begin(): the timer that is
\* due first.
LEMMA FrontFacts ==
    ASSUME NEW next, NEW T, T # {}, \A k \in T : next[k] \in Nat
    PROVE  /\ \E k \in T : next[k] = Min({next[j] : j \in T})
           /\ \A k \in T : Min({next[j] : j \in T}) <= next[k]
           /\ Min({next[j] : j \in T}) \in Nat
<1> DEFINE S == {next[j] : j \in T}
<1>1. S \in SUBSET Nat /\ S # {}
  OBVIOUS
<1> HIDE DEF S
<1>2. Min(S) \in S /\ \A x \in S : Min(S) <= x
  BY <1>1, MinLeast
<1> QED BY <1>1, <1>2 DEF S

-----------------------------------------------------------------------------
(* listExpiredCb leaves nothing behind *)

\* What NothingOverdueLeft says of one step.
NoneOverdue ==
    \A t \in Idlers : Lists(t) => \A k \in m_timers' : m_next'[k] >= nowMs[t]

\* Only ListExpired goes through the locked part with timers in the set; what it
\* leaves is not yet due, or has begun a new period at its reading.
LEMMA NoneOverdueStep ==
    LifeTypes /\ ClockTypes /\ TimeTypes /\ [Next]_vars => [NoneOverdue]_vars
<1> SUFFICES ASSUME LifeTypes, ClockTypes, TimeTypes, Next, NEW t \in Idlers, Lists(t),
                    NEW k \in m_timers'
             PROVE  m_next'[k] >= nowMs[t]
  BY DEF NoneOverdue
<1> USE DEF clockVars, timerVars, clientVars, idleVars, histVars
<1>1. ipc'[t] # ipc[t] /\ ipc[t] = "listing" /\ ipc'[t] = "away" /\ m_timers # {}
  BY DEF Lists
<1>2. \E u \in Idlers : IdlerStep(u)
  BY <1>1 DEF Next, vars, Step, Tick, SetBack, ClientStep, Construct, AddTimer, Tickle,
       Reset, Cancel, Refresh
<1>3. ListExpired(t)
  BY <1>1, <1>2 DEF IdlerStep, EnterIdle, Sleep, Awake, ListExpired, ListEmpty,
       ClockTypes
<1> DEFINE gone == Expired(nowMs[t])
<1>4. /\ m_timers' = (m_timers \ gone) \union (gone \intersect Recurring)
      /\ m_next' = [j \in Timers |-> IF j \in gone \intersect Recurring
                                     THEN nowMs[t] + m_ms[j] ELSE m_next[j]]
      /\ gone \subseteq m_timers
  BY <1>3 DEF ListExpired, Expire, Expired
<1>5. nowMs[t] \in Nat /\ k \in Timers /\ m_ms[k] \in Nat /\ m_next[k] \in Nat
  BY <1>4 DEF ClockTypes, TimeTypes, LifeTypes
<1>6. CASE k \in gone
  <2> HIDE DEF gone
  <2> QED BY <1>4, <1>5, <1>6
<1>7. CASE k \notin gone
  <2>1. k \in m_timers /\ m_next'[k] = m_next[k]
    <3> HIDE DEF gone
    <3> QED BY <1>4, <1>5, <1>7
  <2>2. \A j \in m_timers : Front(m_timers) <= m_next[j]
    BY <1>1, FrontFacts DEF Front, TimeTypes, LifeTypes
  <2>3. Front(m_timers) = nowMs[t] \/ ~ (m_next[k] <= nowMs[t])
    BY <1>7, <2>1 DEF Expired
  <2> QED BY <1>5, <2>1, <2>2, <2>3
<1> QED BY <1>6, <1>7

\* The clock, the readings, the times and the life of timers, together.
LEMMA TimesInvariant ==
    Spec => [](LifeCycle /\ ClockTypes /\ ReadingsRecent /\ TimeTypes)
<1> DEFINE Inv == LifeCycle /\ ClockTypes /\ ReadingsRecent /\ TimeTypes
<1>1. Init => TimeTypes
  BY DEF Init, TimeTypes
<1>2. Init => Inv
  BY <1>1, LifeCycleInit, ReadingsInit
<1>3. Inv /\ [Next]_vars => Inv'
  BY LifeCycleStep, ReadingsStep, TimesStep
<1> QED BY <1>2, <1>3, PTL DEF Spec

\* listExpiredCb takes every timer that was due before the clock was read, also
\* after a rollover and when the first timer is due at that very moment.
THEOREM NoneLeftBehind == Spec => NothingOverdueLeft
<1>1. LifeCycle /\ ClockTypes /\ ReadingsRecent /\ TimeTypes /\ [Next]_vars
        => [NoneOverdue]_vars
  BY NoneOverdueStep DEF LifeCycle
<1>2. Spec => [][NoneOverdue]_vars
  BY <1>1, TimesInvariant, PTL DEF Spec
<1> QED BY <1>2 DEF NothingOverdueLeft, NoneOverdue

-----------------------------------------------------------------------------
(* The sleep of idle threads *)

\* Periods that an int holds, in milliseconds: up to 24 days.
ShortPeriods == \A ms \in Periods : ms < 2^(IntBits - 1)

\* Unless the clock was set back, the period of every timer has begun.
Begun == setBack = 0 => \A k \in Timers : m_next[k] <= now + m_ms[k]

\* Where an idle thread that sleeps is, and for how long.
SleepTypes ==
    /\ until \in [Idlers -> Nat \union {Forever}]
    /\ m_tickled \in BOOLEAN /\ pipe \in BOOLEAN /\ tickling \in SUBSET Clients

\* Thread t wakes up in time for the first timer by its own timeout.
InTime(t) ==
    until[t] # Forever /\ (until[t] <= Front(m_timers) \/ until[t] <= now)

\* While all idle threads sleep m_tickled means that a byte is or will be in the
\* pipe, and otherwise some timeout is short enough.
SleepersTickled ==
    Idlers # {} /\ (\A t \in Idlers : ipc[t] = "asleep") =>
        /\ m_tickled => pipe \/ tickling # {}
        /\ m_timers # {} /\ setBack = 0 /\ ~ m_tickled => \E t \in Idlers : InTime(t)

\* A number an int holds is not changed by the conversion to int.
LEMMA ToIntFits ==
    ASSUME NEW x \in Nat, x < 2^(IntBits - 1)
    PROVE  ToInt(x) = x
<1>1. PICK half \in Nat : half = 2^(IntBits - 1) /\ x < half
  BY SleepAssumption
<1>2. (x + half) % (2 * half) = x + half
  BY <1>1
<1> QED BY <1>1, <1>2 DEF ToInt

\* Whatever the clock says, epoll_wait gets some number.
LEMMA TimeoutIsInt ==
    ASSUME LifeTypes, ClockTypes, TimeTypes
    PROVE  Timeout(NextTimer) \in Int
<1>1. MAX_TIMEOUT \in Nat /\ now \in Nat
  BY SleepAssumption DEF ClockTypes
<1>2. m_timers # {} => Front(m_timers) \in Nat
  BY FrontFacts DEF Front, TimeTypes, LifeTypes
<1>3. NextTimer \in Int
  BY <1>1, <1>2 DEF NextTimer, Forever
<1>4. ToInt(NextTimer) \in Int
  <2>1. PICK half \in Nat \ {0} : half = 2^(IntBits - 1)
    BY SleepAssumption
  <2> HIDE DEF NextTimer
  <2>2. (NextTimer + half) % (2 * half) \in Int
    BY <1>3, <2>1
  <2> QED BY <2>1, <2>2 DEF ToInt
<1> HIDE DEF NextTimer
<1> QED BY <1>1, <1>3, <1>4 DEF Timeout

\* Without a change of the clock idle() passes epoll_wait a timeout that ends no
\* later than the first timer is due, and within MAX_TIMEOUT.
LEMMA TimeoutFacts ==
    ASSUME LifeTypes, ClockTypes, TimeTypes, Begun, ShortPeriods, setBack = 0
    PROVE  /\ Timeout(NextTimer) \in 0..MAX_TIMEOUT
           /\ m_timers # {} => \/ now + Timeout(NextTimer) <= Front(m_timers)
                               \/ Timeout(NextTimer) = 0
<1>0. MAX_TIMEOUT \in Nat /\ now \in Nat
  BY SleepAssumption DEF ClockTypes
<1>1. CASE m_timers = {}
  BY <1>0, <1>1 DEF Timeout, NextTimer
<1>2. CASE m_timers # {}
  <2>1. PICK k \in m_timers : m_next[k] = Front(m_timers)
    BY <1>2, FrontFacts DEF Front, TimeTypes, LifeTypes
  <2>2. k \in Timers /\ m_ms[k] \in Nat /\ m_next[k] \in Nat
    BY DEF TimeTypes, LifeTypes
  <2>3. NextTimer = IF now >= m_next[k] THEN 0 ELSE m_next[k] - now
    BY <1>2, <2>1 DEF NextTimer
  <2>4. NextTimer \in Nat /\ NextTimer <= m_ms[k]
    BY <1>0, <2>2, <2>3 DEF Begun
  <2>5. NextTimer < 2^(IntBits - 1)
    <3>1. CASE m_ms[k] \in Periods
      BY <2>2, <2>4, <3>1, SleepAssumption DEF ShortPeriods
    <3>2. CASE m_ms[k] = 0
      BY <2>4, <3>2, SleepAssumption
    <3> QED BY <2>2, <3>1, <3>2 DEF TimeTypes
  <2>6. ToInt(NextTimer) = NextTimer
    BY <2>4, <2>5, ToIntFits
  <2>7. Timeout(NextTimer) = IF NextTimer > MAX_TIMEOUT THEN MAX_TIMEOUT ELSE NextTimer
    BY <2>4, <2>6 DEF Timeout, Forever
  <2> QED BY <1>0, <2>1, <2>2, <2>3, <2>4, <2>7
<1> QED BY <1>1, <1>2

\* Timers are created and changed with a period that begins now, or has begun.
LEMMA BegunStep ==
    ClockTypes /\ ReadingsRecent /\ TimeTypes /\ Begun /\ [Next]_vars => Begun'
<1> SUFFICES ASSUME ClockTypes, ReadingsRecent, TimeTypes, Begun, [Next]_vars,
                    setBack' = 0
             PROVE  \A k \in Timers : m_next'[k] <= now' + m_ms'[k]
  BY DEF Begun
<1> DEFINE Goal == \A k \in Timers : m_next'[k] <= now' + m_ms'[k]
<1> USE DEF clockVars, timerVars, clientVars, idleVars, histVars, ClockTypes, TimeTypes
<1>1. CASE UNCHANGED <<now, setBack, m_ms, m_next>>
  BY <1>1 DEF Begun
<1>2. CASE Tick
  BY <1>2 DEF Tick, Begun
<1>3. ASSUME NEW d \in 1..MaxBack, SetBack(d) PROVE Goal
  BY <1>3, ClockAssumption DEF SetBack
<1>4. ASSUME NEW c \in Clients, NEW k \in Timers, NEW ms \in Periods,
             Construct(c, k, ms)
      PROVE  Goal
  BY <1>4, SleepAssumption DEF Construct, Begun
<1>5. ASSUME NEW c \in Clients, NEW k \in Timers, NEW ms \in Periods,
             NEW from_now \in BOOLEAN, Reset(c, k, ms, from_now)
      PROVE  Goal
  BY <1>5, SleepAssumption DEF Reset, Begun
<1>6. ASSUME NEW t \in Idlers, ListExpired(t) PROVE Goal
  <2>1. /\ nowMs[t] <= now /\ UNCHANGED <<now, setBack, m_ms>>
        /\ \A k \in Timers : m_next'[k] = m_next[k] \/ m_next'[k] = nowMs[t] + m_ms[k]
    BY <1>6 DEF ListExpired, Expire, ReadingsRecent
  <2> QED BY <2>1 DEF Begun
<1>7. ASSUME NEW c \in Clients, AddTimer(c) \/ Tickle(c) PROVE Goal
  BY <1>1, <1>7 DEF AddTimer, Tickle
<1>8. ASSUME NEW t \in Idlers,
             EnterIdle(t) \/ Sleep(t) \/ Awake(t) \/ ListEmpty(t)
      PROVE  Goal
  BY <1>1, <1>8 DEF EnterIdle, Sleep, Awake, ListEmpty
<1>9. CASE (\E k \in Timers : Cancel(k) \/ Refresh(k)) \/ UNCHANGED vars
  BY <1>1, <1>9 DEF Cancel, Refresh, vars
<1> QED
  BY <1>2, <1>3, <1>4, <1>5, <1>6, <1>7, <1>8, <1>9
  DEF Next, Step, ClientStep, IdlerStep

\* The timeouts, the pipe and m_tickled keep their types.
LEMMA SleepTypesStep ==
    LifeTypes /\ ClockTypes /\ TimeTypes /\ SleepTypes /\ [Next]_vars => SleepTypes'
<1> SUFFICES ASSUME LifeTypes, ClockTypes, TimeTypes, SleepTypes, [Next]_vars
             PROVE  SleepTypes'
  OBVIOUS
<1> USE DEF clockVars, timerVars, clientVars, idleVars, histVars
<1>1. CASE UNCHANGED <<until, m_tickled, pipe, tickling>>
  BY <1>1 DEF SleepTypes
<1>2. ASSUME NEW c \in Clients, NEW k, NEW next, Insert(c, k, next),
             UNCHANGED <<until, pipe>>
      PROVE  SleepTypes'
  <2>1. m_tickled' \in BOOLEAN
    <3>1. \E first \in BOOLEAN : m_tickled' = (m_tickled \/ first)
      BY <1>2 DEF Insert
    <3> QED BY <3>1, Zenon
  <2>2. tickling' \in SUBSET Clients
    BY <1>2 DEF Insert, SleepTypes
  <2> QED BY <1>2, <2>1, <2>2 DEF SleepTypes
<1>3. ASSUME NEW c \in Clients, AddTimer(c) PROVE SleepTypes'
  BY <1>2, <1>3 DEF AddTimer
<1>4. ASSUME NEW c \in Clients, NEW k \in Timers, NEW ms \in Periods,
             NEW from_now \in BOOLEAN, Reset(c, k, ms, from_now)
      PROVE  SleepTypes'
  BY <1>2, <1>4 DEF Reset
<1>5. ASSUME NEW c \in Clients, Tickle(c) PROVE SleepTypes'
  <2>1. pipe' \in BOOLEAN
    <3>1. pipe' = (pipe \/ \E t \in Idlers : ipc[t] # "away")
      BY <1>5 DEF Tickle
    <3> QED BY <3>1, Zenon
  <2> QED BY <1>5, <2>1 DEF Tickle, SleepTypes
<1>6. ASSUME NEW t \in Idlers, Sleep(t) PROVE SleepTypes'
  <2>1. PICK timeout \in Int :
           until' = [until EXCEPT ![t] = IF timeout < 0 THEN Forever ELSE now + timeout]
    BY <1>6, TimeoutIsInt DEF Sleep
  <2>2. until' \in [Idlers -> Nat \union {Forever}]
    BY <2>1 DEF SleepTypes, ClockTypes
  <2> QED BY <1>6, <2>2 DEF Sleep, SleepTypes
<1>7. ASSUME NEW t \in Idlers, Awake(t) PROVE SleepTypes'
  <2>1. until' \in [Idlers -> Nat \union {Forever}]
    <3>1. until' = [until EXCEPT ![t] = 0]
      BY <1>7 DEF Awake
    <3> QED BY <3>1 DEF SleepTypes
  <2>2. pipe' \in BOOLEAN
    <3>1. pipe' = pipe \/ pipe' = FALSE
      BY <1>7 DEF Awake
    <3> QED BY <3>1, Zenon DEF SleepTypes
  <2> QED BY <1>7, <2>1, <2>2 DEF Awake, SleepTypes
<1>8. ASSUME NEW t \in Idlers, EnterIdle(t) \/ ListExpired(t) \/ ListEmpty(t)
      PROVE  SleepTypes'
  BY <1>1, <1>8 DEF EnterIdle, ListExpired, ListEmpty
<1>9. CASE Tick \/ (\E d \in 1..MaxBack : SetBack(d)) \/ UNCHANGED vars
           \/ (\E c \in Clients, k \in Timers, ms \in Periods : Construct(c, k, ms))
           \/ (\E k \in Timers : Cancel(k) \/ Refresh(k))
  BY <1>1, <1>9 DEF Tick, SetBack, Construct, Cancel, Refresh, vars
<1> QED
  BY <1>3, <1>4, <1>5, <1>6, <1>7, <1>8, <1>9 DEF Next, Step, ClientStep, IdlerStep

\* Inserting at the front tickles; inserting elsewhere, or taking a timer out,
\* does not bring the first timer forward.
LEMMA FrontLater ==
    ASSUME LifeTypes, TimeTypes, TimeTypes', LifeTypes', m_timers # {}, m_timers' # {},
           \A k \in m_timers' : \E j \in m_timers : m_next[j] <= m_next'[k]
    PROVE  /\ Front(m_timers) <= Front(m_timers)'
           /\ Front(m_timers) \in Nat /\ Front(m_timers)' \in Nat
<1>1. /\ \A k \in m_timers : m_next[k] \in Nat
      /\ \A k \in m_timers' : m_next'[k] \in Nat
  BY DEF TimeTypes, LifeTypes
<1>2. Front(m_timers) \in Nat /\ \A k \in m_timers : Front(m_timers) <= m_next[k]
  BY <1>1, FrontFacts DEF Front
<1>3. PICK k \in m_timers' : m_next'[k] = Front(m_timers)'
  BY <1>1, FrontFacts DEF Front
<1> QED BY <1>1, <1>2, <1>3

\* With all idle threads asleep, a step that leaves them, the clock and the pipe
\* alone and inserts no timer keeps them in time.
LEMMA StillInTime ==
    ASSUME LifeTypes, LifeTypes', TimeTypes, TimeTypes', ClockTypes, SleepTypes,
           SleepersTickled, now' \in Nat, setBack' = 0 => setBack = 0 /\ now <= now',
           UNCHANGED <<ipc, until>>, m_tickled' = m_tickled,
           pipe => pipe', tickling # {} => tickling' # {} \/ pipe',
           m_timers' # {} => m_timers # {},
           \A k \in m_timers' : \E j \in m_timers : m_next[j] <= m_next'[k]
    PROVE  SleepersTickled'
<1> SUFFICES ASSUME Idlers # {}, \A t \in Idlers : ipc[t] = "asleep"
             PROVE  /\ m_tickled' => pipe' \/ tickling' # {}
                    /\ m_timers' # {} /\ setBack' = 0 /\ ~ m_tickled' =>
                          \E t \in Idlers : InTime(t)'
  BY DEF SleepersTickled
<1>1. m_tickled' => pipe' \/ tickling' # {}
  BY DEF SleepersTickled
<1>2. ASSUME m_timers' # {}, setBack' = 0, ~ m_tickled'
      PROVE  \E t \in Idlers : InTime(t)'
  <2>1. PICK t \in Idlers : InTime(t)
    BY <1>2 DEF SleepersTickled
  <2>2. /\ Front(m_timers) <= Front(m_timers)'
        /\ Front(m_timers) \in Nat /\ Front(m_timers)' \in Nat
    BY <1>2, FrontLater
  <2>3. until'[t] = until[t] /\ (until[t] \in Nat \/ until[t] = Forever)
    BY DEF SleepTypes
  <2>4. InTime(t)'
    BY <1>2, <2>1, <2>2, <2>3 DEF InTime, ClockTypes
  <2> QED BY <2>4
<1> QED BY <1>1, <1>2

\* Insert either tickles, or leaves the first timer where it is.
LEMMA InsertTickles ==
    ASSUME NEW c \in Clients, NEW k \in Timers, NEW next \in Nat, Insert(c, k, next),
           LifeTypes, LifeTypes', TimeTypes, TimeTypes', ClockTypes, SleepTypes,
           m_next' = [m_next EXCEPT ![k] = next],
           SleepersTickled, UNCHANGED <<clockVars, ipc, until, pipe>>
    PROVE  SleepersTickled'
<1>1. PICK first \in BOOLEAN :
          /\ first => IsFront(k, next, m_timers)
          /\ (\A j \in m_timers \ {k} : next < m_next[j]) => first
          /\ m_tickled' = (m_tickled \/ first)
          /\ tickling' = IF first /\ ~ m_tickled THEN tickling \union {c} ELSE tickling
  BY DEF Insert
<1>2. m_timers' = m_timers \union {k}
  BY DEF Insert
<1>3. CASE first
  <2>1. m_tickled' /\ tickling \subseteq tickling' /\ (~ m_tickled => c \in tickling')
    BY <1>1, <1>3
  <2> QED BY <2>1 DEF SleepersTickled
<1>4. CASE ~ first
  <2>1. m_tickled' = m_tickled /\ tickling' = tickling
    BY <1>1, <1>4 DEF SleepTypes
  <2>2. PICK j \in m_timers \ {k} : ~ (next < m_next[j])
    BY <1>1, <1>4
  <2>3. m_next[j] <= next
    BY <2>2 DEF TimeTypes, LifeTypes
  <2>4. \A i \in m_timers' : \E h \in m_timers : m_next[h] <= m_next'[i]
    BY <1>2, <2>2, <2>3 DEF TimeTypes, LifeTypes
  <2>5. now' \in Nat /\ now <= now' /\ setBack' = setBack
    BY DEF ClockTypes, clockVars
  <2> QED BY <2>1, <2>2, <2>4, <2>5, StillInTime
<1> QED BY <1>3, <1>4

\* Every step keeps the sleep of the idle threads short and in time.
LEMMA SleepStep ==
    ASSUME ShortPeriods
    PROVE  /\ LifeCycle /\ ClockTypes /\ TimeTypes /\ Begun
           /\ SleepTypes /\ BoundedSleep /\ SleepersTickled
           /\ LifeTypes' /\ ClockTypes' /\ TimeTypes' /\ SleepTypes'
           /\ [Next]_vars
           => BoundedSleep' /\ SleepersTickled'
<1> SUFFICES ASSUME LifeCycle, LifeTypes, ClockTypes, TimeTypes, Begun, SleepTypes,
                    BoundedSleep, SleepersTickled, LifeTypes', ClockTypes',
                    TimeTypes', SleepTypes', [Next]_vars
             PROVE  BoundedSleep' /\ SleepersTickled'
  BY DEF LifeCycle
<1> DEFINE Goal == BoundedSleep' /\ SleepersTickled'
<1> USE DEF clockVars, timerVars, clientVars, idleVars, histVars
<1>0. MAX_TIMEOUT \in Nat
  BY SleepAssumption
<1>1. ASSUME UNCHANGED <<ipc, until>>, setBack' = 0 => setBack = 0 /\ now <= now'
      PROVE  BoundedSleep'
  BY <1>0, <1>1 DEF BoundedSleep, ClockTypes, SleepTypes
<1>2. CASE Tick \/ (\E d \in 1..MaxBack : SetBack(d))
  <2>1. /\ UNCHANGED <<ipc, until, m_tickled, pipe, tickling, m_timers, m_next>>
        /\ setBack' = 0 => setBack = 0 /\ now <= now'
    BY <1>2, ClockAssumption DEF Tick, SetBack, ClockTypes
  <2>2. \A k \in m_timers' : \E j \in m_timers : m_next[j] <= m_next'[k]
    BY <2>1 DEF TimeTypes, LifeTypes
  <2>3. now' \in Nat
    BY DEF ClockTypes
  <2> QED BY <1>1, <2>1, <2>2, <2>3, StillInTime
<1>3. ASSUME NEW c \in Clients, NEW k \in Timers, NEW ms \in Periods,
             Construct(c, k, ms)
      PROVE  Goal
  <2>1. /\ UNCHANGED <<now, setBack, ipc, until, m_tickled, pipe, tickling, m_timers>>
        /\ m_next' = [m_next EXCEPT ![k] = now + ms]
        /\ status[k] = "none"
    BY <1>3 DEF Construct
  <2>2. k \notin m_timers
    BY <2>1 DEF LifeCycle, Unshared
  <2>3. \A i \in m_timers' : \E j \in m_timers : m_next[j] <= m_next'[i]
    BY <2>1, <2>2 DEF TimeTypes, LifeTypes
  <2>4. now' \in Nat /\ now <= now'
    BY <2>1 DEF ClockTypes
  <2> QED BY <1>1, <2>1, <2>3, <2>4, StillInTime
<1>4. ASSUME NEW c \in Clients, AddTimer(c) PROVE Goal
  <2> DEFINE k == builder[c]
  <2>1. /\ k \in Timers /\ m_next[k] \in Nat
        /\ Insert(c, k, m_next[k])
        /\ m_next' = [m_next EXCEPT ![k] = m_next[k]]
        /\ UNCHANGED <<clockVars, ipc, until, pipe>>
    BY <1>4 DEF AddTimer, LifeTypes, TimeTypes
  <2>2. BoundedSleep'
    BY <1>1, <2>1 DEF ClockTypes
  <2> HIDE DEF k
  <2> QED BY <2>1, <2>2, InsertTickles
<1>5. ASSUME NEW c \in Clients, NEW k \in Timers, NEW ms \in Periods,
             NEW from_now \in BOOLEAN, Reset(c, k, ms, from_now)
      PROVE  Goal
  <2>1. PICK next : /\ Insert(c, k, next)
                    /\ m_next' = [m_next EXCEPT ![k] = next]
                    /\ UNCHANGED <<clockVars, ipc, until, pipe>>
    BY <1>5 DEF Reset
  <2>2. next \in Nat
    BY <2>1 DEF TimeTypes
  <2>3. BoundedSleep'
    BY <1>1, <2>1 DEF ClockTypes
  <2> QED BY <2>1, <2>2, <2>3, InsertTickles
<1>6. ASSUME NEW c \in Clients, Tickle(c) PROVE Goal
  <2>1. /\ UNCHANGED <<now, setBack, ipc, until, m_tickled, m_timers, m_next>>
        /\ pipe' = (pipe \/ \E t \in Idlers : ipc[t] # "away")
        /\ tickling' = tickling \ {c}
    BY <1>6 DEF Tickle
  <2>2. SleepersTickled'
    <3> SUFFICES ASSUME Idlers # {}, \A t \in Idlers : ipc[t] = "asleep"
                 PROVE  SleepersTickled'
      BY <2>1 DEF SleepersTickled
    <3>1. pipe'
      <4>1. \E t \in Idlers : ipc[t] # "away"
        OBVIOUS
      <4> QED BY <2>1, <4>1
    <3>2. \A i \in m_timers' : \E j \in m_timers : m_next[j] <= m_next'[i]
      BY <2>1 DEF TimeTypes, LifeTypes
    <3>3. now' \in Nat /\ now <= now'
      BY <2>1 DEF ClockTypes
    <3> QED BY <2>1, <3>1, <3>2, <3>3, StillInTime
  <2> QED BY <1>1, <2>1, <2>2 DEF ClockTypes
<1>7. ASSUME NEW k \in Timers, Cancel(k) PROVE Goal
  <2>1. /\ UNCHANGED <<now, setBack, ipc, until, m_tickled, pipe, tickling, m_next>>
        /\ m_timers' = m_timers \ {k}
    BY <1>7 DEF Cancel
  <2>2. \A i \in m_timers' : \E j \in m_timers : m_next[j] <= m_next'[i]
    BY <2>1 DEF TimeTypes, LifeTypes
  <2>3. now' \in Nat /\ now <= now'
    BY <2>1 DEF ClockTypes
  <2> QED BY <1>1, <2>1, <2>2, <2>3, StillInTime
<1>8. ASSUME NEW t \in Idlers, Sleep(t) PROVE Goal
  <2> DEFINE timeout == Timeout(NextTimer)
  <2>1. /\ m_tickled' = FALSE
        /\ ipc' = [ipc EXCEPT ![t] = "asleep"]
        /\ until' = [until EXCEPT ![t] = IF timeout < 0 THEN Forever ELSE now + timeout]
        /\ UNCHANGED <<now, setBack, m_timers, m_next, tickling, pipe>>
    BY <1>8 DEF Sleep
  <2>2. setBack = 0 => /\ timeout \in 0..MAX_TIMEOUT
                       /\ m_timers # {} => \/ now + timeout <= Front(m_timers)
                                           \/ timeout = 0
    BY TimeoutFacts
  <2> HIDE DEF timeout
  <2>3. setBack = 0 => until'[t] = now + timeout /\ until'[t] # Forever
    BY <1>0, <2>1, <2>2 DEF SleepTypes, ClockTypes, Forever
  <2>4. BoundedSleep'
    BY <1>0, <2>1, <2>2, <2>3 DEF BoundedSleep, SleepTypes, ClockTypes
  <2>5. Front(m_timers)' = Front(m_timers)
    BY <2>1 DEF Front
  <2>6. m_timers # {} /\ setBack = 0 => InTime(t)'
    BY <1>0, <2>1, <2>2, <2>3, <2>5 DEF InTime, ClockTypes
  <2>7. SleepersTickled'
    BY <2>1, <2>6 DEF SleepersTickled
  <2> QED BY <2>4, <2>7
<1>9. ASSUME NEW t \in Idlers, EnterIdle(t) \/ Awake(t) \/ ListExpired(t) \/ ListEmpty(t)
      PROVE  Goal
  <2>1. /\ \A u \in Idlers : u # t => ipc'[u] = ipc[u] /\ until'[u] = until[u]
        /\ ipc'[t] # "asleep"
        /\ UNCHANGED <<now, setBack, m_tickled, tickling>>
    BY <1>9 DEF EnterIdle, Awake, ListExpired, ListEmpty, ClockTypes, SleepTypes
  <2>2. BoundedSleep'
    BY <2>1 DEF BoundedSleep
  <2>3. SleepersTickled'
    BY <2>1 DEF SleepersTickled
  <2> QED BY <2>2, <2>3
<1>10. CASE (\E k \in Timers : Refresh(k)) \/ UNCHANGED vars
  <2>1. UNCHANGED vars
    BY <1>10 DEF Refresh
  <2> QED BY <2>1 DEF vars, BoundedSleep, SleepersTickled, InTime, Front
<1> QED
  BY <1>2, <1>3, <1>4, <1>5, <1>6, <1>7, <1>8, <1>9, <1>10
  DEF Next, Step, ClientStep, IdlerStep

\* At first every thread is away and no byte is in the pipe.
LEMMA SleepInit == Init => Begun /\ SleepTypes /\ BoundedSleep /\ SleepersTickled
<1> SUFFICES ASSUME Init PROVE Begun /\ SleepTypes /\ BoundedSleep /\ SleepersTickled
  OBVIOUS
<1>1. Begun
  BY ClockAssumption DEF Init, Begun
<1>2. SleepTypes
  <2>1. m_tickled \in BOOLEAN /\ pipe \in BOOLEAN
    BY Zenon DEF Init
  <2> QED BY <2>1 DEF Init, SleepTypes
<1>3. BoundedSleep /\ SleepersTickled
  BY DEF Init, BoundedSleep, SleepersTickled
<1> QED BY <1>1, <1>2, <1>3

\* The sleep of the idle threads, as an invariant.
LEMMA SleepInvariant ==
    ASSUME ShortPeriods
    PROVE  Spec => [](/\ LifeCycle /\ ClockTypes /\ ReadingsRecent /\ TimeTypes
                      /\ Begun /\ SleepTypes /\ BoundedSleep /\ SleepersTickled)
<1> DEFINE Base1 == LifeCycle /\ ClockTypes /\ ReadingsRecent /\ TimeTypes
           Slept == Begun /\ SleepTypes /\ BoundedSleep /\ SleepersTickled
<1>1. Init => Slept
  BY SleepInit
<1>2. Base1 /\ Base1' /\ Slept /\ [Next]_vars => Slept'
  <2>1. (Base1 => LifeTypes) /\ (Base1' => LifeTypes' /\ ClockTypes' /\ TimeTypes')
    BY DEF LifeCycle
  <2> QED BY <2>1, BegunStep, SleepTypesStep, SleepStep
<1> QED BY <1>1, <1>2, TimesInvariant, PTL DEF Spec

\* For periods that an int holds, no idle thread sleeps longer than MAX_TIMEOUT,
\* as long as the clock is not set back.
THEOREM SleepIsBounded ==
    ASSUME ShortPeriods
    PROVE  Spec => []BoundedSleep
  BY SleepInvariant, PTL

\* And when all of them sleep, one of them wakes up in time for the first timer:
\* m_tickled, cleared by any thread that computes its timeout, has not suppressed
\* the tickle for a timer that came to the front while they all slept.
THEOREM NobodyOversleeps ==
    ASSUME ShortPeriods
    PROVE  Spec => []NoOversleep
<1>1. SleepTypes /\ SleepersTickled => NoOversleep
  BY DEF SleepTypes, SleepersTickled, NoOversleep, InTime
<1> QED BY <1>1, SleepInvariant, PTL

-----------------------------------------------------------------------------
(* Types *)

\* The remaining variables.
RestTypes ==
    /\ SleepTypes /\ fired \in [Timers -> 0..2] /\ crashed \in BOOLEAN

\* They keep their types, with clocks and periods of any size.
LEMMA RestStep ==
    LifeTypes /\ ClockTypes /\ TimeTypes /\ RestTypes /\ [Next]_vars => RestTypes'
<1> SUFFICES ASSUME LifeTypes, ClockTypes, TimeTypes, RestTypes, [Next]_vars
             PROVE  RestTypes'
  OBVIOUS
<1> USE DEF clockVars, timerVars, clientVars, idleVars, histVars
<1>1. crashed' \in BOOLEAN
  <2>1. crashed' = crashed \/ crashed' \in {FALSE} \/ crashed' \in BOOLEAN
    BY ZenonT(40) DEF Next, Step, vars, Tick, SetBack, ClientStep, Construct, AddTimer,
         Tickle, Reset, Cancel, Refresh, IdlerStep, EnterIdle, Sleep, Awake, ListExpired,
         ListEmpty
  <2> QED BY <2>1, Zenon DEF RestTypes
<1>2. fired' \in [Timers -> 0..2]
  <2>1. fired' = fired \/ fired' = [k \in Timers |-> fired'[k]]
    BY ZenonT(40) DEF Next, Step, vars, Tick, SetBack, ClientStep, Construct, AddTimer,
         Tickle, Reset, Cancel, Refresh, IdlerStep, EnterIdle, Sleep, Awake, ListExpired,
         ListEmpty, Expire
  <2>2. fired' = fired \/ \A k \in Timers : fired'[k] = fired[k]
                            \/ (fired[k] < 2 /\ fired'[k] = fired[k] + 1)
    BY ZenonT(40) DEF Next, Step, vars, Tick, SetBack, ClientStep, Construct, AddTimer,
         Tickle, Reset, Cancel, Refresh, IdlerStep, EnterIdle, Sleep, Awake, ListExpired,
         ListEmpty, Expire
  <2>3. \A k \in Timers : fired'[k] \in 0..2
    BY <2>2 DEF RestTypes
  <2> QED BY <2>1, <2>3 DEF RestTypes
<1>3. SleepTypes'
  BY SleepTypesStep DEF RestTypes
<1> QED BY <1>1, <1>2, <1>3 DEF RestTypes

\* Type correctness, for timers of any length and clocks set back by less than
\* they show: none of the unsigned times falls below zero.
THEOREM TypeCorrect == Spec => []TypeOK
<1>1. Init => RestTypes
  <2> SUFFICES ASSUME Init PROVE RestTypes
    OBVIOUS
  <2>1. crashed \in BOOLEAN
    BY Zenon DEF Init
  <2>2. fired \in [Timers -> 0..2]
    BY DEF Init
  <2> QED BY <2>1, <2>2, SleepInit DEF RestTypes
<1>2. LifeCycle /\ ClockTypes /\ TimeTypes /\ RestTypes /\ [Next]_vars => RestTypes'
  BY RestStep DEF LifeCycle
<1>3. LifeCycle /\ ClockTypes /\ TimeTypes /\ RestTypes => TypeOK
  BY DEF LifeCycle, LifeTypes, ClockTypes, TimeTypes, RestTypes, SleepTypes, TypeOK
<1> QED BY <1>1, <1>2, <1>3, TimesInvariant, PTL DEF Spec
=============================================================================
