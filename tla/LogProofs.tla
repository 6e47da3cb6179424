------------------------------- MODULE LogProofs -------------------------------
(***************************************************************************)
(* Proofs about Config and Log, for any number of loggers, threads,        *)
(* definitions and patterns.                                               *)
(***************************************************************************)
EXTENDS Log, SequenceTheorems, TLAPS

-----------------------------------------------------------------------------
(* The lock of the variable *)

\* Setters that call listeners hold the read lock, and no others.
ReadLock ==
    /\ readers \subseteq Setters
    /\ at \in [Setters -> {"out", "notify", "store"}]
    /\ todo \in [Setters -> SUBSET Listeners]
    /\ m_cbs \subseteq Listeners
    /\ cut \subseteq readers
    /\ \A s \in Setters : /\ s \in readers <=> at[s] = "notify"
                          /\ at[s] # "notify" => todo[s] = {}

\* What a step does to the variable.
ConfigStep ==
    \/ UNCHANGED configVars
    \/ \E s \in Setters, v \in Values : SetValue(s, v)
    \/ \E s \in Setters : Unlock(s) \/ Store(s)
    \/ \E s \in Setters, l \in Listeners : Heard(s, l)
    \/ \E l \in Listeners : AddListener(l) \/ DelListener(l)
    \/ \E r : ClearListener(r)

LEMMA ConfigSteps ==
    ASSUME ReadLock, [Next]_vars
    PROVE  ConfigStep
<1>1. ASSUME NEW s \in Setters, ListenerStep(s) PROVE ConfigStep
  <2>1. UNCHANGED configVars \/ \E l : Heard(s, l)
    BY <1>1 DEF ListenerStep, ListenerBegin, ListenerLevel, ListenerFormat, ListenerClear,
       ListenerAdd, ListenerOff, ListenerOffClear, ListenerEnd, OtherListener
  <2>2. ASSUME NEW l, Heard(s, l) PROVE l \in Listeners
    BY <2>2 DEF Heard, ReadLock
  <2>3. QED
    BY <2>1, <2>2 DEF ConfigStep
<1>2. ASSUME NEW s \in Setters, SetterStep(s) PROVE ConfigStep
  BY <1>1, <1>2 DEF SetterStep, ConfigStep
<1>3. ASSUME \/ \E w \in Writers : WriterStep(w)
             \/ \E w \in Writers, g \in Loggers, level \in Levels \ {0} : LogBegin(w, g, level)
             \/ \E g \in Loggers : Edit(g)
             \/ UNCHANGED vars
      PROVE  UNCHANGED configVars
  BY <1>3 DEF WriterStep, LogBegin, LogEnter, LogRoot, LogWrite, LogEnd, Edit, vars
<1>4. ASSUME Register PROVE ConfigStep
  BY <1>4 DEF Register, ConfigStep
<1>5. QED
  BY <1>2, <1>3, <1>4 DEF Next, ConfigStep

LEMMA ReadLockStep ==
    ASSUME ReadLock, ConfigStep
    PROVE  ReadLock'
<1> USE DEF ReadLock
<1>1. ASSUME UNCHANGED configVars PROVE ReadLock'
  BY <1>1 DEF configVars
<1>2. ASSUME NEW s \in Setters, NEW v \in Values, SetValue(s, v) PROVE ReadLock'
  BY <1>2 DEF SetValue
<1>3. ASSUME NEW s \in Setters, Unlock(s) PROVE ReadLock'
  BY <1>3 DEF Unlock
<1>4. ASSUME NEW s \in Setters, Store(s) PROVE ReadLock'
  BY <1>4 DEF Store
<1>5. ASSUME NEW s \in Setters, NEW l \in Listeners, Heard(s, l) PROVE ReadLock'
  BY <1>5 DEF Heard
<1>6. ASSUME NEW l \in Listeners, AddListener(l) \/ DelListener(l) PROVE ReadLock'
  BY <1>6 DEF AddListener, DelListener
<1>7. ASSUME NEW r, ClearListener(r) PROVE ReadLock'
  BY <1>7 DEF ClearListener
<1>8. QED
  BY <1>1, <1>2, <1>3, <1>4, <1>5, <1>6, <1>7 DEF ConfigStep

LEMMA ReadLockInit == Init => ReadLock
  BY ConfigAssumption DEF Init, ConfigInit, ReadLock

LEMMA ReadLockInvariant == Spec => []ReadLock
  BY ReadLockInit, ReadLockStep, ConfigSteps, PTL DEF Spec

\* No setter has still to call a listener that is no longer registered, for any number
\* of setters and listeners, whatever addListener, delListener and the setters do; only
\* a setter in whose loop clearListener has come, without a lock, may.
THEOREM ListenersRegistered == Spec => []OnlyRegisteredCalled
<1>1. Init => OnlyRegisteredCalled
  BY DEF Init, ConfigInit, OnlyRegisteredCalled
<1>2. ASSUME ReadLock, ConfigStep, OnlyRegisteredCalled PROVE OnlyRegisteredCalled'
  <2> USE DEF ReadLock, OnlyRegisteredCalled
  <2>1. ASSUME UNCHANGED configVars PROVE OnlyRegisteredCalled'
    BY <1>2, <2>1 DEF configVars
  <2>2. ASSUME NEW s \in Setters, NEW v \in Values, SetValue(s, v) PROVE OnlyRegisteredCalled'
    BY <1>2, <2>2 DEF SetValue
  <2>3. ASSUME NEW s \in Setters, Unlock(s) \/ Store(s) PROVE OnlyRegisteredCalled'
    BY <1>2, <2>3 DEF Unlock, Store
  <2>4. ASSUME NEW s \in Setters, NEW l \in Listeners, Heard(s, l) PROVE OnlyRegisteredCalled'
    BY <1>2, <2>4 DEF Heard
  <2>5. ASSUME readers = {}, todo' = todo PROVE OnlyRegisteredCalled'
    BY <1>2, <2>5
  <2>6. ASSUME NEW l \in Listeners, AddListener(l) \/ DelListener(l) PROVE OnlyRegisteredCalled'
    BY <2>5, <2>6 DEF AddListener, DelListener
  <2>7. ASSUME NEW r, ClearListener(r) PROVE OnlyRegisteredCalled'
    <3>1. ASSUME NEW s \in Setters, s \notin cut' PROVE todo'[s] = {}
      BY <2>7, <3>1 DEF ClearListener
    <3>2. QED
      BY <3>1
  <2>8. QED
    BY <1>2, <2>1, <2>2, <2>3, <2>4, <2>6, <2>7 DEF ConfigStep
<1>3. QED
  BY <1>1, <1>2, ReadLockInvariant, ConfigSteps, PTL DEF Spec

-----------------------------------------------------------------------------
(* What an operation does to the appenders of a logger *)

LEMMA FunctionIsSeq ==
    ASSUME NEW S, NEW n \in Nat, NEW s \in [1 .. n -> S]
    PROVE  s \in Seq(S) /\ Len(s) = n /\ DOMAIN s = 1 .. n
<1>1. s \in Seq(S)
  BY SeqDef
<1>2. Len(s) \in Nat /\ DOMAIN s = 1 .. Len(s) /\ DOMAIN s = 1 .. n
  BY <1>1, LenProperties
<1>3. Len(s) = n
  BY <1>2
<1>4. QED
  BY <1>1, <1>2, <1>3

\* The types of what belongs to a logger.
LoggerTypes ==
    /\ m_formatter \in [Loggers -> Valid]
    /\ m_appenders \in [Loggers -> Seq(Appender)]

LEMMA ListTypes ==
    ASSUME LoggerTypes, NEW g \in Loggers
    PROVE  /\ m_appenders[g] \in Seq(Appender) /\ Len(m_appenders[g]) \in Nat
           /\ DOMAIN m_appenders[g] = 1 .. Len(m_appenders[g])
           /\ \A i \in 1 .. Len(m_appenders[g]) : m_appenders[g][i] \in Appender
<1>1. m_appenders[g] \in Seq(Appender)
  BY DEF LoggerTypes
<1>2. QED
  BY <1>1, LenProperties, ElementOfSeq

\* Only the appenders without a formatter of their own are touched.
LEMMA Formatted ==
    ASSUME LoggerTypes, NEW g \in Loggers, NEW p, SetFormatter(g, p), p \in Valid
    PROVE  /\ LoggerTypes' /\ Free(g)
           /\ m_formatter' = [m_formatter EXCEPT ![g] = p]
           /\ \A h \in Loggers : h # g => m_appenders'[h] = m_appenders[h]
           /\ Len(m_appenders'[g]) = Len(m_appenders[g])
           /\ DOMAIN m_appenders'[g] = DOMAIN m_appenders[g]
           /\ \A i \in DOMAIN m_appenders[g] :
                 /\ m_appenders'[g][i].id = m_appenders[g][i].id
                 /\ m_appenders'[g][i].has = m_appenders[g][i].has
                 /\ m_appenders'[g][i].formatter =
                       IF m_appenders[g][i].has THEN m_appenders[g][i].formatter ELSE p
<1> DEFINE s == m_appenders[g]
           new == [i \in DOMAIN s |-> IF s[i].has THEN s[i] ELSE [s[i] EXCEPT !.formatter = p]]
<1>1. /\ s \in Seq(Appender) /\ Len(s) \in Nat /\ DOMAIN s = 1 .. Len(s)
      /\ \A i \in 1 .. Len(s) : s[i] \in Appender
  BY ListTypes
<1>2. /\ m_appenders' = [m_appenders EXCEPT ![g] = new]
      /\ m_formatter' = [m_formatter EXCEPT ![g] = p] /\ Free(g)
  BY DEF SetFormatter
<1>3. p \in Patterns
  BY LogAssumption
<1>4. ASSUME NEW i \in 1 .. Len(s)
      PROVE  /\ new[i] \in Appender /\ new[i].id = s[i].id /\ new[i].has = s[i].has
             /\ new[i].formatter = IF s[i].has THEN s[i].formatter ELSE p
  <2>1. s[i] \in Appender /\ new[i] = IF s[i].has THEN s[i] ELSE [s[i] EXCEPT !.formatter = p]
    BY <1>1
  <2> HIDE DEF new, s
  <2>2. QED
    BY <1>3, <2>1 DEF Appender
<1>5. new \in [1 .. Len(s) -> Appender]
  BY <1>1, <1>4
<1>6. new \in Seq(Appender) /\ Len(new) = Len(s) /\ DOMAIN new = 1 .. Len(s)
  BY <1>1, <1>5, FunctionIsSeq
<1>7. m_appenders'[g] = new /\ \A h \in Loggers : h # g => m_appenders'[h] = m_appenders[h]
  BY <1>2 DEF LoggerTypes
<1> HIDE DEF new
<1>8. LoggerTypes'
  BY <1>2, <1>6 DEF LoggerTypes
<1>9. QED
  BY <1>1, <1>2, <1>4, <1>6, <1>7, <1>8

\* The list gets one more appender, at its end.
LEMMA Appended ==
    ASSUME LoggerTypes, NEW g \in Loggers, NEW id \in {1, 2, Own}, NEW p \in Valid \union {None},
           AddAppender(g, id, p), UNCHANGED m_formatter
    PROVE  /\ LoggerTypes' /\ Free(g)
           /\ \A h \in Loggers : h # g => m_appenders'[h] = m_appenders[h]
           /\ Len(m_appenders'[g]) = Len(m_appenders[g]) + 1
           /\ \A i \in 1 .. Len(m_appenders[g]) : m_appenders'[g][i] = m_appenders[g][i]
           /\ m_appenders'[g][Len(m_appenders[g]) + 1].id = id
           /\ m_appenders'[g][Len(m_appenders[g]) + 1].has <=> p # None
           /\ m_appenders'[g][Len(m_appenders[g]) + 1].formatter =
                 IF p # None THEN p ELSE m_formatter[g]
<1> DEFINE s == m_appenders[g]
           x == [id |-> id, has |-> p # None,
                 formatter |-> IF p # None THEN p ELSE m_formatter[g]]
<1>1. s \in Seq(Appender)
  BY ListTypes
<1>2. x \in Appender
  <2>1. (p # None) \in BOOLEAN /\ (IF p # None THEN p ELSE m_formatter[g]) \in Patterns
    BY LogAssumption DEF LoggerTypes
  <2>2. QED
    BY <2>1 DEF Appender
<1>3. Free(g) /\ m_appenders' = [m_appenders EXCEPT ![g] = Append(s, x)]
  BY DEF AddAppender
<1>4. x.has <=> p # None
  BY Zenon
<1>5. x.id = id /\ x.formatter = IF p # None THEN p ELSE m_formatter[g]
  OBVIOUS
<1> HIDE DEF x
<1>6. /\ Append(s, x) \in Seq(Appender) /\ Len(Append(s, x)) = Len(s) + 1
      /\ \A i \in 1 .. Len(s) : Append(s, x)[i] = s[i]
      /\ Append(s, x)[Len(s) + 1] = x
  BY <1>1, <1>2, AppendProperties
<1>7. /\ m_appenders'[g] = Append(s, x)
      /\ \A h \in Loggers : h # g => m_appenders'[h] = m_appenders[h]
  BY <1>3 DEF LoggerTypes
<1>8. LoggerTypes'
  BY <1>3, <1>6 DEF LoggerTypes
<1>9. QED
  BY <1>3, <1>4, <1>5, <1>6, <1>7, <1>8

\* One place is erased; what stood behind it moves up.
LEMMA Deleted ==
    ASSUME LoggerTypes, NEW g \in Loggers, NEW id, DelAppender(g, id), UNCHANGED m_formatter
    PROVE  /\ LoggerTypes' /\ Free(g)
           /\ \A h \in Loggers : h # g => m_appenders'[h] = m_appenders[h]
           /\ \/ UNCHANGED m_appenders
              \/ \E i \in 1 .. Len(m_appenders[g]) :
                    /\ m_appenders[g][i].id = id
                    /\ Len(m_appenders'[g]) = Len(m_appenders[g]) - 1
                    /\ \A j \in 1 .. Len(m_appenders[g]) - 1 : m_appenders'[g][j] =
                          IF j < i THEN m_appenders[g][j] ELSE m_appenders[g][j + 1]
<1>1. CASE UNCHANGED m_appenders
  BY <1>1 DEF LoggerTypes, DelAppender
<1>2. ASSUME NEW i \in DOMAIN m_appenders[g], m_appenders[g][i].id = id,
             m_appenders' = [m_appenders EXCEPT ![g] =
                [j \in 1 .. Len(@) - 1 |-> IF j < i THEN @[j] ELSE @[j + 1]]]
      PROVE  /\ LoggerTypes' /\ Free(g)
             /\ \A h \in Loggers : h # g => m_appenders'[h] = m_appenders[h]
             /\ \/ UNCHANGED m_appenders
                \/ \E k \in 1 .. Len(m_appenders[g]) :
                      /\ m_appenders[g][k].id = id
                      /\ Len(m_appenders'[g]) = Len(m_appenders[g]) - 1
                      /\ \A j \in 1 .. Len(m_appenders[g]) - 1 : m_appenders'[g][j] =
                            IF j < k THEN m_appenders[g][j] ELSE m_appenders[g][j + 1]
  <2> DEFINE s == m_appenders[g]
             n == Len(s)
             new == [j \in 1 .. n - 1 |-> IF j < i THEN s[j] ELSE s[j + 1]]
  <2>1. /\ n \in Nat /\ DOMAIN s = 1 .. n /\ i \in 1 .. n
        /\ \A j \in 1 .. n : s[j] \in Appender
    BY ListTypes
  <2>2. n - 1 \in Nat /\ \A j \in 1 .. n - 1 : j \in 1 .. n /\ j + 1 \in 1 .. n
    BY <2>1
  <2>3. new \in [1 .. n - 1 -> Appender]
    BY <2>1, <2>2
  <2>4. new \in Seq(Appender) /\ Len(new) = n - 1
    BY <2>2, <2>3, FunctionIsSeq
  <2>5. /\ m_appenders' = [m_appenders EXCEPT ![g] = new] /\ Free(g)
        /\ m_appenders'[g] = new
        /\ \A h \in Loggers : h # g => m_appenders'[h] = m_appenders[h]
    BY <1>2 DEF LoggerTypes, DelAppender
  <2>6. \A j \in 1 .. n - 1 : new[j] = IF j < i THEN s[j] ELSE s[j + 1]
    OBVIOUS
  <2>7. LoggerTypes'
    BY <2>4, <2>5 DEF LoggerTypes
  <2> HIDE DEF new
  <2>8. QED
    BY <1>2, <2>1, <2>4, <2>5, <2>6, <2>7
<1>3. QED
  BY <1>1, <1>2 DEF DelAppender

LEMMA Cleared ==
    ASSUME LoggerTypes, NEW g \in Loggers, ClearAppenders(g), UNCHANGED m_formatter
    PROVE  /\ LoggerTypes' /\ Free(g)
           /\ m_appenders'[g] = <<>>
           /\ \A h \in Loggers : h # g => m_appenders'[h] = m_appenders[h]
<1>1. <<>> \in Seq(Appender)
  BY EmptySeq
<1>2. QED
  BY <1>1 DEF LoggerTypes, ClearAppenders

-----------------------------------------------------------------------------
(* The listener *)

Jobs == [step : {"none", "next", "format", "clear", "add", "off"},
         names : SUBSET Names, gone : SUBSET Names, name : Names \union {None}, add : Nat]

\* The listener runs while its setter has it still to finish; it applies definitions
\* that are there.
JobShape ==
    /\ m_val \in Values /\ arg \in [Setters -> Values]
    /\ job \in [Setters -> Jobs]
    /\ \A s \in Setters :
          /\ job[s].step # "none" => at[s] = "notify" /\ "log" \in todo[s]
          /\ job[s].step = "none" => job[s].names = {}
          /\ job[s].step \in {"format", "clear", "add", "off"} => job[s].name \in Names
          /\ job[s].step \in {"format", "clear", "add"} => arg[s][job[s].name] # None
          /\ job[s].step = "add" => job[s].add > 0
          /\ \A n \in job[s].names : arg[s][n] # None

LEMMA DefinitionTypes ==
    ASSUME NEW v \in Values, NEW n \in Names
    PROVE  /\ v[n] \in Define \union {None}
           /\ v[n] # None => /\ v[n].level \in Levels
                             /\ v[n].formatter \in Patterns \union {None}
                             /\ Len(v[n].appenders) \in 0 .. 2
                             /\ DOMAIN v[n].appenders = 1 .. Len(v[n].appenders)
<1>1. v[n] \in Define \union {None}
  BY LogAssumption
<1>2. ASSUME v[n] \in Define
      PROVE  /\ v[n].level \in Levels
             /\ v[n].formatter \in Patterns \union {None}
             /\ v[n].appenders \in UNION {[1 .. k -> Patterns \union {None}] : k \in 0 .. 2}
  BY <1>2 DEF Define
<1>3. ASSUME NEW d \in UNION {[1 .. k -> Patterns \union {None}] : k \in 0 .. 2}
      PROVE  Len(d) \in 0 .. 2 /\ DOMAIN d = 1 .. Len(d)
  <2>1. PICK k \in 0 .. 2 : d \in [1 .. k -> Patterns \union {None}]
    BY <1>3
  <2>2. QED
    BY <2>1, FunctionIsSeq
<1>4. QED
  BY <1>1, <1>2, <1>3

\* A step of the listener of s moves the job of s alone.
LEMMA JobShapeStep ==
    ASSUME ReadLock, JobShape, [Next]_vars
    PROVE  JobShape'
<1> USE DEF JobShape
<1>1. ASSUME NEW s \in Setters, ListenerStep(s) PROVE JobShape'
  <2> DEFINE j == job[s]
  <2>0. j \in Jobs /\ arg[s] \in Values
    OBVIOUS
  <2>a. ASSUME NEW new \in Jobs, Job(s, new), UNCHANGED configVars,
               at[s] = "notify", "log" \in todo[s], new.step # "none",
               new.step \in {"format", "clear", "add", "off"} => new.name \in Names,
               new.step \in {"format", "clear", "add"} => arg[s][new.name] # None,
               new.step = "add" => new.add > 0,
               \A n \in new.names : arg[s][n] # None
        PROVE  JobShape'
    BY <2>a DEF Job, configVars
  <2>b. ASSUME NEW step \in {"next", "clear", "add"}
        PROVE  /\ [j EXCEPT !.step = step] \in Jobs
               /\ [j EXCEPT !.step = step].step = step
               /\ [j EXCEPT !.step = step].name = j.name
               /\ [j EXCEPT !.step = step].names = j.names
    BY <2>0 DEF Jobs
  <2>1. CASE ListenerBegin(s)
    <3> DEFINE new == [NoJob EXCEPT !.step = "next", !.names = Changed(m_val, arg[s]),
                                    !.gone = Gone(m_val, arg[s])]
    <3>1. NoJob \in Jobs
      BY DEF NoJob, Jobs
    <3>2. /\ new \in Jobs /\ new.step = "next" /\ new.names = Changed(m_val, arg[s])
          /\ \A n \in Changed(m_val, arg[s]) : arg[s][n] # None
      BY <3>1 DEF Jobs, Changed, Gone
    <3>3. Job(s, new) /\ UNCHANGED configVars /\ at[s] = "notify" /\ "log" \in todo[s]
      BY <2>1 DEF ListenerBegin, InStep
    <3> HIDE DEF new
    <3>4. QED
      BY <2>a, <3>2, <3>3
  <2>2. CASE ListenerLevel(s)
    <3>1. PICK n \in j.names : Job(s, [j EXCEPT !.name = n, !.names = @ \ {n}, !.step = "format"])
      BY <2>2 DEF ListenerLevel
    <3> DEFINE new == [j EXCEPT !.name = n, !.names = @ \ {n}, !.step = "format"]
    <3>2. /\ new \in Jobs /\ new.step = "format" /\ new.name = n /\ new.names = j.names \ {n}
          /\ n \in Names
      BY <2>0 DEF Jobs
    <3>3. UNCHANGED configVars /\ at[s] = "notify" /\ "log" \in todo[s]
      BY <2>2 DEF ListenerLevel, InStep
    <3> HIDE DEF new
    <3>4. QED
      BY <2>a, <3>1, <3>2, <3>3 DEF new
  <2>3. CASE ListenerFormat(s)
    <3>1. Job(s, [j EXCEPT !.step = "clear"]) /\ j.step = "format"
          /\ UNCHANGED configVars /\ at[s] = "notify" /\ "log" \in todo[s]
      BY <2>3 DEF ListenerFormat, InStep
    <3>2. QED
      BY <2>a, <2>b, <3>1
  <2>4. CASE ListenerClear(s)
    <3> DEFINE new == [j EXCEPT !.step = "add", !.add = 1]
    <3>1. /\ Job(s, new) /\ j.step = "clear"
          /\ UNCHANGED configVars /\ at[s] = "notify" /\ "log" \in todo[s]
      BY <2>4 DEF ListenerClear, InStep
    <3>2. /\ new \in Jobs /\ new.step = "add" /\ new.name = j.name /\ new.names = j.names
          /\ new.add = 1
      BY <2>0 DEF Jobs
    <3> HIDE DEF new
    <3>3. QED
      BY <2>a, <3>1, <3>2
  <2>5. CASE ListenerAdd(s)
    <3> DEFINE new == [j EXCEPT !.add = @ + 1]
               end == [j EXCEPT !.step = "next", !.name = None, !.add = 0]
    <3>1. /\ Job(s, new) \/ Job(s, end)
          /\ j.step = "add" /\ UNCHANGED configVars /\ at[s] = "notify" /\ "log" \in todo[s]
      BY <2>5 DEF ListenerAdd, InStep
    <3>2. j.add \in Nat /\ j.add + 1 \in Nat /\ j.add + 1 > 0
      BY <2>0 DEF Jobs
    <3>3. /\ new \in Jobs /\ new.step = j.step /\ new.name = j.name /\ new.names = j.names
          /\ new.add = j.add + 1
      BY <2>0, <3>2 DEF Jobs
    <3>4. end \in Jobs /\ end.step = "next" /\ end.names = j.names
      BY <2>0 DEF Jobs
    <3> HIDE DEF new, end
    <3>5. CASE Job(s, new)
      BY <2>a, <3>1, <3>2, <3>3, <3>5
    <3>6. CASE Job(s, end)
      BY <2>a, <3>1, <3>4, <3>6
    <3>7. QED
      BY <3>1, <3>5, <3>6
  <2>6. CASE ListenerOff(s)
    <3>1. PICK n \in j.gone : Job(s, [j EXCEPT !.name = n, !.gone = @ \ {n}, !.step = "off"])
      BY <2>6 DEF ListenerOff
    <3> DEFINE new == [j EXCEPT !.name = n, !.gone = @ \ {n}, !.step = "off"]
    <3>2. new \in Jobs /\ new.step = "off" /\ new.name = n /\ n \in Names /\ new.names = j.names
      BY <2>0 DEF Jobs
    <3>3. UNCHANGED configVars /\ at[s] = "notify" /\ "log" \in todo[s]
      BY <2>6 DEF ListenerOff, InStep
    <3> HIDE DEF new
    <3>4. QED
      BY <2>a, <3>1, <3>2, <3>3 DEF new
  <2>7. CASE ListenerOffClear(s)
    <3> DEFINE new == [j EXCEPT !.step = "next", !.name = None]
    <3>1. /\ Job(s, new) /\ j.step = "off"
          /\ UNCHANGED configVars /\ at[s] = "notify" /\ "log" \in todo[s]
      BY <2>7 DEF ListenerOffClear, InStep
    <3>2. new \in Jobs /\ new.step = "next" /\ new.names = j.names
      BY <2>0 DEF Jobs
    <3> HIDE DEF new
    <3>3. QED
      BY <2>a, <3>1, <3>2
  <2>8. CASE ListenerEnd(s)
    <3>1. NoJob \in Jobs /\ NoJob.step = "none" /\ NoJob.names = {}
      BY DEF NoJob, Jobs
    <3>2. /\ job' = [job EXCEPT ![s] = NoJob] /\ UNCHANGED <<m_val, at, arg>>
          /\ todo' = [todo EXCEPT ![s] = @ \ {"log"}]
      BY <2>8 DEF ListenerEnd, Heard, Job
    <3>3. \A t \in Setters : t # s => todo'[t] = todo[t]
      BY <3>2 DEF ReadLock
    <3>4. QED
      BY <3>1, <3>2, <3>3
  <2>9. ASSUME NEW l \in Listeners, OtherListener(s, l) PROVE JobShape'
    <3>1. /\ UNCHANGED <<m_val, at, arg, job>> /\ j.step = "none" /\ l # "log"
          /\ todo' = [todo EXCEPT ![s] = @ \ {l}]
      BY <2>9 DEF OtherListener, Heard, InStep
    <3>2. \A t \in Setters : "log" \in todo[t] => "log" \in todo'[t]
      BY <3>1 DEF ReadLock
    <3>3. QED
      BY <3>1, <3>2
  <2>10. QED
    BY <1>1, <2>1, <2>2, <2>3, <2>4, <2>5, <2>6, <2>7, <2>8, <2>9 DEF ListenerStep
<1>2. ASSUME NEW s \in Setters, NEW v \in Values, SetValue(s, v), job' = job PROVE JobShape'
  <2>1. job[s].step = "none" /\ job[s].names = {}
    BY <1>2 DEF SetValue
  <2>2. QED
    BY <1>2, <2>1 DEF SetValue, ReadLock, Jobs
<1>3. ASSUME NEW s \in Setters, Unlock(s) \/ Store(s), job' = job PROVE JobShape'
  BY <1>3, ConfigAssumption DEF Unlock, Store, ReadLock, Jobs
<1>4. ASSUME UNCHANGED <<m_val, at, arg, todo, job>> PROVE JobShape'
  BY <1>4
<1>5. ASSUME \/ \E w \in Writers : WriterStep(w)
             \/ \E w \in Writers, g \in Loggers, level \in Levels \ {0} : LogBegin(w, g, level)
             \/ \E g \in Loggers : Edit(g)
             \/ UNCHANGED vars
      PROVE  UNCHANGED <<m_val, at, arg, todo, job>>
  BY <1>5 DEF WriterStep, LogBegin, LogEnter, LogRoot, LogWrite, LogEnd, Edit, vars, configVars
<1>6. ASSUME Register PROVE JobShape'
  <2>1. CASE \E l \in Listeners \ {"log"} : AddListener(l) \/ DelListener(l)
    BY <1>4, <1>6, <2>1 DEF Register, AddListener, DelListener
  <2>2. CASE ClearListener(Running)
    <3>1. UNCHANGED <<m_val, at, arg, job>> /\ \A s \in Setters : Running[s] \subseteq todo'[s]
      BY <1>6, <2>2 DEF Register, ClearListener
    <3>2. \A s \in Setters : job[s].step # "none" => "log" \in todo'[s]
      BY <3>1 DEF Running
    <3>3. QED
      BY <3>1, <3>2
  <2>3. QED
    BY <1>6, <2>1, <2>2 DEF Register
<1>7. QED
  BY <1>1, <1>2, <1>3, <1>4, <1>5, <1>6 DEF Next, SetterStep

LEMMA JobShapeInit == Init => JobShape
  BY ConfigAssumption DEF Init, ConfigInit, JobShape, NoJob, Jobs

-----------------------------------------------------------------------------
(* Steps and the appenders *)

\* What a step does to formatters and appenders, one logger at a time.
ListStep ==
    \/ UNCHANGED <<m_formatter, m_appenders>>
    \/ \E g \in Loggers, p \in Valid : SetFormatter(g, p)
    \/ \E g \in Loggers, id \in {1, 2, Own}, p \in Valid \union {None} :
          AddAppender(g, id, p) /\ UNCHANGED m_formatter
    \/ \E g \in Loggers : DelAppender(g, Own) /\ UNCHANGED m_formatter
    \/ \E g \in Loggers : ClearAppenders(g) /\ UNCHANGED m_formatter

LEMMA ListSteps ==
    ASSUME JobShape, [Next]_vars
    PROVE  ListStep
<1>1. ASSUME NEW g \in Loggers, NEW p, SetFormatter(g, p) PROVE ListStep
  BY <1>1 DEF SetFormatter, ListStep
<1>2. ASSUME NEW s \in Setters, ListenerStep(s) PROVE ListStep
  <2>1. CASE ListenerFormat(s)
    <3>1. job[s].name \in Loggers
      BY <2>1 DEF ListenerFormat, InStep, JobShape, Loggers
    <3>2. QED
      BY <1>1, <2>1, <3>1 DEF ListenerFormat, ListStep
  <2>2. CASE ListenerClear(s) \/ ListenerOffClear(s)
    <3>1. job[s].name \in Loggers
      BY <2>2 DEF ListenerClear, ListenerOffClear, InStep, JobShape, Loggers
    <3>2. QED
      BY <2>2, <3>1 DEF ListenerClear, ListenerOffClear, ListStep
  <2>3. CASE ListenerAdd(s)
    <3> DEFINE n == job[s].name
               i == job[s].add
               defs == arg[s][n].appenders
    <3>1. n \in Names /\ n \in Loggers /\ arg[s] \in Values /\ arg[s][n] # None
      BY <2>3 DEF ListenerAdd, InStep, JobShape, Loggers
    <3>2. DOMAIN defs = 1 .. Len(defs) /\ Len(defs) \in 0 .. 2
      BY <3>1, DefinitionTypes
    <3>3. i \in DOMAIN defs => i \in {1, 2, Own}
      <4>1. \A k \in 0 .. 2 : \A x \in 1 .. k : x \in {1, 2}
        OBVIOUS
      <4>2. QED
        BY <3>2, <4>1
    <3>4. OwnFormatter(defs[i]) \in Valid \union {None}
      BY DEF OwnFormatter
    <3>5. UNCHANGED m_formatter /\ (UNCHANGED m_appenders \/
             (i \in DOMAIN defs /\ AddAppender(n, i, OwnFormatter(defs[i]))))
      BY <2>3 DEF ListenerAdd
    <3> HIDE DEF n, i, defs
    <3>6. QED
      BY <3>1, <3>3, <3>4, <3>5 DEF ListStep
  <2>4. CASE \/ ListenerBegin(s) \/ ListenerLevel(s) \/ ListenerOff(s) \/ ListenerEnd(s)
             \/ \E l \in Listeners : OtherListener(s, l)
    BY <2>4 DEF ListenerBegin, ListenerLevel, ListenerOff, ListenerEnd, OtherListener,
       loggerVars, ListStep
  <2>5. QED
    BY <1>2, <2>1, <2>2, <2>3, <2>4 DEF ListenerStep
<1>3. ASSUME NEW g \in Loggers, Edit(g) PROVE ListStep
  BY <1>1, <1>3 DEF Edit, ListStep
<1>4. ASSUME \/ \E w \in Writers : WriterStep(w)
             \/ \E w \in Writers, g \in Loggers, level \in Levels \ {0} : LogBegin(w, g, level)
             \/ Register
             \/ UNCHANGED vars
      PROVE  UNCHANGED <<m_formatter, m_appenders>>
  BY <1>4 DEF WriterStep, LogBegin, LogEnter, LogRoot, LogWrite, LogEnd, vars, Register, loggerVars
<1>5. QED
  BY <1>2, <1>3, <1>4 DEF Next, SetterStep, ListStep, loggerVars

LEMMA LoggerTypesStep ==
    ASSUME LoggerTypes, ListStep
    PROVE  LoggerTypes'
<1>1. CASE UNCHANGED <<m_formatter, m_appenders>>
  BY <1>1 DEF LoggerTypes
<1>2. QED
  BY <1>1, Formatted, Appended, Deleted, Cleared DEF ListStep

LevelTypes == m_level \in [Loggers -> Levels \union {1, Off}]

\* Only the listener sets levels.
LEMMA LevelSteps ==
    ASSUME JobShape, [Next]_vars
    PROVE  \/ UNCHANGED m_level
           \/ \E s \in Setters : ListenerLevel(s) \/ ListenerOff(s)
<1>1. ASSUME NEW s \in Setters, SetterStep(s)
      PROVE  UNCHANGED m_level \/ ListenerLevel(s) \/ ListenerOff(s)
  BY <1>1 DEF SetterStep, ListenerStep, ListenerBegin, ListenerFormat, ListenerClear,
     ListenerAdd, ListenerOffClear, ListenerEnd, OtherListener, loggerVars
<1>2. ASSUME \/ \E w \in Writers : WriterStep(w)
             \/ \E w \in Writers, g \in Loggers, level \in Levels \ {0} : LogBegin(w, g, level)
             \/ \E g \in Loggers : Edit(g)
             \/ Register
             \/ UNCHANGED vars
      PROVE  UNCHANGED m_level
  BY <1>2 DEF WriterStep, LogBegin, LogEnter, LogRoot, LogWrite, LogEnd, Edit, Register, vars,
     loggerVars
<1>3. QED
  BY <1>1, <1>2 DEF Next, loggerVars

LEMMA LevelTypesStep ==
    ASSUME JobShape, LevelTypes, [Next]_vars
    PROVE  LevelTypes'
<1>1. ASSUME NEW s \in Setters, ListenerLevel(s) PROVE LevelTypes'
  <2>1. PICK n \in job[s].names : m_level' = [m_level EXCEPT ![n] = arg[s][n].level]
    BY <1>1 DEF ListenerLevel
  <2>2. n \in Names /\ arg[s] \in Values /\ arg[s][n] # None
    BY DEF JobShape, Jobs
  <2>3. arg[s][n].level \in Levels
    BY <2>2, DefinitionTypes
  <2>4. QED
    BY <2>1, <2>3 DEF LevelTypes
<1>2. ASSUME NEW s \in Setters, ListenerOff(s) PROVE LevelTypes'
  BY <1>2 DEF ListenerOff, LevelTypes
<1>3. QED
  BY <1>1, <1>2, LevelSteps DEF LevelTypes

LEMMA LoggerTypesInit == Init => LoggerTypes
<1> SUFFICES ASSUME Init PROVE LoggerTypes
  OBVIOUS
<1> DEFINE x == [id |-> 0, has |-> FALSE, formatter |-> Basic]
<1>1. x \in Appender
  BY LogAssumption DEF Appender
<1> HIDE DEF x
<1>2. <<x>> \in Seq(Appender) /\ <<>> \in Seq(Appender)
  BY <1>1
<1>3. /\ m_formatter = [g \in Loggers |-> Basic]
      /\ m_appenders = [g \in Loggers |-> IF g = Root THEN <<x>> ELSE <<>>]
  BY DEF Init, x
<1>4. QED
  BY <1>2, <1>3, LogAssumption DEF LoggerTypes

\* What the listener and the loggers are like in every state.
LoggerInv == ReadLock /\ JobShape /\ LoggerTypes

LEMMA LoggerInvStep ==
    ASSUME LoggerInv, [Next]_vars
    PROVE  LoggerInv'
  BY ConfigSteps, ReadLockStep, JobShapeStep, ListSteps, LoggerTypesStep DEF LoggerInv

LEMMA LoggerInvariant == Spec => []LoggerInv
<1>1. Init => LoggerInv
  BY ReadLockInit, JobShapeInit, LoggerTypesInit DEF LoggerInv
<1>2. QED
  BY <1>1, LoggerInvStep, PTL DEF Spec

\* For any number of loggers, setters and patterns, an appender without a formatter of
\* its own has the present formatter of its logger: setFormatter reaches all of them,
\* addAppender hands it on, and nothing else touches either.
THEOREM FormattersInherited == Spec => []FormatterInherited
<1>1. Init => FormatterInherited
  <2> SUFFICES ASSUME Init, NEW g \in Loggers, NEW i \in DOMAIN m_appenders[g],
                      ~ m_appenders[g][i].has
               PROVE  m_appenders[g][i].formatter = m_formatter[g]
    BY DEF FormatterInherited
  <2>1. CASE g = Root
    BY <2>1 DEF Init
  <2>2. CASE g # Root
    BY <2>2 DEF Init
  <2>3. QED
    BY <2>1, <2>2
<1>2. ASSUME LoggerTypes, ListStep, FormatterInherited PROVE FormatterInherited'
  <2> SUFFICES ASSUME NEW h \in Loggers, NEW i \in DOMAIN m_appenders'[h]
               PROVE  ~ m_appenders'[h][i].has => m_appenders'[h][i].formatter = m_formatter'[h]
    BY DEF FormatterInherited
  <2> DEFINE old == m_appenders[h]
             new == m_appenders'[h]
             Goal == ~ new[i].has => new[i].formatter = m_formatter'[h]
  <2>0. /\ Len(old) \in Nat /\ DOMAIN old = 1 .. Len(old)
        /\ Len(new) \in Nat /\ DOMAIN new = 1 .. Len(new)
    <3>1. old \in Seq(Appender) /\ new \in Seq(Appender)
      BY <1>2, LoggerTypesStep DEF LoggerTypes
    <3>2. QED
      BY <3>1, LenProperties
  <2>1. ASSUME new = old, m_formatter'[h] = m_formatter[h] PROVE Goal
    BY <1>2, <2>1 DEF FormatterInherited
  <2>2. ASSUME NEW g \in Loggers, NEW p \in Valid, SetFormatter(g, p) PROVE Goal
    <3>1. CASE h = g
      BY <1>2, <2>2, <3>1, Formatted DEF FormatterInherited, LoggerTypes
    <3>2. CASE h # g
      BY <1>2, <2>1, <2>2, <3>2, Formatted DEF LoggerTypes
    <3>3. QED
      BY <3>1, <3>2
  <2>3. ASSUME NEW g \in Loggers, NEW id \in {1, 2, Own}, NEW p \in Valid \union {None},
               AddAppender(g, id, p), UNCHANGED m_formatter
        PROVE  Goal
    <3>1. /\ h # g => new = old
          /\ h = g => /\ Len(new) = Len(old) + 1
                      /\ \A k \in 1 .. Len(old) : new[k] = old[k]
                      /\ new[Len(old) + 1].has <=> p # None
                      /\ new[Len(old) + 1].formatter = IF p # None THEN p ELSE m_formatter[g]
      BY <1>2, <2>3, Appended
    <3>2. ASSUME h = g, i = Len(old) + 1 PROVE Goal
      BY <2>3, <3>1, <3>2
    <3>3. ASSUME h = g, i \in 1 .. Len(old) PROVE Goal
      BY <1>2, <2>0, <2>3, <3>1, <3>3 DEF FormatterInherited
    <3>4. h = g => i = Len(old) + 1 \/ i \in 1 .. Len(old)
      BY <2>0, <3>1
    <3>5. QED
      BY <2>1, <2>3, <3>1, <3>2, <3>3, <3>4
  <2>4. ASSUME NEW g \in Loggers, DelAppender(g, Own), UNCHANGED m_formatter PROVE Goal
    <3>1. /\ h # g => new = old
          /\ h = g => \/ new = old
                      \/ \E k \in 1 .. Len(old) :
                            /\ Len(new) = Len(old) - 1
                            /\ \A j \in 1 .. Len(old) - 1 :
                                  new[j] = IF j < k THEN old[j] ELSE old[j + 1]
      BY <1>2, <2>4, Deleted, ZenonT(40)
    <3>2. new = old \/ \E k \in 1 .. Len(old) : new[i] = old[k]
      <4>1. CASE new # old
        <5>1. PICK k \in 1 .. Len(old) :
                 /\ Len(new) = Len(old) - 1
                 /\ \A j \in 1 .. Len(old) - 1 : new[j] = IF j < k THEN old[j] ELSE old[j + 1]
          BY <3>1, <4>1
        <5>2. i \in 1 .. Len(old) - 1 /\ i \in 1 .. Len(old) /\ i + 1 \in 1 .. Len(old)
          BY <2>0, <5>1
        <5>3. QED
          BY <5>1, <5>2
      <4>2. QED
        BY <4>1
    <3>3. QED
      BY <1>2, <2>0, <2>1, <2>4, <3>2 DEF FormatterInherited
  <2>5. ASSUME NEW g \in Loggers, ClearAppenders(g), UNCHANGED m_formatter PROVE Goal
    <3>1. CASE h = g
      <4>1. new = <<>>
        BY <1>2, <2>5, <3>1, Cleared
      <4>2. QED
        BY <4>1
    <3>2. CASE h # g
      BY <1>2, <2>1, <2>5, <3>2, Cleared
    <3>3. QED
      BY <3>1, <3>2
  <2>6. QED
    BY <1>2, <2>1, <2>2, <2>3, <2>4, <2>5 DEF ListStep
<1>3. LoggerInv /\ [Next]_vars /\ FormatterInherited => FormatterInherited'
  BY <1>2, ListSteps DEF LoggerInv
<1>4. QED
  BY <1>1, <1>3, LoggerInvariant, PTL DEF Spec

-----------------------------------------------------------------------------
(* Threads that log *)

\* Whoever is writing has something left to write to, in the logger it has locked.
Writing ==
    /\ mutex \in [Loggers -> Writers \union {None}]
    /\ pc \in [Writers -> {"out", "log", "root", "write", "unlock"}]
    /\ left \in [Writers -> Seq(Appender)]
    /\ line \in [Writers -> Loggers \X (Levels \union {0})]
    /\ \A w \in Writers : pc[w] = "write" => left[w] # <<>>
    /\ WritesToAttached

\* A logger's appenders change only while nobody holds its lock.
LEMMA ListsGuarded ==
    ASSUME LoggerTypes, ListStep, NEW g \in Loggers
    PROVE  m_appenders'[g] = m_appenders[g] \/ Free(g)
  BY Formatted, Appended, Deleted, Cleared DEF ListStep

LEMMA EnterKeeps ==
    ASSUME LoggerTypes, Writing, NEW w \in Writers, NEW g \in Loggers, NEW level, NEW root,
           pc[w] # "write", Enter(w, g, level, root), UNCHANGED <<m_appenders, line>>
    PROVE  Writing'
<1>1. CASE level < m_level[g]
  <2>1. pc' = [pc EXCEPT ![w] = "unlock"] /\ UNCHANGED <<mutex, left>>
    BY <1>1 DEF Enter
  <2>2. /\ pc' \in [Writers -> {"out", "log", "root", "write", "unlock"}]
        /\ \A v \in Writers : pc'[v] = "write" => pc[v] = "write"
    BY <2>1 DEF Writing
  <2>3. QED
    BY <2>1, <2>2 DEF Writing, WritesToAttached
<1>2. CASE ~ level < m_level[g]
  <2>1. /\ mutex[g] = None /\ mutex' = [mutex EXCEPT ![g] = w]
        /\ left' = [left EXCEPT ![w] = m_appenders[g]]
        /\ \E to \in {"write", "unlock", "root"} :
              pc' = [pc EXCEPT ![w] = to] /\ (to = "write" => m_appenders[g] # <<>>)
    BY <1>2 DEF Enter, Free
  <2>2. m_appenders[g] \in Seq(Appender)
    BY DEF LoggerTypes
  <2>3. /\ mutex' \in [Loggers -> Writers \union {None}]
        /\ pc' \in [Writers -> {"out", "log", "root", "write", "unlock"}]
        /\ left' \in [Writers -> Seq(Appender)]
        /\ line' \in [Writers -> Loggers \X (Levels \union {0})]
        /\ \A v \in Writers : pc'[v] = "write" => left'[v] # <<>>
    BY <2>1, <2>2 DEF Writing
  <2>4. ASSUME NEW v \in Writers, pc'[v] = "write"
        PROVE  \E h \in Loggers : mutex'[h] = v /\ \A i \in DOMAIN left'[v] :
                  \E j \in DOMAIN m_appenders'[h] : m_appenders'[h][j] = left'[v][i]
    <3>1. CASE v = w
      <4>1. mutex'[g] = w /\ left'[w] = m_appenders'[g]
        BY <2>1 DEF Writing
      <4>2. QED
        BY <3>1, <4>1
    <3>2. CASE v # w
      <4>1. pc[v] = "write" /\ left'[v] = left[v]
        BY <2>1, <2>4, <3>2 DEF Writing
      <4>2. PICK h \in Loggers : mutex[h] = v /\ \A i \in DOMAIN left[v] :
               \E j \in DOMAIN m_appenders[h] : m_appenders[h][j] = left[v][i]
        BY <4>1 DEF Writing, WritesToAttached
      <4>3. h # g /\ mutex'[h] = v
        BY <2>1, <4>2, LogNone DEF Writing
      <4>4. QED
        BY <4>1, <4>2, <4>3
    <3>3. QED
      BY <3>1, <3>2
  <2>5. QED
    BY <2>3, <2>4 DEF Writing, WritesToAttached
<1>3. QED
  BY <1>1, <1>2

LEMMA WritingStep ==
    ASSUME LoggerInv, Writing, [Next]_vars
    PROVE  Writing'
<1>1. ASSUME UNCHANGED writerVars PROVE Writing'
  <2>1. UNCHANGED <<mutex, pc, left, line>>
    BY <1>1 DEF writerVars
  <2>2. ASSUME NEW w \in Writers, pc'[w] = "write"
        PROVE  \E g \in Loggers : mutex'[g] = w /\ \A i \in DOMAIN left'[w] :
                  \E j \in DOMAIN m_appenders'[g] : m_appenders'[g][j] = left'[w][i]
    <3>1. PICK g \in Loggers : mutex[g] = w /\ \A i \in DOMAIN left[w] :
             \E j \in DOMAIN m_appenders[g] : m_appenders[g][j] = left[w][i]
      BY <2>1, <2>2 DEF Writing, WritesToAttached
    <3>2. ~ Free(g)
      BY <3>1, LogNone DEF Free
    <3>3. m_appenders'[g] = m_appenders[g]
      BY <3>2, ListSteps, ListsGuarded DEF LoggerInv
    <3>4. QED
      BY <2>1, <3>1, <3>3
  <2>3. QED
    BY <2>1, <2>2 DEF Writing, WritesToAttached
<1>2. ASSUME NEW w \in Writers, NEW g \in Loggers, NEW level \in Levels, LogBegin(w, g, level)
      PROVE  Writing'
  <2>1. /\ UNCHANGED <<m_appenders, mutex, left>>
        /\ line' = [line EXCEPT ![w] = <<g, level>>] /\ pc' = [pc EXCEPT ![w] = "log"]
    BY <1>2 DEF LogBegin, loggerVars
  <2>2. /\ pc' \in [Writers -> {"out", "log", "root", "write", "unlock"}]
        /\ \A v \in Writers : pc'[v] = "write" => pc[v] = "write"
    BY <2>1 DEF Writing
  <2>3. line' \in [Writers -> Loggers \X (Levels \union {0})]
    <3>1. <<g, level>> \in Loggers \X (Levels \union {0})
      OBVIOUS
    <3>2. QED
      BY <2>1, <3>1 DEF Writing
  <2>4. WritesToAttached'
    <3>1. UNCHANGED <<m_appenders, mutex, left>> /\ WritesToAttached
      BY <2>1 DEF Writing
    <3>2. QED
      BY <2>2, <3>1 DEF WritesToAttached
  <2>5. QED
    BY <2>1, <2>2, <2>3, <2>4 DEF Writing
<1>3. ASSUME NEW w \in Writers, LogEnter(w) \/ LogRoot(w) PROVE Writing'
  <2>1. /\ UNCHANGED <<m_appenders, line>> /\ pc[w] # "write"
        /\ \/ Enter(w, line[w][1], line[w][2], line[w][1] = Root)
           \/ Enter(w, Root, line[w][2], TRUE)
    BY <1>3 DEF LogEnter, LogRoot, loggerVars
  <2>2. line[w][1] \in Loggers /\ Root \in Loggers
    BY DEF Writing, Loggers
  <2>3. QED
    BY <2>1, <2>2, EnterKeeps DEF LoggerInv
<1>4. ASSUME NEW w \in Writers, LogWrite(w) PROVE Writing'
  <2>1. /\ pc[w] = "write" /\ UNCHANGED <<m_appenders, mutex, line>>
        /\ left' = [left EXCEPT ![w] = Tail(left[w])]
        /\ pc' = [pc EXCEPT ![w] = IF Len(left[w]) = 1 THEN "unlock" ELSE "write"]
    BY <1>4 DEF LogWrite, loggerVars
  <2>2. left[w] \in Seq(Appender) /\ left[w] # <<>>
    BY <2>1 DEF Writing
  <2>3. /\ Tail(left[w]) \in Seq(Appender) /\ Len(Tail(left[w])) = Len(left[w]) - 1
        /\ \A i \in 1 .. Len(Tail(left[w])) : Tail(left[w])[i] = left[w][i + 1]
        /\ Len(left[w]) \in Nat /\ DOMAIN left[w] = 1 .. Len(left[w])
        /\ DOMAIN Tail(left[w]) = 1 .. Len(Tail(left[w]))
    BY <2>2, HeadTailProperties, LenProperties
  <2>4. \A i \in DOMAIN Tail(left[w]) : i + 1 \in DOMAIN left[w] /\ Tail(left[w])[i] = left[w][i + 1]
    BY <2>3
  <2>5. pc'[w] = "write" => Tail(left[w]) # <<>>
    <3>1. ASSUME Tail(left[w]) = <<>> PROVE Len(left[w]) = 1
      <4>1. Len(Tail(left[w])) = 0
        BY <3>1, EmptySeq
      <4>2. QED
        BY <2>3, <4>1
    <3>2. QED
      BY <2>1, <3>1 DEF Writing
  <2>6. /\ mutex' \in [Loggers -> Writers \union {None}]
        /\ pc' \in [Writers -> {"out", "log", "root", "write", "unlock"}]
        /\ left' \in [Writers -> Seq(Appender)]
        /\ line' \in [Writers -> Loggers \X (Levels \union {0})]
        /\ \A v \in Writers : pc'[v] = "write" => left'[v] # <<>>
    BY <2>1, <2>3, <2>5 DEF Writing
  <2>7. ASSUME NEW v \in Writers, pc'[v] = "write"
        PROVE  \E h \in Loggers : mutex'[h] = v /\ \A i \in DOMAIN left'[v] :
                  \E j \in DOMAIN m_appenders'[h] : m_appenders'[h][j] = left'[v][i]
    <3>1. pc[v] = "write"
      BY <2>1, <2>7 DEF Writing
    <3>2. PICK h \in Loggers : mutex[h] = v /\ \A i \in DOMAIN left[v] :
             \E j \in DOMAIN m_appenders[h] : m_appenders[h][j] = left[v][i]
      BY <3>1 DEF Writing, WritesToAttached
    <3>3. \A i \in DOMAIN left'[v] : \E k \in DOMAIN left[v] : left'[v][i] = left[v][k]
      <4>1. CASE v = w
        <5>1. left'[v] = Tail(left[w])
          BY <2>1, <4>1 DEF Writing
        <5>2. QED
          BY <2>4, <4>1, <5>1
      <4>2. CASE v # w
        BY <2>1, <4>2 DEF Writing
      <4>3. QED
        BY <4>1, <4>2
    <3>4. QED
      BY <2>1, <3>2, <3>3
  <2>8. QED
    BY <2>6, <2>7 DEF Writing, WritesToAttached
<1>5. ASSUME NEW w \in Writers, LogEnd(w) PROVE Writing'
  <2>1. /\ UNCHANGED <<m_appenders, left>> /\ pc' = [pc EXCEPT ![w] = "out"]
        /\ mutex' = [g \in Loggers |-> IF mutex[g] = w THEN None ELSE mutex[g]]
        /\ line' = [line EXCEPT ![w] = <<Root, 0>>]
    BY <1>5 DEF LogEnd, loggerVars, Unlocked
  <2>2. Root \in Loggers
    BY DEF Loggers
  <2>3. QED
    BY <2>1, <2>2 DEF Writing, WritesToAttached
<1>6. ASSUME NEW s \in Setters, SetterStep(s) PROVE UNCHANGED writerVars
  BY <1>6 DEF SetterStep, ListenerStep, ListenerBegin, ListenerLevel, ListenerFormat,
     ListenerClear, ListenerAdd, ListenerOff, ListenerOffClear, ListenerEnd, OtherListener
<1>7. ASSUME (\E g \in Loggers : Edit(g)) \/ Register \/ UNCHANGED vars
      PROVE  UNCHANGED writerVars
  BY <1>7 DEF Edit, Register, vars
<1>8. QED
  BY <1>1, <1>2, <1>3, <1>4, <1>5, <1>6, <1>7 DEF Next, WriterStep

LEMMA WritingInit == Init => Writing
<1> SUFFICES ASSUME Init PROVE Writing
  OBVIOUS
<1>1. <<>> \in Seq(Appender) /\ Root \in Loggers
  BY EmptySeq DEF Loggers
<1>2. QED
  BY <1>1 DEF Init, Writing, WritesToAttached

\* For any number of loggers and threads, a thread that is writing writes to appenders
\* of the logger it has locked: log() keeps the lock for the whole of its loop, and
\* every operation on the list of appenders takes it.
THEOREM WritersAttached == Spec => []WritesToAttached
<1>1. Writing => WritesToAttached
  BY DEF Writing
<1>2. QED
  BY <1>1, WritingInit, WritingStep, LoggerInvariant, PTL DEF Spec

-----------------------------------------------------------------------------
(* Steps and the appenders that come from the configuration *)

\* What Built says stays true when the appenders from the configuration stay in their
\* places, with the formatters that are their own.
LEMMA BuiltSame ==
    ASSUME NEW g \in Loggers, NEW defs, NEW k, Built(g, defs, k),
           FromConfig(g)' = FromConfig(g),
           \A i \in FromConfig(g) :
              /\ m_appenders'[g][i].id = m_appenders[g][i].id
              /\ m_appenders'[g][i].has = m_appenders[g][i].has
              /\ m_appenders[g][i].has =>
                    m_appenders'[g][i].formatter = m_appenders[g][i].formatter
    PROVE  Built(g, defs, k)'
<1>1. ASSUME NEW i \in FromConfig(g)'
      PROVE  LET x == m_appenders'[g][i]
                 p == OwnFormatter(defs[x.id]) IN
             /\ x.id \in 1 .. k
             /\ x.has <=> p # None
             /\ x.has => x.formatter = p
  BY <1>1 DEF Built
<1>2. \A id \in 1 .. k : \E i \in FromConfig(g)' : m_appenders'[g][i].id = id
  BY DEF Built
<1>3. \A i, j \in FromConfig(g)' : i < j => m_appenders'[g][i].id < m_appenders'[g][j].id
  BY DEF Built
<1>4. QED
  BY <1>1, <1>2, <1>3 DEF Built

\* The appenders from the configuration, after a change by hand or a formatter.
LEMMA BuiltFormatted ==
    ASSUME LoggerTypes, NEW g \in Loggers, NEW p \in Valid, SetFormatter(g, p),
           NEW h \in Loggers, NEW defs, NEW k, Built(h, defs, k)
    PROVE  Built(h, defs, k)'
<1>1. /\ h # g => m_appenders'[h] = m_appenders[h]
      /\ DOMAIN m_appenders'[g] = DOMAIN m_appenders[g]
      /\ \A i \in DOMAIN m_appenders[g] :
            /\ m_appenders'[g][i].id = m_appenders[g][i].id
            /\ m_appenders'[g][i].has = m_appenders[g][i].has
            /\ m_appenders[g][i].has =>
                  m_appenders'[g][i].formatter = m_appenders[g][i].formatter
  BY Formatted
<1>2. FromConfig(h)' = FromConfig(h)
  BY <1>1 DEF FromConfig
<1>3. \A i \in FromConfig(h) : i \in DOMAIN m_appenders[h]
  BY DEF FromConfig
<1>4. QED
  BY <1>1, <1>2, <1>3, BuiltSame

LEMMA BuiltOwnAdded ==
    ASSUME LoggerTypes, NEW g \in Loggers, NEW p \in Valid \union {None},
           AddAppender(g, Own, p), UNCHANGED m_formatter,
           NEW h \in Loggers, NEW defs, NEW k, Built(h, defs, k)
    PROVE  Built(h, defs, k)'
<1>1. /\ LoggerTypes'
      /\ h # g => m_appenders'[h] = m_appenders[h]
      /\ Len(m_appenders'[g]) = Len(m_appenders[g]) + 1
      /\ \A i \in 1 .. Len(m_appenders[g]) : m_appenders'[g][i] = m_appenders[g][i]
      /\ m_appenders'[g][Len(m_appenders[g]) + 1].id = Own
  BY Appended
<1>2. /\ Len(m_appenders[g]) \in Nat
      /\ DOMAIN m_appenders[g] = 1 .. Len(m_appenders[g])
      /\ DOMAIN m_appenders'[g] = 1 .. Len(m_appenders[g]) + 1
  BY <1>1, LenProperties DEF LoggerTypes
<1>3. FromConfig(g)' = FromConfig(g)
  BY <1>1, <1>2, SMTT(30) DEF FromConfig
<1>4. \A i \in FromConfig(g) : m_appenders'[g][i] = m_appenders[g][i]
  BY <1>1, <1>2 DEF FromConfig
<1>5. CASE h = g
  BY <1>3, <1>4, <1>5, BuiltSame
<1>6. CASE h # g
  <2>1. FromConfig(h)' = FromConfig(h)
    BY <1>1, <1>6 DEF FromConfig
  <2>2. QED
    BY <1>1, <1>6, <2>1, BuiltSame
<1>7. QED
  BY <1>5, <1>6

LEMMA BuiltOwnDeleted ==
    ASSUME LoggerTypes, NEW g \in Loggers, DelAppender(g, Own), UNCHANGED m_formatter,
           NEW h \in Loggers, NEW defs, NEW k, Built(h, defs, k)
    PROVE  Built(h, defs, k)'
<1>1. /\ LoggerTypes'
      /\ h # g => m_appenders'[h] = m_appenders[h]
      /\ \/ m_appenders' = m_appenders
         \/ \E i \in 1 .. Len(m_appenders[g]) :
               /\ m_appenders[g][i].id = Own
               /\ Len(m_appenders'[g]) = Len(m_appenders[g]) - 1
               /\ \A j \in 1 .. Len(m_appenders[g]) - 1 : m_appenders'[g][j] =
                     IF j < i THEN m_appenders[g][j] ELSE m_appenders[g][j + 1]
  BY Deleted
<1>2. ASSUME m_appenders'[h] = m_appenders[h] PROVE Built(h, defs, k)'
  <2>1. FromConfig(h)' = FromConfig(h)
    BY <1>2 DEF FromConfig
  <2>2. QED
    BY <1>2, <2>1, BuiltSame
<1>3. ASSUME h = g, m_appenders'[g] # m_appenders[g] PROVE Built(g, defs, k)'
  <2> DEFINE old == m_appenders[g]
             new == m_appenders'[g]
             F(j, i) == IF j < i THEN j ELSE j + 1
  <2>1. PICK i \in 1 .. Len(old) :
           /\ old[i].id = Own /\ Len(new) = Len(old) - 1
           /\ \A j \in 1 .. Len(old) - 1 : new[j] = IF j < i THEN old[j] ELSE old[j + 1]
    BY <1>1, <1>3
  <2>2. Len(old) \in Nat /\ DOMAIN old = 1 .. Len(old) /\ DOMAIN new = 1 .. Len(old) - 1
    BY <1>1, <2>1, LenProperties DEF LoggerTypes
  <2>3. ASSUME NEW j \in FromConfig(g)' PROVE F(j, i) \in FromConfig(g) /\ new[j] = old[F(j, i)]
    BY <2>1, <2>2, SMTT(30) DEF FromConfig
  <2>4. ASSUME NEW m \in FromConfig(g) PROVE \E j \in FromConfig(g)' : new[j] = old[m]
    <3>1. m \in 1 .. Len(old) /\ m # i /\ old[m].id # Own
      BY <2>1, <2>2 DEF FromConfig
    <3> DEFINE j == IF m < i THEN m ELSE m - 1
    <3>2. j \in 1 .. Len(old) - 1 /\ new[j] = old[m]
      BY <2>1, <2>2, <3>1
    <3> HIDE DEF j
    <3>3. QED
      BY <2>2, <3>1, <3>2 DEF FromConfig
  <2>5. ASSUME NEW a \in FromConfig(g)', NEW b \in FromConfig(g)', a < b PROVE F(a, i) < F(b, i)
    BY <2>1, <2>2, <2>5 DEF FromConfig
  <2> HIDE DEF F
  <2>6. ASSUME NEW j \in FromConfig(g)'
        PROVE  LET x == new[j]
                   p == OwnFormatter(defs[x.id]) IN
               /\ x.id \in 1 .. k
               /\ x.has <=> p # None
               /\ x.has => x.formatter = p
    BY <1>3, <2>3, <2>6 DEF Built
  <2>7. \A id \in 1 .. k : \E j \in FromConfig(g)' : new[j].id = id
    BY <1>3, <2>4 DEF Built
  <2>8. \A a, b \in FromConfig(g)' : a < b => new[a].id < new[b].id
    BY <1>3, <2>3, <2>5 DEF Built
  <2>9. QED
    BY <2>6, <2>7, <2>8 DEF Built
<1>4. QED
  BY <1>1, <1>2, <1>3

\* Clearing leaves what no definition asks for, and each appender that is added is the
\* next one of the definition.
LEMMA BuiltCleared ==
    ASSUME LoggerTypes, NEW g \in Loggers, ClearAppenders(g), UNCHANGED m_formatter, NEW defs
    PROVE  FromConfig(g)' = {} /\ Built(g, defs, 0)'
<1>1. m_appenders'[g] = <<>>
  BY Cleared
<1>2. FromConfig(g)' = {}
  BY <1>1 DEF FromConfig
<1>3. 1 .. 0 = {}
  OBVIOUS
<1>4. QED
  BY <1>2, <1>3 DEF Built

LEMMA BuiltAdded ==
    ASSUME LoggerTypes, NEW g \in Loggers, NEW defs, NEW k \in {0, 1}, Built(g, defs, k),
           AddAppender(g, k + 1, OwnFormatter(defs[k + 1])), UNCHANGED m_formatter
    PROVE  Built(g, defs, k + 1)'
<1> DEFINE old == m_appenders[g]
           new == m_appenders'[g]
           p == OwnFormatter(defs[k + 1])
           n == Len(old) + 1
<1>1. p \in Valid \union {None} /\ k + 1 \in {1, 2, Own} /\ k + 1 # Own
  BY LogAssumption DEF OwnFormatter
<1>2. /\ LoggerTypes' /\ Len(new) = n
      /\ \A i \in 1 .. Len(old) : new[i] = old[i]
      /\ new[n].id = k + 1
      /\ new[n].has <=> p # None
      /\ new[n].formatter = IF p # None THEN p ELSE m_formatter[g]
  BY <1>1, Appended
<1>3. Len(old) \in Nat /\ DOMAIN old = 1 .. Len(old) /\ DOMAIN new = 1 .. n
  BY <1>2, LenProperties DEF LoggerTypes
<1>4. FromConfig(g)' = FromConfig(g) \union {n} /\ n \notin FromConfig(g)
  BY <1>1, <1>2, <1>3 DEF FromConfig
<1>5. \A i \in FromConfig(g) : new[i] = old[i] /\ i < n /\ i \in Nat
  BY <1>2, <1>3 DEF FromConfig
<1> HIDE DEF n
<1>6. ASSUME NEW i \in FromConfig(g)'
      PROVE  LET x == new[i]
                 q == OwnFormatter(defs[x.id]) IN
             /\ x.id \in 1 .. k + 1
             /\ x.has <=> q # None
             /\ x.has => x.formatter = q
  <2>1. CASE i = n
    BY <1>2, <2>1
  <2>2. CASE i \in FromConfig(g)
    BY <1>5, <2>2 DEF Built
  <2>3. QED
    BY <1>4, <2>1, <2>2
<1>7. ASSUME NEW id \in 1 .. k + 1 PROVE \E i \in FromConfig(g)' : new[i].id = id
  <2>1. CASE id = k + 1
    BY <1>2, <1>4, <2>1
  <2>2. CASE id \in 1 .. k
    BY <1>4, <1>5, <2>2 DEF Built
  <2>3. QED
    BY <2>1, <2>2
<1>8. ASSUME NEW i \in FromConfig(g)', NEW j \in FromConfig(g)', i < j
      PROVE  new[i].id < new[j].id
  <2>1. CASE i \in FromConfig(g) /\ j \in FromConfig(g)
    BY <1>5, <1>8, <2>1 DEF Built
  <2>2. CASE i \in FromConfig(g) /\ j = n
    <3>1. old[i].id \in 1 .. k
      BY <2>2 DEF Built
    <3>2. QED
      BY <1>2, <1>5, <2>2, <3>1
  <2>3. CASE i = n
    BY <1>3, <1>4, <1>5, <1>8, <2>3 DEF n
  <2>4. QED
    BY <1>4, <2>1, <2>2, <2>3
<1>9. QED
  BY <1>6, <1>7, <1>8 DEF Built

-----------------------------------------------------------------------------
(* The listener applies the configuration *)

Definition == Define \union {None}

\* Logger n keeps the appenders it has from the configuration: nobody touches its list,
\* or it is changed by hand, or its formatter is set.
Kept(n) ==
    \/ m_appenders'[n] = m_appenders[n]
    \/ \E g \in Loggers, p \in Valid : SetFormatter(g, p)
    \/ \E g \in Loggers, p \in Valid \union {None} :
          AddAppender(g, Own, p) /\ UNCHANGED m_formatter
    \/ \E g \in Loggers : DelAppender(g, Own) /\ UNCHANGED m_formatter

LEMMA BuiltKept ==
    ASSUME LoggerTypes, NEW n \in Loggers, Kept(n), NEW defs, NEW k, Built(n, defs, k)
    PROVE  Built(n, defs, k)'
<1>1. CASE m_appenders'[n] = m_appenders[n]
  <2>1. FromConfig(n)' = FromConfig(n)
    BY <1>1 DEF FromConfig
  <2>2. QED
    BY <1>1, <2>1, BuiltSame
<1>2. QED
  BY <1>1, BuiltFormatted, BuiltOwnAdded, BuiltOwnDeleted DEF Kept

\* No appender that is not the user's comes to a list that is kept.
LEMMA IdsKept ==
    ASSUME LoggerTypes, NEW n \in Loggers, Kept(n), NEW i \in FromConfig(n)'
    PROVE  \E j \in FromConfig(n) : m_appenders[n][j].id = m_appenders'[n][i].id
<1>1. CASE m_appenders'[n] = m_appenders[n]
  BY <1>1 DEF FromConfig
<1>2. ASSUME NEW g \in Loggers, NEW p \in Valid, SetFormatter(g, p), m_appenders'[n] # m_appenders[n]
      PROVE  \E j \in FromConfig(n) : m_appenders[n][j].id = m_appenders'[n][i].id
  <2>1. /\ n = g
        /\ DOMAIN m_appenders'[g] = DOMAIN m_appenders[g]
        /\ \A k \in DOMAIN m_appenders[g] : m_appenders'[g][k].id = m_appenders[g][k].id
    BY <1>2, Formatted
  <2>2. QED
    BY <2>1 DEF FromConfig
<1>3. ASSUME NEW g \in Loggers, NEW p \in Valid \union {None}, AddAppender(g, Own, p),
             UNCHANGED m_formatter, m_appenders'[n] # m_appenders[n]
      PROVE  \E j \in FromConfig(n) : m_appenders[n][j].id = m_appenders'[n][i].id
  <2>1. /\ LoggerTypes' /\ n = g
        /\ Len(m_appenders'[g]) = Len(m_appenders[g]) + 1
        /\ \A k \in 1 .. Len(m_appenders[g]) : m_appenders'[g][k] = m_appenders[g][k]
        /\ m_appenders'[g][Len(m_appenders[g]) + 1].id = Own
    BY <1>3, Appended
  <2>2. /\ Len(m_appenders[g]) \in Nat
        /\ DOMAIN m_appenders[g] = 1 .. Len(m_appenders[g])
        /\ DOMAIN m_appenders'[g] = 1 .. Len(m_appenders[g]) + 1
    BY <2>1, LenProperties DEF LoggerTypes
  <2>3. i \in 1 .. Len(m_appenders[g])
    BY <2>1, <2>2 DEF FromConfig
  <2>4. QED
    BY <2>1, <2>2, <2>3 DEF FromConfig
<1>4. ASSUME NEW g \in Loggers, DelAppender(g, Own), UNCHANGED m_formatter,
             m_appenders'[n] # m_appenders[n]
      PROVE  \E j \in FromConfig(n) : m_appenders[n][j].id = m_appenders'[n][i].id
  <2> DEFINE old == m_appenders[g]
             new == m_appenders'[g]
  <2>1. /\ LoggerTypes' /\ n = g
        /\ \E k \in 1 .. Len(old) :
              /\ Len(new) = Len(old) - 1
              /\ \A j \in 1 .. Len(old) - 1 : new[j] = IF j < k THEN old[j] ELSE old[j + 1]
    BY <1>4, Deleted
  <2>2. PICK k \in 1 .. Len(old) :
           /\ Len(new) = Len(old) - 1
           /\ \A j \in 1 .. Len(old) - 1 : new[j] = IF j < k THEN old[j] ELSE old[j + 1]
    BY <2>1
  <2>3. Len(old) \in Nat /\ DOMAIN old = 1 .. Len(old) /\ DOMAIN new = 1 .. Len(old) - 1
    BY <2>1, <2>2, LenProperties DEF LoggerTypes
  <2>4. i \in 1 .. Len(old) - 1 /\ new[i].id # Own
    BY <2>1, <2>3 DEF FromConfig
  <2>5. PICK j \in {i, i + 1} : new[i] = old[j]
    BY <2>2, <2>4
  <2>6. j \in 1 .. Len(old)
    BY <2>3, <2>4
  <2>7. QED
    BY <2>1, <2>3, <2>4, <2>5, <2>6 DEF FromConfig
<1>5. QED
  BY <1>1, <1>2, <1>3, <1>4 DEF Kept

LEMMA AppliedKept ==
    ASSUME LoggerTypes, NEW n \in Loggers, Kept(n), m_level'[n] = m_level[n],
           NEW d, Applied(n, d)
    PROVE  Applied(n, d)'
<1>1. CASE d = None
  <2>1. \A i \in FromConfig(n)' : \E j \in FromConfig(n) : m_appenders[n][j].id = m_appenders'[n][i].id
    BY IdsKept
  <2>2. \/ m_level[n] = 1 /\ \A i \in FromConfig(n) : m_appenders[n][i].id = 0
        \/ m_level[n] = Off /\ FromConfig(n) = {}
    BY <1>1 DEF Applied
  <2>3. QED
    BY <1>1, <2>1, <2>2 DEF Applied
<1>2. CASE d # None
  <2>1. m_level[n] = d.level /\ Built(n, d.appenders, Len(d.appenders))
    BY <1>2 DEF Applied
  <2>2. Built(n, d.appenders, Len(d.appenders))'
    BY <2>1, BuiltKept
  <2>3. QED
    BY <1>2, <2>1, <2>2 DEF Applied
<1>3. QED
  BY <1>1, <1>2

\* How far setter s is with the listener: it has still to call it, it is in it, or it has
\* called it.
Unheard(s) ==
    at[s] = "out" \/ (at[s] = "notify" /\ job[s].step = "none" /\ "log" \in todo[s])
HeardIt(s) == at[s] = "store" \/ (at[s] = "notify" /\ "log" \notin todo[s])

\* Before the listener runs the loggers are as the old value says, afterwards as the new
\* one says.  While it runs, those that it is through with, and those that do not
\* change, are as the new value says; the one it is at has its level and the appenders
\* made so far.
Progress(s) ==
    /\ Unheard(s) => \A n \in Names, d \in Definition : d = m_val[n] => Applied(n, d)
    /\ HeardIt(s) => \A n \in Names, d \in Definition : d = arg[s][n] => Applied(n, d)
    /\ job[s].step # "none" =>
          /\ \A n \in Names \ (job[s].names \union job[s].gone), d \in Definition :
                n # job[s].name /\ d = arg[s][n] => Applied(n, d)
          /\ \A n \in job[s].gone : arg[s][n] = None
    /\ job[s].step = "next" => job[s].name = None
    /\ job[s].step \in {"format", "clear", "add"} =>
          m_level[job[s].name] = arg[s][job[s].name].level
    /\ job[s].step = "add" => \A n \in Names, d \in Definition, k \in Nat :
          n = job[s].name /\ d = arg[s][n] /\ k + 1 = job[s].add =>
             k <= Len(d.appenders) /\ Built(n, d.appenders, k)
    /\ job[s].step = "off" => arg[s][job[s].name] = None /\ m_level[job[s].name] = Off

\* What the listener has got to after each of its steps.
LEMMA ListenerMoves ==
    ASSUME JobShape, NEW s \in Setters
    PROVE  /\ ListenerBegin(s) =>
                 /\ job'[s].step = "next" /\ job'[s].name = None
                 /\ job'[s].names = Changed(m_val, arg[s]) /\ job'[s].gone = Gone(m_val, arg[s])
           /\ ListenerLevel(s) => \E n \in job[s].names :
                 /\ job'[s].step = "format" /\ job'[s].name = n
                 /\ job'[s].names = job[s].names \ {n} /\ job'[s].gone = job[s].gone
                 /\ m_level' = [m_level EXCEPT ![n] = arg[s][n].level]
           /\ ListenerFormat(s) =>
                 /\ job'[s].step = "clear" /\ job'[s].name = job[s].name
                 /\ job'[s].names = job[s].names /\ job'[s].gone = job[s].gone
           /\ ListenerClear(s) =>
                 /\ job'[s].step = "add" /\ job'[s].name = job[s].name /\ job'[s].add = 1
                 /\ job'[s].names = job[s].names /\ job'[s].gone = job[s].gone
           /\ ListenerAdd(s) =>
                 LET more == job[s].add \in DOMAIN arg[s][job[s].name].appenders IN
                 /\ job'[s].step = (IF more THEN "add" ELSE "next")
                 /\ job'[s].name = (IF more THEN job[s].name ELSE None)
                 /\ more => job'[s].add = job[s].add + 1
                 /\ job'[s].names = job[s].names /\ job'[s].gone = job[s].gone
           /\ ListenerOff(s) => \E n \in job[s].gone :
                 /\ job'[s].step = "off" /\ job'[s].name = n
                 /\ job'[s].names = job[s].names /\ job'[s].gone = job[s].gone \ {n}
                 /\ m_level' = [m_level EXCEPT ![n] = Off]
           /\ ListenerOffClear(s) =>
                 /\ job'[s].step = "next" /\ job'[s].name = None
                 /\ job'[s].names = job[s].names /\ job'[s].gone = job[s].gone
           /\ ListenerEnd(s) => job'[s].step = "none"
<1> DEFINE j == job[s]
<1>1. j \in Jobs /\ \A new : Job(s, new) => job'[s] = new
  BY DEF JobShape, Job
<1>2. ListenerBegin(s) =>
         job'[s] = [NoJob EXCEPT !.step = "next", !.names = Changed(m_val, arg[s]),
                                 !.gone = Gone(m_val, arg[s])]
  BY <1>1 DEF ListenerBegin
<1>3. ListenerLevel(s) => \E n \in j.names :
         /\ job'[s] = [j EXCEPT !.name = n, !.names = @ \ {n}, !.step = "format"]
         /\ m_level' = [m_level EXCEPT ![n] = arg[s][n].level]
  BY <1>1 DEF ListenerLevel
<1>4. ListenerFormat(s) => job'[s] = [j EXCEPT !.step = "clear"]
  BY <1>1 DEF ListenerFormat
<1>5. ListenerClear(s) => job'[s] = [j EXCEPT !.step = "add", !.add = 1]
  BY <1>1 DEF ListenerClear
<1>6. ListenerAdd(s) => j.step = "add" /\ job'[s] =
         IF j.add \in DOMAIN arg[s][j.name].appenders THEN [j EXCEPT !.add = @ + 1]
         ELSE [j EXCEPT !.step = "next", !.name = None, !.add = 0]
  BY <1>1 DEF ListenerAdd, InStep
<1>7. ListenerOff(s) => \E n \in j.gone :
         /\ job'[s] = [j EXCEPT !.name = n, !.gone = @ \ {n}, !.step = "off"]
         /\ m_level' = [m_level EXCEPT ![n] = Off]
  BY <1>1 DEF ListenerOff
<1>8. ListenerOffClear(s) => job'[s] = [j EXCEPT !.step = "next", !.name = None]
  BY <1>1 DEF ListenerOffClear
<1>9. ListenerEnd(s) => job'[s] = NoJob
  BY <1>1 DEF ListenerEnd
<1>10. NoJob \in Jobs /\ NoJob.step = "none" /\ NoJob.name = None
  BY DEF NoJob, Jobs
<1>11. QED
  <2> HIDE DEF j
  <2>1. ListenerBegin(s) =>
           /\ job'[s].step = "next" /\ job'[s].name = None
           /\ job'[s].names = Changed(m_val, arg[s]) /\ job'[s].gone = Gone(m_val, arg[s])
    BY <1>2, <1>10 DEF Jobs
  <2>2. ASSUME ListenerLevel(s)
        PROVE  \E n \in j.names :
                  /\ job'[s].step = "format" /\ job'[s].name = n
                  /\ job'[s].names = j.names \ {n} /\ job'[s].gone = j.gone
                  /\ m_level' = [m_level EXCEPT ![n] = arg[s][n].level]
    BY <1>1, <1>3, <2>2 DEF Jobs
  <2>3. ListenerFormat(s) =>
           /\ job'[s].step = "clear" /\ job'[s].name = j.name
           /\ job'[s].names = j.names /\ job'[s].gone = j.gone
    BY <1>1, <1>4 DEF Jobs
  <2>4. ListenerClear(s) =>
           /\ job'[s].step = "add" /\ job'[s].name = j.name /\ job'[s].add = 1
           /\ job'[s].names = j.names /\ job'[s].gone = j.gone
    BY <1>1, <1>5 DEF Jobs
  <2>5. ListenerAdd(s) =>
           LET more == j.add \in DOMAIN arg[s][j.name].appenders IN
           /\ job'[s].step = (IF more THEN "add" ELSE "next")
           /\ job'[s].name = (IF more THEN j.name ELSE None)
           /\ more => job'[s].add = j.add + 1
           /\ job'[s].names = j.names /\ job'[s].gone = j.gone
    BY <1>1, <1>6 DEF Jobs
  <2>6. ASSUME ListenerOff(s)
        PROVE  \E n \in j.gone :
                  /\ job'[s].step = "off" /\ job'[s].name = n
                  /\ job'[s].names = j.names /\ job'[s].gone = j.gone \ {n}
                  /\ m_level' = [m_level EXCEPT ![n] = Off]
    BY <1>1, <1>7, <2>6 DEF Jobs
  <2>7. ListenerOffClear(s) =>
           /\ job'[s].step = "next" /\ job'[s].name = None
           /\ job'[s].names = j.names /\ job'[s].gone = j.gone
    BY <1>1, <1>8 DEF Jobs
  <2>8. ListenerEnd(s) => job'[s].step = "none"
    BY <1>9, <1>10
  <2>9. QED
    BY <2>1, <2>2, <2>3, <2>4, <2>5, <2>6, <2>7, <2>8 DEF j

\* One step of the listener, for the setter that runs it.
LEMMA ListenerProgress ==
    ASSUME LoggerInv, LevelTypes, NEW s \in Setters, Progress(s),
           ListenerStep(s), \A l \in Listeners : ~ OtherListener(s, l)
    PROVE  Progress(s)'
<1> DEFINE j == job[s]
<1>0. /\ ReadLock /\ JobShape /\ LoggerTypes /\ Names \subseteq Loggers /\ None \notin Names
      /\ j.name \in Names => j.name \in Loggers
  BY LogNone DEF LoggerInv, Loggers
<1>1. /\ at[s] = "notify" /\ "log" \in todo[s] /\ at' = at /\ arg' = arg /\ m_val' = m_val
      /\ ~ ListenerEnd(s) => todo' = todo
  BY <1>0 DEF ListenerStep, ListenerBegin, ListenerLevel, ListenerFormat, ListenerClear,
     ListenerAdd, ListenerOff, ListenerOffClear, ListenerEnd, Heard, InStep, configVars, JobShape
<1>2. arg[s] \in Values /\ m_val \in Values
      /\ \A n \in Names : arg[s][n] \in Definition /\ m_val[n] \in Definition
  BY <1>0, DefinitionTypes DEF JobShape, Definition
<1>3. ASSUME NEW n \in Names, NEW d, Kept(n), m_level'[n] = m_level[n], Applied(n, d)
      PROVE  Applied(n, d)'
  BY <1>0, <1>3, AppliedKept
<1>4. ASSUME job'[s].step # "none", todo' = todo
      PROVE  ~ Unheard(s)' /\ ~ HeardIt(s)'
  BY <1>1, <1>4 DEF Unheard, HeardIt
<1>5. CASE ListenerBegin(s)
  <2>1. /\ job'[s].step = "next" /\ job'[s].name = None
        /\ job'[s].names = Changed(m_val, arg[s]) /\ job'[s].gone = Gone(m_val, arg[s])
    BY <1>0, <1>5, ListenerMoves
  <2>2. UNCHANGED <<m_level, m_appenders, todo>> /\ j.step = "none"
    BY <1>5 DEF ListenerBegin, loggerVars, InStep, configVars
  <2>3. ASSUME NEW n \in Names \ (job'[s].names \union job'[s].gone), NEW d \in Definition,
               d = arg'[s][n]
        PROVE  Applied(n, d)'
    <3>1. d = m_val[n]
      BY <1>1, <2>1, <2>3 DEF Changed, Gone
    <3>2. Applied(n, d)
      BY <1>1, <2>2, <3>1 DEF Progress, Unheard
    <3>3. QED
      BY <1>3, <2>2, <3>2 DEF Kept
  <2>4. \A n \in job'[s].gone : arg'[s][n] = None
    BY <1>1, <2>1 DEF Gone
  <2>5. QED
    BY <1>4, <2>1, <2>2, <2>3, <2>4 DEF Progress
<1>6. CASE ListenerLevel(s)
  <2>1. PICK m \in j.names :
           /\ job'[s].step = "format" /\ job'[s].name = m
           /\ job'[s].names = j.names \ {m} /\ job'[s].gone = j.gone
           /\ m_level' = [m_level EXCEPT ![m] = arg[s][m].level]
    BY <1>0, <1>6, ListenerMoves
  <2>2. UNCHANGED <<m_appenders, todo>> /\ j.step = "next" /\ m \in Names
    BY <1>0, <1>6 DEF ListenerLevel, InStep, configVars, JobShape, Jobs
  <2>3. ASSUME NEW n \in Names \ (job'[s].names \union job'[s].gone), NEW d \in Definition,
               n # job'[s].name, d = arg'[s][n]
        PROVE  Applied(n, d)'
    <3>1. n \notin j.names \union j.gone /\ n # j.name /\ n # m
      BY <1>0, <2>1, <2>2, <2>3 DEF Progress
    <3>2. Applied(n, d)
      BY <1>1, <2>2, <2>3, <3>1 DEF Progress
    <3>3. m_level'[n] = m_level[n]
      BY <1>0, <2>1, <3>1 DEF LevelTypes
    <3>4. QED
      BY <1>3, <2>2, <3>2, <3>3 DEF Kept
  <2>4. m_level'[m] = arg[s][m].level
    BY <1>0, <2>1, <2>2 DEF LevelTypes
  <2>5. \A n \in job'[s].gone : arg'[s][n] = None
    BY <1>1, <2>1, <2>2 DEF Progress
  <2>6. QED
    BY <1>1, <1>4, <2>1, <2>2, <2>3, <2>4, <2>5 DEF Progress
<1>7. CASE ListenerFormat(s)
  <2>1. /\ job'[s].step = "clear" /\ job'[s].name = j.name
        /\ job'[s].names = j.names /\ job'[s].gone = j.gone
    BY <1>0, <1>7, ListenerMoves
  <2>2. UNCHANGED <<m_level, todo>> /\ j.step = "format" /\ j.name \in Loggers
    BY <1>0, <1>7 DEF ListenerFormat, InStep, configVars, JobShape
  <2>3. ASSUME NEW n \in Names PROVE Kept(n)
    BY <1>7, <2>2 DEF ListenerFormat, SetFormatter, Kept
  <2>4. ASSUME NEW n \in Names \ (job'[s].names \union job'[s].gone), NEW d \in Definition,
               n # job'[s].name, d = arg'[s][n]
        PROVE  Applied(n, d)'
    <3>1. Applied(n, d)
      BY <1>1, <2>1, <2>2, <2>4 DEF Progress
    <3>2. QED
      BY <1>3, <2>2, <2>3, <3>1
  <2>5. QED
    BY <1>1, <1>4, <2>1, <2>2, <2>4 DEF Progress
<1>8. CASE ListenerClear(s)
  <2>1. /\ job'[s].step = "add" /\ job'[s].name = j.name /\ job'[s].add = 1
        /\ job'[s].names = j.names /\ job'[s].gone = j.gone
    BY <1>0, <1>8, ListenerMoves
  <2>2. /\ UNCHANGED <<m_level, m_formatter, todo>> /\ j.step = "clear"
        /\ j.name \in Names /\ j.name \in Loggers /\ ClearAppenders(j.name)
        /\ arg[s][j.name] # None
    BY <1>0, <1>8 DEF ListenerClear, InStep, configVars, JobShape
  <2>3. ASSUME NEW n \in Names, n # j.name PROVE Kept(n)
    BY <1>0, <2>2, <2>3, Cleared DEF Kept
  <2>4. ASSUME NEW n \in Names \ (job'[s].names \union job'[s].gone), NEW d \in Definition,
               n # job'[s].name, d = arg'[s][n]
        PROVE  Applied(n, d)'
    <3>1. Applied(n, d)
      BY <1>1, <2>1, <2>2, <2>4 DEF Progress
    <3>2. QED
      BY <1>3, <2>1, <2>2, <2>3, <2>4, <3>1
  <2>5. ASSUME NEW n \in Names, NEW d \in Definition, NEW k \in Nat,
               n = job'[s].name, d = arg'[s][n], k + 1 = job'[s].add
        PROVE  k <= Len(d.appenders) /\ Built(n, d.appenders, k)'
    <3>1. k = 0 /\ n = j.name /\ d = arg[s][j.name]
      BY <1>1, <2>1, <2>5
    <3>2. Len(d.appenders) \in 0 .. 2
      BY <1>2, <2>2, <3>1, DefinitionTypes
    <3>3. Built(n, d.appenders, 0)'
      BY <1>0, <2>2, <3>1, BuiltCleared
    <3>4. QED
      BY <3>1, <3>2, <3>3
  <2>6. QED
    BY <1>1, <1>4, <2>1, <2>2, <2>4, <2>5 DEF Progress
<1>9. CASE ListenerAdd(s)
  <2> DEFINE def == arg[s][j.name]
             more == j.add \in DOMAIN def.appenders
  <2>1. /\ job'[s].step = (IF more THEN "add" ELSE "next")
        /\ job'[s].name = (IF more THEN j.name ELSE None)
        /\ more => job'[s].add = j.add + 1
        /\ job'[s].names = j.names /\ job'[s].gone = j.gone
    BY <1>0, <1>9, ListenerMoves
  <2>2. /\ UNCHANGED <<m_level, m_formatter, todo>> /\ j.step = "add"
        /\ j.name \in Names /\ j.name \in Loggers /\ def # None /\ j.add \in Nat /\ j.add > 0
        /\ IF more THEN AddAppender(j.name, j.add, OwnFormatter(def.appenders[j.add]))
           ELSE UNCHANGED m_appenders
    BY <1>0, <1>9 DEF ListenerAdd, InStep, configVars, JobShape, Jobs
  <2>3. /\ Len(def.appenders) \in 0 .. 2 /\ DOMAIN def.appenders = 1 .. Len(def.appenders)
        /\ def \in Definition
    BY <1>2, <2>2, DefinitionTypes
  <2>4. PICK k \in Nat : k + 1 = j.add
    BY <2>2
  <2>5. k <= Len(def.appenders) /\ Built(j.name, def.appenders, k)
    BY <2>2, <2>3, <2>4 DEF Progress
  <2>6. m_level[j.name] = def.level
    BY <2>2 DEF Progress
  <2>7. \A n \in job'[s].gone : arg'[s][n] = None
    BY <1>1, <2>1, <2>2 DEF Progress
  <2>8. CASE more
    <3>1. k \in {0, 1} /\ k + 1 <= Len(def.appenders)
      BY <2>2, <2>3, <2>4, <2>8
    <3>2. k + 1 \in {1, 2, Own} /\ OwnFormatter(def.appenders[k + 1]) \in Valid \union {None}
      BY <3>1 DEF OwnFormatter
    <3>3. AddAppender(j.name, k + 1, OwnFormatter(def.appenders[k + 1]))
      BY <2>2, <2>4, <2>8
    <3>4. ASSUME NEW n \in Names, n # j.name PROVE Kept(n)
      BY <1>0, <2>2, <3>2, <3>3, <3>4, Appended, SMTT(30) DEF Kept
    <3>5. ASSUME NEW n \in Names \ (job'[s].names \union job'[s].gone), NEW d \in Definition,
                 n # job'[s].name, d = arg'[s][n]
          PROVE  Applied(n, d)'
      <4>1. Applied(n, d)
        BY <1>1, <2>1, <2>2, <2>8, <3>5 DEF Progress
      <4>2. QED
        BY <1>3, <2>1, <2>2, <2>8, <3>4, <3>5, <4>1
    <3>6. ASSUME NEW n \in Names, NEW d \in Definition, NEW q \in Nat,
                 n = job'[s].name, d = arg'[s][n], q + 1 = job'[s].add
          PROVE  q <= Len(d.appenders) /\ Built(n, d.appenders, q)'
      <4>1. n = j.name /\ d = def /\ q = k + 1
        BY <1>1, <2>1, <2>4, <2>8, <3>6
      <4>2. Built(n, d.appenders, k) /\ AddAppender(n, k + 1, OwnFormatter(d.appenders[k + 1]))
        BY <2>5, <3>3, <4>1
      <4>3. Built(n, d.appenders, k + 1)'
        BY <1>0, <2>2, <3>1, <4>1, <4>2, BuiltAdded
      <4>4. QED
        BY <3>1, <4>1, <4>3
    <3>7. QED
      BY <1>1, <1>4, <2>1, <2>2, <2>6, <2>7, <2>8, <3>5, <3>6 DEF Progress
  <2>9. CASE ~ more
    <3>1. k = Len(def.appenders)
      BY <2>2, <2>3, <2>4, <2>5, <2>9
    <3>2. Applied(j.name, def)
      BY <2>2, <2>5, <2>6, <3>1 DEF Applied
    <3>3. ASSUME NEW n \in Names \ (job'[s].names \union job'[s].gone), NEW d \in Definition,
                 d = arg'[s][n]
          PROVE  Applied(n, d)'
      <4>1. n = j.name => Applied(n, d)
        BY <1>1, <3>2, <3>3
      <4>2. n # j.name => Applied(n, d)
        BY <1>1, <2>1, <2>2, <3>3 DEF Progress
      <4>3. QED
        BY <1>3, <2>2, <2>9, <4>1, <4>2 DEF Kept
    <3>4. QED
      BY <1>1, <1>4, <2>1, <2>2, <2>7, <2>9, <3>3 DEF Progress
  <2>10. QED
    BY <2>8, <2>9
<1>10. CASE ListenerOff(s)
  <2>1. PICK m \in j.gone :
           /\ job'[s].step = "off" /\ job'[s].name = m
           /\ job'[s].names = j.names /\ job'[s].gone = j.gone \ {m}
           /\ m_level' = [m_level EXCEPT ![m] = Off]
    BY <1>0, <1>10, ListenerMoves
  <2>2. UNCHANGED <<m_appenders, todo>> /\ j.step = "next" /\ m \in Names
    BY <1>0, <1>10 DEF ListenerOff, InStep, configVars, JobShape, Jobs
  <2>3. ASSUME NEW n \in Names \ (job'[s].names \union job'[s].gone), NEW d \in Definition,
               n # job'[s].name, d = arg'[s][n]
        PROVE  Applied(n, d)'
    <3>1. n \notin j.names \union j.gone /\ n # j.name /\ n # m
      BY <1>0, <2>1, <2>2, <2>3 DEF Progress
    <3>2. Applied(n, d)
      BY <1>1, <2>2, <2>3, <3>1 DEF Progress
    <3>3. m_level'[n] = m_level[n]
      BY <1>0, <2>1, <3>1 DEF LevelTypes
    <3>4. QED
      BY <1>3, <2>2, <3>2, <3>3 DEF Kept
  <2>4. m_level'[m] = Off
    BY <1>0, <2>1, <2>2 DEF LevelTypes
  <2>5. arg'[s][m] = None /\ \A n \in job'[s].gone : arg'[s][n] = None
    BY <1>1, <2>1, <2>2 DEF Progress
  <2>6. QED
    BY <1>1, <1>4, <2>1, <2>2, <2>3, <2>4, <2>5 DEF Progress
<1>11. CASE ListenerOffClear(s)
  <2>1. /\ job'[s].step = "next" /\ job'[s].name = None
        /\ job'[s].names = j.names /\ job'[s].gone = j.gone
    BY <1>0, <1>11, ListenerMoves
  <2>2. /\ UNCHANGED <<m_level, m_formatter, todo>> /\ j.step = "off"
        /\ j.name \in Names /\ j.name \in Loggers /\ ClearAppenders(j.name)
    BY <1>0, <1>11 DEF ListenerOffClear, InStep, configVars, JobShape
  <2>3. ASSUME NEW n \in Names, n # j.name PROVE Kept(n)
    BY <1>0, <2>2, <2>3, Cleared DEF Kept
  <2>4. arg[s][j.name] = None /\ m_level[j.name] = Off
    BY <2>2 DEF Progress
  <2>5. ASSUME NEW n \in Names \ (job'[s].names \union job'[s].gone), NEW d \in Definition,
               d = arg'[s][n]
        PROVE  Applied(n, d)'
    <3>1. CASE n = j.name
      <4>1. d = None /\ m_level'[n] = Off
        BY <1>1, <2>2, <2>4, <2>5, <3>1
      <4>2. FromConfig(n)' = {}
        BY <1>0, <2>2, <3>1, BuiltCleared
      <4>3. QED
        BY <4>1, <4>2 DEF Applied
    <3>2. CASE n # j.name
      <4>1. Applied(n, d)
        BY <1>1, <2>1, <2>2, <2>5, <3>2 DEF Progress
      <4>2. QED
        BY <1>3, <2>2, <2>3, <3>2, <4>1
    <3>3. QED
      BY <3>1, <3>2
  <2>6. \A n \in job'[s].gone : arg'[s][n] = None
    BY <1>1, <2>1, <2>2 DEF Progress
  <2>7. QED
    BY <1>1, <1>4, <2>1, <2>2, <2>5, <2>6 DEF Progress
<1>12. CASE ListenerEnd(s)
  <2>1. job'[s].step = "none"
    BY <1>0, <1>12, ListenerMoves
  <2>2. /\ UNCHANGED <<m_level, m_appenders>> /\ j.step = "next"
        /\ j.names = {} /\ j.gone = {} /\ todo' = [todo EXCEPT ![s] = @ \ {"log"}]
    BY <1>12 DEF ListenerEnd, InStep, Heard, loggerVars
  <2>3. "log" \notin todo'[s]
    BY <1>0, <2>2 DEF ReadLock
  <2>4. ASSUME NEW n \in Names, NEW d \in Definition, d = arg'[s][n] PROVE Applied(n, d)'
    <3>1. n # j.name
      BY <1>0, <2>2 DEF Progress
    <3>2. Applied(n, d)
      BY <1>1, <2>2, <2>4, <3>1 DEF Progress
    <3>3. QED
      BY <1>3, <2>2, <3>2 DEF Kept
  <2>5. ~ Unheard(s)'
    BY <1>1, <2>3 DEF Unheard
  <2>6. QED
    BY <2>1, <2>4, <2>5 DEF Progress
<1>13. QED
  BY <1>5, <1>6, <1>7, <1>8, <1>9, <1>10, <1>11, <1>12 DEF ListenerStep

\* The listener of the loggers is registered before main() and not again.
LEMMA NeverRegisteredAgain ==
    ASSUME [Next]_vars, "log" \in m_cbs'
    PROVE  "log" \in m_cbs
<1>1. ASSUME NEW s \in Setters, SetterStep(s) PROVE UNCHANGED m_cbs
  BY <1>1 DEF SetterStep, ListenerStep, ListenerBegin, ListenerLevel, ListenerFormat,
     ListenerClear, ListenerAdd, ListenerOff, ListenerOffClear, ListenerEnd, OtherListener,
     Heard, Unlock, Store, configVars
<1>2. ASSUME Register PROVE "log" \in m_cbs
  BY <1>2 DEF Register, AddListener, DelListener, ClearListener
<1>3. ASSUME \/ \E w \in Writers : WriterStep(w)
             \/ \E w \in Writers, g \in Loggers, level \in Levels \ {0} : LogBegin(w, g, level)
             \/ \E g \in Loggers : Edit(g)
             \/ \E s \in Setters, v \in Values : SetValue(s, v)
             \/ UNCHANGED vars
      PROVE  UNCHANGED m_cbs
  BY <1>3 DEF WriterStep, LogBegin, LogEnter, LogRoot, LogWrite, LogEnd, Edit, SetValue, vars,
     configVars
<1>4. QED
  BY <1>1, <1>2, <1>3 DEF Next

LEMMA ProgressStep ==
    ASSUME LoggerInv, LevelTypes, NEW s \in Setters, \A t \in Setters : t = s,
           "log" \in m_cbs', Progress(s), [Next]_vars
    PROVE  Progress(s)'
<1>0. ReadLock /\ JobShape /\ LoggerTypes /\ "log" \in m_cbs /\ Names \subseteq Loggers
  BY NeverRegisteredAgain DEF LoggerInv, Loggers
<1>1. ASSUME \A n \in Names : Kept(n), UNCHANGED m_level
      PROVE  \A n \in Names, d \in Definition : Applied(n, d) => Applied(n, d)'
  BY <1>0, <1>1, AppliedKept
<1>2. ASSUME \A n \in Names : Kept(n), UNCHANGED m_level
      PROVE  \A n \in Names, d \in Definition, k \in Nat :
                Built(n, d.appenders, k) => Built(n, d.appenders, k)'
  BY <1>0, <1>2, BuiltKept
<1>3. ASSUME UNCHANGED <<m_val, at, arg, todo, job, m_level>>, \A n \in Names : Kept(n)
      PROVE  Progress(s)'
  <2>1. Unheard(s)' = Unheard(s) /\ HeardIt(s)' = HeardIt(s)
    BY <1>3 DEF Unheard, HeardIt
  <2>2. QED
    BY <1>1, <1>2, <1>3, <2>1 DEF Progress
<1>4. ASSUME UNCHANGED <<m_appenders, m_level>>
      PROVE  \A n \in Names, d \in Definition : Applied(n, d) => Applied(n, d)'
  BY <1>1, <1>4 DEF Kept
<1>5. ASSUME NEW v \in Values, SetValue(s, v), UNCHANGED <<loggerVars, job>> PROVE Progress(s)'
  <2>1. at[s] = "out" /\ at'[s] = "notify" /\ "log" \in todo'[s] /\ UNCHANGED m_val
    BY <1>0, <1>5 DEF SetValue, ReadLock
  <2>2. job'[s].step = "none"
    BY <1>0, <1>5, <2>1 DEF JobShape
  <2>3. Unheard(s) /\ ~ HeardIt(s)'
    BY <2>1 DEF Unheard, HeardIt
  <2>4. QED
    BY <1>4, <1>5, <2>1, <2>2, <2>3 DEF Progress, loggerVars
<1>6. ASSUME Unlock(s), UNCHANGED <<loggerVars, job>> PROVE Progress(s)'
  <2>1. at[s] = "notify" /\ todo[s] = {} /\ at'[s] = "store" /\ UNCHANGED arg
    BY <1>0, <1>6 DEF Unlock, ReadLock
  <2>2. job'[s].step = "none"
    BY <1>0, <1>6, <2>1 DEF JobShape
  <2>3. HeardIt(s) /\ ~ Unheard(s)'
    BY <2>1 DEF Unheard, HeardIt
  <2>4. QED
    BY <1>4, <1>6, <2>1, <2>2, <2>3 DEF Progress, loggerVars
<1>7. ASSUME Store(s), UNCHANGED <<loggerVars, job>> PROVE Progress(s)'
  <2>1. at[s] = "store" /\ at'[s] = "out" /\ m_val' = arg[s]
    BY <1>0, <1>7 DEF Store, ReadLock
  <2>2. job'[s].step = "none"
    BY <1>0, <1>7, <2>1 DEF JobShape
  <2>3. HeardIt(s) /\ ~ HeardIt(s)'
    BY <2>1 DEF HeardIt
  <2>4. QED
    BY <1>4, <1>7, <2>1, <2>2, <2>3 DEF Progress, loggerVars
<1>8. ASSUME NEW l \in Listeners, OtherListener(s, l) PROVE Progress(s)'
  <2>1. /\ UNCHANGED <<m_val, at, arg, job, m_level, m_appenders>> /\ job[s].step = "none"
        /\ "log" \in todo'[s] <=> "log" \in todo[s]
    BY <1>0, <1>8 DEF OtherListener, Heard, InStep, loggerVars, ReadLock
  <2>2. Unheard(s)' = Unheard(s) /\ HeardIt(s)' = HeardIt(s)
    BY <2>1 DEF Unheard, HeardIt
  <2>3. QED
    BY <1>4, <2>1, <2>2 DEF Progress
<1>9. ASSUME ListenerStep(s) PROVE Progress(s)'
  BY <1>8, <1>9, ListenerProgress
<1>10. ASSUME NEW g \in Loggers, Edit(g) PROVE Progress(s)'
  <2>1. UNCHANGED <<m_val, at, arg, todo, job, m_level>>
    BY <1>10 DEF Edit, configVars
  <2>2. ASSUME NEW n \in Names PROVE Kept(n)
    <3>1. ASSUME NEW p \in Patterns, SetFormatter(g, p) PROVE Kept(n)
      BY <3>1 DEF SetFormatter, Kept
    <3>2. QED
      BY <1>10, <3>1 DEF Edit, Kept
  <2>3. QED
    BY <1>3, <2>1, <2>2
<1>11. ASSUME \/ \E w \in Writers : WriterStep(w)
              \/ \E w \in Writers, g \in Loggers, level \in Levels \ {0} : LogBegin(w, g, level)
              \/ Register
              \/ UNCHANGED vars
       PROVE  Progress(s)'
  <2>1. UNCHANGED <<m_val, at, arg, todo, job, m_level, m_appenders>>
    BY <1>11 DEF WriterStep, LogBegin, LogEnter, LogRoot, LogWrite, LogEnd, vars, Register,
       AddListener, DelListener, ClearListener, configVars, loggerVars
  <2>2. QED
    BY <1>3, <2>1 DEF Kept
<1>12. QED
  BY <1>5, <1>6, <1>7, <1>9, <1>10, <1>11 DEF Next, SetterStep

\* With one thread that sets the variable, for any number of loggers, threads that log and
\* definitions: while it is not at it, and as long as the listener is registered, every
\* logger has the level of its definition and the appenders of its definition, in
\* order, each with its own formatter, whatever is changed by hand in between.
THEOREM ConfigurationsApplied ==
    ASSUME NEW s, Setters = {s}
    PROVE  Spec => []ConfigApplied
<1>1. s \in Setters /\ \A t \in Setters : t = s
  OBVIOUS
<1> DEFINE Inv == LevelTypes /\ ("log" \in m_cbs => Progress(s))
<1>2. ASSUME Init PROVE Inv
  <2>1. ASSUME NEW n \in Names PROVE Applied(n, None)
    <3> DEFINE x == [id |-> 0, has |-> FALSE, formatter |-> Basic]
    <3>1. n \in Loggers /\ m_level[n] = 1 /\ m_appenders[n] = IF n = Root THEN <<x>> ELSE <<>>
      BY <1>2 DEF Init, Loggers
    <3>2. x.id = 0
      OBVIOUS
    <3> HIDE DEF x
    <3>3. \A i \in DOMAIN m_appenders[n] : m_appenders[n][i] = x
      BY <3>1
    <3>4. QED
      BY <3>1, <3>2, <3>3 DEF Applied, FromConfig
  <2>2. m_val = [n \in Names |-> None] /\ at[s] = "out" /\ job[s].step = "none"
    BY <1>1, <1>2, LogAssumption DEF Init, ConfigInit, NoJob
  <2>3. LevelTypes
    BY <1>2 DEF Init, LevelTypes
  <2>4. Progress(s)
    BY <2>1, <2>2 DEF Progress, HeardIt
  <2>5. QED
    BY <2>3, <2>4
<1>3. ASSUME LoggerInv, Inv, [Next]_vars PROVE Inv'
  <2>1. LevelTypes'
    BY <1>3, LevelTypesStep DEF LoggerInv
  <2>2. ASSUME "log" \in m_cbs' PROVE Progress(s)'
    BY <1>1, <1>3, <2>2, NeverRegisteredAgain, ProgressStep
  <2>3. QED
    BY <2>1, <2>2
<1>4. ASSUME LoggerInv, Inv PROVE ConfigApplied
  <2> SUFFICES ASSUME \A t \in Setters : at[t] = "out", "log" \in m_cbs, NEW n \in Names
               PROVE  Applied(n, m_val[n])
    BY DEF ConfigApplied
  <2>1. m_val[n] \in Definition
    BY <1>4, DefinitionTypes DEF LoggerInv, JobShape, Definition
  <2>2. QED
    BY <1>1, <1>4, <2>1 DEF Progress, Unheard
<1>5. QED
  BY <1>2, <1>3, <1>4, LoggerInvariant, PTL DEF Spec

\* The variables have the types they are declared with: no list of appenders holds
\* anything else, and a level is one that a definition, the constructor or the listener
\* gives.
THEOREM TypeCorrect == Spec => []TypeOK
<1>1. Init => LevelTypes /\ Writing
  BY WritingInit DEF Init, LevelTypes
<1>2. LoggerInv /\ LevelTypes /\ Writing /\ [Next]_vars => LevelTypes' /\ Writing'
  BY LevelTypesStep, WritingStep DEF LoggerInv
<1>3. LoggerInv /\ LevelTypes /\ Writing => TypeOK
  BY DEF LoggerInv, ReadLock, JobShape, LoggerTypes, LevelTypes, Writing, TypeOK, ConfigTypeOK
<1>4. QED
  BY <1>1, <1>2, <1>3, LoggerInvariant, PTL DEF Spec
================================================================================
