------------------------------------ MODULE Log ------------------------------------
(***************************************************************************)
(* Loggers, their appenders and formatters (log.h, log.cc), and the        *)
(* listener that rebuilds them when the variable "logs" changes.  Threads  *)
(* log while a setter runs the listener and a user changes appenders and   *)
(* formatters by hand.  Logger::m_mutex is a lock with an owner, because   *)
(* log() keeps it while it writes; every other use of it is one step.      *)
(*                                                                         *)
(* A formatter is its pattern; LogFormatter says which patterns are valid. *)
(* Appenders made by the listener have the level UNKONW, so their own test *)
(* of the level lets everything pass and is left out.                      *)
(***************************************************************************)
EXTENDS Config

CONSTANTS
    Names,     \* names of loggers that may be configured, the root's among them
    Root,
    Writers,   \* threads that log
    Levels,    \* levels of events and configurations, 0 is UNKONW
    Patterns,  \* patterns of formatters
    Valid,     \* those that isError() accepts
    Basic,     \* the pattern in the constructor of Logger
    Own,       \* an appender made by the user
    MaxLogs,   \* bound: log calls
    MaxEdits,  \* bound: changes made by the user
    None

Off == 100     \* (LogLevel::Level)100
Info == 2      \* LogLevel::INFO

Loggers == Names \union {Root}

\* LogDefine: None as the formatter is the empty string; an appender is what
\* LogAppenderDefine says of its formatter.
Define == [level : Levels, formatter : Patterns \union {None},
           appenders : UNION {[1 .. n -> Patterns \union {None}] : n \in 0 .. 2}]

\* id: the place in the configuration, or Own, or 0 for the appender that
\* LoggerManager gives the root; has: m_hasFormatter.
Appender == [id : {0, 1, 2, Own}, has : BOOLEAN, formatter : Patterns]

ASSUME LogAssumption ==
    /\ Values \subseteq [Names -> Define \union {None}]
    /\ Default = [n \in Names |-> None]
    /\ Levels \subseteq 0 .. 5
    /\ Basic \in Valid /\ Valid \subseteq Patterns
    /\ Own \notin {0, 1, 2}
    /\ MaxLogs \in Nat /\ MaxEdits \in Nat
ASSUME LogNone == None \notin Writers \union Patterns \union Names \union Define

VARIABLES
    m_level,      \* Logger::m_level
    m_formatter,  \* Logger::m_formatter
    m_appenders,  \* Logger::m_appenders, in order
    mutex,        \* who holds Logger::m_mutex
    job,          \* what the listener is at, for each setter
    pc,           \* where each writer is
    line,         \* the logger and the level it logs with
    left,         \* appenders it has still to write to
    logs, edits   \* for the bounds

loggerVars == <<m_level, m_formatter, m_appenders>>
writerVars == <<mutex, pc, line, left, logs>>
vars == <<configVars, loggerVars, writerVars, job, edits>>

\* names: definitions still to be applied; gone: loggers still to be turned off.
NoJob == [step |-> "none", names |-> {}, gone |-> {}, name |-> None, add |-> 0]

\* getLogger makes a logger the first time its name is asked for; until then
\* nobody can tell that it is not there.
Init ==
    /\ ConfigInit
    /\ m_level = [g \in Loggers |-> 1]
    /\ m_formatter = [g \in Loggers |-> Basic]
    /\ m_appenders = [g \in Loggers |-> IF g = Root
          THEN <<[id |-> 0, has |-> FALSE, formatter |-> Basic]>> ELSE <<>>]
    /\ mutex = [g \in Loggers |-> None]
    /\ job = [s \in Setters |-> NoJob]
    /\ pc = [w \in Writers |-> "out"]
    /\ line = [w \in Writers |-> <<Root, 0>>]
    /\ left = [w \in Writers |-> <<>>]
    /\ logs = 0 /\ edits = 0

-----------------------------------------------------------------------------
(* Operations of a logger, each under its lock *)

Free(g) == mutex[g] = None

\* setFormatter(string): an invalid pattern is refused; a valid one goes to the
\* appenders that have none of their own.
SetFormatter(g, p) ==
    /\ Free(g)
    /\ IF p \in Valid
       THEN /\ m_formatter' = [m_formatter EXCEPT ![g] = p]
            /\ m_appenders' = [m_appenders EXCEPT ![g] = [i \in DOMAIN @ |->
                  IF @[i].has THEN @[i] ELSE [@[i] EXCEPT !.formatter = p]]]
       ELSE UNCHANGED <<m_formatter, m_appenders>>

\* (mutant) the appender does not get the logger's formatter.
AddAppenderBare(g, id, p) ==
    /\ Free(g)
    /\ m_appenders' = [m_appenders EXCEPT ![g] =
          Append(@, [id |-> id, has |-> p # None, formatter |-> Basic])]

\* addAppender of an appender whose own formatter is p.
AddAppender(g, id, p) ==
    /\ Free(g)
    /\ m_appenders' = [m_appenders EXCEPT ![g] =
          Append(@, [id |-> id, has |-> p # None,
                     formatter |-> IF p # None THEN p ELSE m_formatter[g]])]

\* delAppender erases the first place where the appender is, if there is one.
DelAppender(g, id) ==
    LET places == {i \in DOMAIN m_appenders[g] : m_appenders[g][i].id = id} IN
    /\ Free(g)
    /\ \/ places = {} /\ UNCHANGED m_appenders
       \/ \E i \in places :
             /\ \A j \in places : i <= j
             /\ m_appenders' = [m_appenders EXCEPT ![g] =
                   [j \in 1 .. Len(@) - 1 |-> IF j < i THEN @[j] ELSE @[j + 1]]]

\* (mutant) no lock.
ClearAppendersNow(g) == m_appenders' = [m_appenders EXCEPT ![g] = <<>>]

ClearAppenders(g) == Free(g) /\ m_appenders' = [m_appenders EXCEPT ![g] = <<>>]

-----------------------------------------------------------------------------
(* The listener: struct LogIniter *)

Job(s, new) == job' = [job EXCEPT ![s] = new]
InStep(s, step) == at[s] = "notify" /\ job[s].step = step

\* (mutant) definitions that were there before are taken for unchanged.
ChangedOnlyNew(old, new) == {n \in Names : new[n] # None /\ old[n] = None}

\* Definitions that are new or differ from the old one of that name.
Changed(old, new) == {n \in Names : new[n] # None /\ new[n] # old[n]}
Gone(old, new) == {n \in Names : new[n] = None /\ old[n] # None}

\* The listener is called and says so on the root logger, if that has the level.
ListenerBegin(s) ==
    /\ InStep(s, "none") /\ "log" \in todo[s]
    /\ m_level[Root] <= Info => Free(Root)
    /\ Job(s, [NoJob EXCEPT !.step = "next", !.names = Changed(m_val, arg[s]),
                            !.gone = Gone(m_val, arg[s])])
    /\ UNCHANGED <<configVars, loggerVars, writerVars, edits>>

\* getLogger(name) and setLevel, which takes no lock.
ListenerLevel(s) ==
    /\ InStep(s, "next")
    /\ \E n \in job[s].names :
          /\ m_level' = [m_level EXCEPT ![n] = arg[s][n].level]
          /\ Job(s, [job[s] EXCEPT !.name = n, !.names = @ \ {n}, !.step = "format"])
    /\ UNCHANGED <<configVars, m_formatter, m_appenders, writerVars, edits>>

\* The formatter of the definition, if it has one.
ListenerFormat(s) ==
    LET n == job[s].name
        p == arg[s][n].formatter IN
    /\ InStep(s, "format")
    /\ IF p = None THEN UNCHANGED <<m_formatter, m_appenders>> ELSE SetFormatter(n, p)
    /\ Job(s, [job[s] EXCEPT !.step = "clear"])
    /\ UNCHANGED <<configVars, m_level, writerVars, edits>>

ListenerClear(s) ==
    /\ InStep(s, "clear")
    /\ ClearAppenders(job[s].name)
    /\ Job(s, [job[s] EXCEPT !.step = "add", !.add = 1])
    /\ UNCHANGED <<configVars, m_level, m_formatter, writerVars, edits>>

\* A formatter that is not valid is left out: the appender inherits.
OwnFormatter(p) == IF p \in Valid THEN p ELSE None

ListenerAdd(s) ==
    LET n == job[s].name
        i == job[s].add
        defs == arg[s][n].appenders IN
    /\ InStep(s, "add")
    /\ IF i \in DOMAIN defs
       THEN /\ AddAppender(n, i, OwnFormatter(defs[i]))
            /\ Job(s, [job[s] EXCEPT !.add = @ + 1])
       ELSE /\ Job(s, [job[s] EXCEPT !.step = "next", !.name = None, !.add = 0])
            /\ UNCHANGED m_appenders
    /\ UNCHANGED <<configVars, m_level, m_formatter, writerVars, edits>>

\* Then the loggers that are defined no more: level 100 and no appenders.
ListenerOff(s) ==
    /\ InStep(s, "next") /\ job[s].names = {}
    /\ \E n \in job[s].gone :
          /\ m_level' = [m_level EXCEPT ![n] = Off]
          /\ Job(s, [job[s] EXCEPT !.name = n, !.gone = @ \ {n}, !.step = "off"])
    /\ UNCHANGED <<configVars, m_formatter, m_appenders, writerVars, edits>>

ListenerOffClear(s) ==
    /\ InStep(s, "off")
    /\ ClearAppenders(job[s].name)
    /\ Job(s, [job[s] EXCEPT !.step = "next", !.name = None])
    /\ UNCHANGED <<configVars, m_level, m_formatter, writerVars, edits>>

ListenerEnd(s) ==
    /\ InStep(s, "next") /\ job[s].names = {} /\ job[s].gone = {}
    /\ Heard(s, "log")
    /\ Job(s, NoJob)
    /\ UNCHANGED <<loggerVars, writerVars, edits>>

\* Any other listener only takes note.
OtherListener(s, l) ==
    /\ InStep(s, "none") /\ l # "log"
    /\ Heard(s, l)
    /\ UNCHANGED <<loggerVars, writerVars, job, edits>>

-----------------------------------------------------------------------------
(* Logging *)

\* The macro SYLAR_LOG_LEVEL tests the level and makes the event ...
LogBegin(w, g, level) ==
    /\ pc[w] = "out" /\ logs < MaxLogs
    /\ m_level[g] <= level
    /\ logs' = logs + 1
    /\ line' = [line EXCEPT ![w] = <<g, level>>]
    /\ pc' = [pc EXCEPT ![w] = "log"]
    /\ UNCHANGED <<configVars, loggerVars, mutex, left, job, edits>>

\* ... whose wrapper calls Logger::log, which tests it again, takes the lock and
\* looks at the appenders.  Without any, the root does the same, with its own
\* lock taken second.
Enter(w, g, level, root) ==
    IF level < m_level[g]
    THEN pc' = [pc EXCEPT ![w] = "unlock"] /\ UNCHANGED <<mutex, left>>
    ELSE /\ Free(g)
         /\ mutex' = [mutex EXCEPT ![g] = w]
         /\ left' = [left EXCEPT ![w] = m_appenders[g]]
         /\ pc' = [pc EXCEPT ![w] = IF m_appenders[g] # <<>> THEN "write"
                                    ELSE IF root THEN "unlock" ELSE "root"]

LogEnter(w) ==
    /\ pc[w] = "log"
    /\ Enter(w, line[w][1], line[w][2], line[w][1] = Root)
    /\ UNCHANGED <<configVars, loggerVars, line, logs, job, edits>>

LogRoot(w) ==
    /\ pc[w] = "root"
    /\ Enter(w, Root, line[w][2], TRUE)
    /\ UNCHANGED <<configVars, loggerVars, line, logs, job, edits>>

\* An appender formats and writes.
LogWrite(w) ==
    /\ pc[w] = "write"
    /\ left' = [left EXCEPT ![w] = Tail(@)]
    /\ pc' = [pc EXCEPT ![w] = IF Len(left[w]) = 1 THEN "unlock" ELSE "write"]
    /\ UNCHANGED <<configVars, loggerVars, mutex, line, logs, job, edits>>

\* (mutant) the lock of the root is kept.
UnlockedOne(w) == {g \in Loggers \ {Root} : mutex[g] = w}

Unlocked(w) == {g \in Loggers : mutex[g] = w}

LogEnd(w) ==
    /\ pc[w] = "unlock"
    /\ mutex' = [g \in Loggers |-> IF g \in Unlocked(w) THEN None ELSE mutex[g]]
    /\ pc' = [pc EXCEPT ![w] = "out"]
    /\ line' = [line EXCEPT ![w] = <<Root, 0>>]
    /\ UNCHANGED <<configVars, loggerVars, left, logs, job, edits>>

-----------------------------------------------------------------------------
\* Changes by hand; Own is in a logger at most once, and each time a fresh
\* appender: one that is added again keeps the formatter it was given before.
Edit(g) ==
    /\ edits < MaxEdits
    /\ edits' = edits + 1
    /\ \/ \E p \in Patterns : SetFormatter(g, p)
       \/ /\ \A i \in DOMAIN m_appenders[g] : m_appenders[g][i].id # Own
          /\ \E p \in Valid \union {None} : AddAppender(g, Own, p)
          /\ UNCHANGED m_formatter
       \/ DelAppender(g, Own) /\ UNCHANGED m_formatter
    /\ UNCHANGED <<configVars, m_level, writerVars, job>>

\* The listener that each setter is in the middle of.
Running == [s \in Setters |-> IF job[s].step = "none" THEN {} ELSE {"log"}]

Register ==
    /\ edits < MaxEdits
    /\ edits' = edits + 1
    /\ \/ \E l \in Listeners \ {"log"} : AddListener(l) \/ DelListener(l)
       \/ ClearListener(Running)
    /\ UNCHANGED <<loggerVars, writerVars, job>>

ListenerStep(s) ==
    \/ ListenerBegin(s) \/ ListenerLevel(s) \/ ListenerFormat(s) \/ ListenerClear(s)
    \/ ListenerAdd(s) \/ ListenerOff(s) \/ ListenerOffClear(s) \/ ListenerEnd(s)
    \/ \E l \in Listeners : OtherListener(s, l)

SetterStep(s) ==
    \/ ListenerStep(s)
    \/ (Unlock(s) \/ Store(s)) /\ UNCHANGED <<loggerVars, writerVars, job, edits>>

WriterStep(w) == LogEnter(w) \/ LogRoot(w) \/ LogWrite(w) \/ LogEnd(w)

Next ==
    \/ \E s \in Setters, v \in Values :
          SetValue(s, v) /\ UNCHANGED <<loggerVars, writerVars, job, edits>>
    \/ \E s \in Setters : SetterStep(s)
    \/ \E w \in Writers, g \in Loggers, level \in Levels \ {0} : LogBegin(w, g, level)
    \/ \E w \in Writers : WriterStep(w)
    \/ \E g \in Loggers : Edit(g)
    \/ Register

Spec == Init /\ [][Next]_vars

\* Threads that are inside a call keep running.
FairSpec ==
    /\ Spec
    /\ \A s \in Setters : WF_vars(SetterStep(s))
    /\ \A w \in Writers : WF_vars(WriterStep(w))

-----------------------------------------------------------------------------
(* Properties *)

TypeOK ==
    /\ ConfigTypeOK
    /\ m_level \in [Loggers -> Levels \union {1, Off}]
    /\ m_formatter \in [Loggers -> Valid]
    /\ m_appenders \in [Loggers -> Seq(Appender)]
    /\ mutex \in [Loggers -> Writers \union {None}]
    /\ pc \in [Writers -> {"out", "log", "root", "write", "unlock"}]
    /\ left \in [Writers -> Seq(Appender)]

\* Every appender in use writes with its own formatter if it has one, else with
\* the present formatter of its logger, whatever the order in which appenders
\* were added and formatters were set, by hand or by the configuration.
FormatterInherited ==
    \A g \in Loggers : \A i \in DOMAIN m_appenders[g] :
       ~ m_appenders[g][i].has => m_appenders[g][i].formatter = m_formatter[g]

\* A thread that is writing writes to appenders of the logger it has locked: the
\* configuration never takes one away under it.
WritesToAttached ==
    \A w \in Writers : pc[w] = "write" =>
       \E g \in Loggers : mutex[g] = w /\ \A i \in DOMAIN left[w] :
          \E j \in DOMAIN m_appenders[g] : m_appenders[g][j] = left[w][i]

\* The appenders of g that come from the configuration are the first k that defs
\* asks for, in order, each with its own formatter if that is a valid one.
FromConfig(g) == {i \in DOMAIN m_appenders[g] : m_appenders[g][i].id # Own}
Built(g, defs, k) ==
    /\ \A i \in FromConfig(g) :
          LET x == m_appenders[g][i]
              p == OwnFormatter(defs[x.id]) IN
          /\ x.id \in 1 .. k
          /\ x.has <=> p # None
          /\ x.has => x.formatter = p
    /\ \A id \in 1 .. k : \E i \in FromConfig(g) : m_appenders[g][i].id = id
    /\ \A i, j \in FromConfig(g) :
          i < j => m_appenders[g][i].id < m_appenders[g][j].id

\* Logger n is as its definition says; one that is not defined is as it was made, and
\* one that is defined no longer is off.
Applied(n, def) ==
    IF def = None
    THEN \/ m_level[n] = 1 /\ \A i \in FromConfig(n) : m_appenders[n][i].id = 0
         \/ m_level[n] = Off /\ FromConfig(n) = {}
    ELSE m_level[n] = def.level /\ Built(n, def.appenders, Len(def.appenders))

\* While nobody is setting the variable, and as long as its listener is there, the
\* loggers are as the present value says, with no appender missing, left over, out
\* of order or with the formatter of another.
ConfigApplied ==
    (\A s \in Setters : at[s] = "out") /\ "log" \in m_cbs =>
       \A n \in Names : Applied(n, m_val[n])

\* No call of log() or setValue() waits for ever, although the listener logs with
\* the read lock held, and a logger without appenders holds its own lock while it
\* waits for the root's.
CallsReturn ==
    /\ \A w \in Writers : []<>(pc[w] = "out")
    /\ \A s \in Setters : []<>(at[s] = "out")
================================================================================
