---------------------------------- MODULE Config ----------------------------------
(***************************************************************************)
(* One configuration variable (ConfigVar of config.h) and the threads that *)
(* set it: setValue compares and calls the listeners with the read lock,   *)
(* and stores with the write lock.  What a listener does is left to the    *)
(* module that extends this one; here it is called and, later, is over.    *)
(***************************************************************************)
EXTENDS Integers, FiniteSets, Sequences

CONSTANTS
    Setters,      \* threads that load configuration files or call setValue
    Values,       \* values of the variable
    Default,      \* its default, from Lookup
    Listeners,    \* callbacks that may be registered
    First         \* those that register before main()

ASSUME ConfigAssumption == Default \in Values /\ First \subseteq Listeners

VARIABLES
    m_val,    \* the value
    m_cbs,    \* the registered listeners
    readers,  \* setters that hold the read lock
    at,       \* where each setter is: "out", "notify" or "store"
    arg,      \* the value it was given
    todo,     \* listeners it has still to call
    cut       \* setters whose loop over m_cbs was cleared under them

configVars == <<m_val, m_cbs, readers, at, arg, todo, cut>>

ConfigInit ==
    /\ m_val = Default
    /\ m_cbs = First
    /\ readers = {}
    /\ at = [s \in Setters |-> "out"]
    /\ arg = [s \in Setters |-> Default]
    /\ todo = [s \in Setters |-> {}]
    /\ cut = {}

ConfigTypeOK ==
    /\ m_val \in Values
    /\ m_cbs \subseteq Listeners
    /\ readers \subseteq Setters
    /\ at \in [Setters -> {"out", "notify", "store"}]
    /\ arg \in [Setters -> Values]
    /\ todo \in [Setters -> SUBSET Listeners]
    /\ cut \subseteq readers

\* setValue: nothing if the value is the same, else the listeners are called.
SetValue(s, v) ==
    /\ at[s] = "out"
    /\ v # m_val
    /\ readers' = readers \union {s}
    /\ at' = [at EXCEPT ![s] = "notify"]
    /\ arg' = [arg EXCEPT ![s] = v]
    /\ todo' = [todo EXCEPT ![s] = m_cbs]
    /\ UNCHANGED <<m_val, m_cbs, cut>>

\* A listener has returned.
Heard(s, l) ==
    /\ at[s] = "notify" /\ l \in todo[s]
    /\ todo' = [todo EXCEPT ![s] = @ \ {l}]
    /\ UNCHANGED <<m_val, m_cbs, readers, at, arg, cut>>

\* The read lock is let go after the last listener ...
Unlock(s) ==
    /\ at[s] = "notify" /\ todo[s] = {}
    /\ readers' = readers \ {s}
    /\ at' = [at EXCEPT ![s] = "store"]
    /\ cut' = cut \ {s}
    /\ UNCHANGED <<m_val, m_cbs, arg, todo>>

\* ... and the value is stored under the write lock.
Store(s) ==
    /\ at[s] = "store" /\ readers = {}
    /\ m_val' = arg[s]
    /\ at' = [at EXCEPT ![s] = "out"]
    /\ arg' = [arg EXCEPT ![s] = Default]
    /\ UNCHANGED <<m_cbs, readers, todo, cut>>

AddListener(l) ==
    /\ readers = {}
    /\ m_cbs' = m_cbs \union {l}
    /\ UNCHANGED <<m_val, readers, at, arg, todo, cut>>

\* (mutant) no lock.
DelListenerNow(l) ==
    /\ m_cbs' = m_cbs \ {l}
    /\ UNCHANGED <<m_val, readers, at, arg, todo, cut>>

DelListener(l) ==
    /\ readers = {}
    /\ m_cbs' = m_cbs \ {l}
    /\ UNCHANGED <<m_val, readers, at, arg, todo, cut>>

\* clearListener takes no lock.  A setter in its loop over m_cbs goes on over freed
\* entries: it may find any of those it had still to call, or none, and the one that
\* is running (running[s]) returns.
ClearListener(running) ==
    /\ m_cbs' = {}
    /\ todo' \in [Setters -> SUBSET Listeners]
    /\ \A s \in Setters : running[s] \subseteq todo'[s] /\ todo'[s] \subseteq todo[s]
    /\ cut' = cut \union {s \in Setters : todo[s] # {}}
    /\ UNCHANGED <<m_val, readers, at, arg>>

\* No listener is called once delListener has returned, so that whoever unregisters a
\* callback may destroy what it uses.  Only clearListener, which does not wait for the
\* calls in progress, gives no such promise.
OnlyRegisteredCalled == \A s \in Setters \ cut : todo[s] \subseteq m_cbs
================================================================================
