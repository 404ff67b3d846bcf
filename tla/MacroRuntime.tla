---------------------------- MODULE MacroRuntime ----------------------------
(***************************************************************************)
(* The expansion of macro calls: MacroCache::expand_cached, which keeps    *)
(* the last results, and crates/cj-sema/src/dylib.rs, which starts the     *)
(* Cangjie runtime once per process and runs each call as a task of it.    *)
(* The caller polls for the task's result and gives up after ten seconds;  *)
(* the task itself cannot be stopped, so it may run, and finish, at any    *)
(* time later.                                                             *)
(*                                                                         *)
(* A call is named by its expansion key (macro and arguments); what the    *)
(* macro makes of it is the text [key, real |-> TRUE], what the fallback   *)
(* makes of it [key, real |-> FALSE].                                      *)
(*                                                                         *)
(* The server analyses on one thread; the statics of dylib.rs and their    *)
(* lock are made for several, and the crate's tests run on several.        *)
(***************************************************************************)
EXTENDS Naturals, Sequences, FiniteSets

CONSTANTS
    Threads,   \* threads that analyse a file, each with a MacroCache of its own
    Keys,      \* expansion keys
    Cap,       \* entries a MacroCache keeps (256 in the code)
    MaxCalls,  \* bound: calls in all
    MaxTasks,  \* bound: tasks the runtime is given in all
    Nobody, NoKey, NoResult

\* What a task leaves in its context: a buffer that deserializes, or one that
\* does not.
Results == {"tokens", "junk"}

ASSUME RuntimeAssumption ==
    /\ Cap \in Nat \ {0} /\ MaxCalls \in Nat /\ MaxTasks \in Nat
    /\ Nobody \notin Threads /\ NoKey \notin Keys /\ NoResult \notin Results

VARIABLES
    runtime,     \* RUNTIME holds a runtime
    initFailed,  \* INIT_FAILED
    initLock,    \* INIT_LOCK
    phase,       \* thread -> where it is
    key,         \* thread -> the call it is at
    expanded,    \* thread -> key -> text
    lru,         \* thread -> keys, the one to go first in front
    tasks,       \* the runtime's tasks, in the order they were started
    mine,        \* thread -> its task, 0 for none
    calls,
    \* History:
    used         \* thread -> the keys asked for in this analysis

statics == <<runtime, initFailed, initLock>>
threads == <<phase, key, expanded, lru, mine, calls, used>>
vars == <<statics, threads, tasks>>

RangeOf(seq) == {seq[i] : i \in DOMAIN seq}
Text(k, real) == [key |-> k, real |-> real]

Init ==
    /\ runtime = FALSE
    /\ initFailed = FALSE
    /\ initLock = Nobody
    /\ phase = [t \in Threads |-> "idle"]
    /\ key = [t \in Threads |-> NoKey]
    /\ expanded = [t \in Threads |-> << >>]
    /\ lru = [t \in Threads |-> << >>]
    /\ tasks = << >>
    /\ mine = [t \in Threads |-> 0]
    /\ calls = 0
    /\ used = [t \in Threads |-> << >>]

GoTo(t, next) == phase' = [phase EXCEPT ![t] = next]

-----------------------------------------------------------------------------
(* expand_cached. *)

\* The place a key is found at, and the keys without it.
Place(seq, k) ==
    CHOOSE i \in DOMAIN seq : seq[i] = k /\ \A j \in 1 .. i - 1 : seq[j] # k
WithoutKey(seq, k) ==
    [i \in 1 .. Len(seq) - 1 |-> IF i < Place(seq, k) THEN seq[i] ELSE seq[i + 1]]

\* The keys that stay when the oldest ones beyond Cap are evicted.
Newest(seq) == SubSeq(seq, IF Len(seq) > Cap THEN Len(seq) - Cap + 1 ELSE 1, Len(seq))

\* A new analysis has a new MacroCache.
NewAnalysis(t) ==
    /\ phase[t] = "idle"
    /\ expanded' = [expanded EXCEPT ![t] = << >>]
    /\ lru' = [lru EXCEPT ![t] = << >>]
    /\ used' = [used EXCEPT ![t] = << >>]
    /\ UNCHANGED <<statics, tasks, phase, key, mine, calls>>

Ask(t, k) ==
    /\ phase[t] = "idle"
    /\ calls < MaxCalls
    /\ calls' = calls + 1
    /\ used' = [used EXCEPT ![t] = Append(@, k)]

\* Mutant of Hit: the order stays that of insertion.
HitUntouched(t, k) ==
    /\ Ask(t, k)
    /\ k \in DOMAIN expanded[t]
    /\ UNCHANGED <<statics, tasks, phase, key, expanded, lru, mine>>

Hit(t, k) ==
    /\ Ask(t, k)
    /\ k \in DOMAIN expanded[t]
    /\ lru' = [lru EXCEPT ![t] = Append(WithoutKey(@, k), k)]
    /\ UNCHANGED <<statics, tasks, phase, key, expanded, mine>>

Miss(t, k) ==
    /\ Ask(t, k)
    /\ k \notin DOMAIN expanded[t]
    /\ key' = [key EXCEPT ![t] = k]
    /\ GoTo(t, "runtime")
    /\ UNCHANGED <<statics, tasks, expanded, lru, mine>>

\* The result of expand_fn is kept, whether real or a fallback.
Store(t, text) ==
    LET all == Append(lru[t], key[t])
        kept == Newest(all)
    IN  /\ lru' = [lru EXCEPT ![t] = kept]
        /\ expanded' = [expanded EXCEPT ![t] =
                           [k \in RangeOf(kept) |-> IF k = key[t] THEN text ELSE @[k]]]
        /\ GoTo(t, "idle")
        /\ UNCHANGED <<key, calls, used>>

-----------------------------------------------------------------------------
(* ensure_runtime. *)

InitFailedBefore(t) ==
    /\ phase[t] = "runtime"
    /\ initFailed
    /\ Store(t, Text(key[t], FALSE))
    /\ UNCHANGED <<statics, tasks, mine>>

\* The two loads before the lock are separate steps.
NotFailed(t) ==
    /\ phase[t] = "runtime"
    /\ ~initFailed
    /\ GoTo(t, "get")
    /\ UNCHANGED <<statics, tasks, key, expanded, lru, mine, calls, used>>

GetRuntime(t) ==
    /\ phase[t] = "get"
    /\ GoTo(t, IF runtime THEN "call" ELSE "lock")
    /\ UNCHANGED <<statics, tasks, key, expanded, lru, mine, calls, used>>

\* Under the lock the runtime is looked for again, INIT_FAILED is not.
Lock(t) ==
    /\ phase[t] = "lock"
    /\ initLock = Nobody
    /\ IF runtime THEN GoTo(t, "call") /\ UNCHANGED initLock
                  ELSE GoTo(t, "init") /\ initLock' = t
    /\ UNCHANGED <<runtime, initFailed, tasks, key, expanded, lru, mine, calls, used>>

InitSucceeds(t) ==
    /\ phase[t] = "init"
    /\ runtime' = TRUE
    /\ initLock' = Nobody
    /\ GoTo(t, "call")
    /\ UNCHANGED <<initFailed, tasks, key, expanded, lru, mine, calls, used>>

InitFails(t) ==
    /\ phase[t] = "init"
    /\ initFailed' = TRUE
    /\ initLock' = Nobody
    /\ Store(t, Text(key[t], FALSE))
    /\ UNCHANGED <<runtime, tasks, mine>>

-----------------------------------------------------------------------------
(* expand_macro_call. *)

\* The library or its symbol is missing.
NoSymbol(t) ==
    /\ phase[t] = "call"
    /\ Store(t, Text(key[t], FALSE))
    /\ UNCHANGED <<statics, tasks, mine>>

\* Mutant of StartTask: the context of a task that has not ended is used again.
StartTaskReusing(t) ==
    LET late == {i \in DOMAIN tasks : tasks[i].state # "done"}
    IN  /\ phase[t] = "call"
        /\ Len(tasks) < MaxTasks
        /\ tasks' = Append(tasks, [key |-> key[t], state |-> "queued", out |-> NoResult,
                                   context |-> TRUE, node |-> TRUE, library |-> TRUE])
        /\ mine' = [mine EXCEPT ![t] = IF late = {} THEN Len(tasks')
                                       ELSE CHOOSE i \in late : TRUE]
        /\ GoTo(t, "poll")
        /\ UNCHANGED <<statics, key, expanded, lru, calls, used>>

\* The context (TaskData), the node in it and the library are there when the
\* task is started.
StartTask(t) ==
    /\ phase[t] = "call"
    /\ Len(tasks) < MaxTasks
    /\ tasks' = Append(tasks, [key |-> key[t], state |-> "queued", out |-> NoResult,
                               context |-> TRUE, node |-> TRUE, library |-> TRUE])
    /\ mine' = [mine EXCEPT ![t] = Len(tasks')]
    /\ GoTo(t, "poll")
    /\ UNCHANGED <<statics, key, expanded, lru, calls, used>>

\* The node and the library handle are locals: they go whatever happened.
Collect(t) ==
    LET task == tasks[mine[t]]
        sound == task.out = "tokens"
    IN  /\ phase[t] = "poll"
        /\ task.out # NoResult
        /\ tasks' = [tasks EXCEPT ![mine[t]].context = ~sound,
                                  ![mine[t]].node = FALSE,
                                  ![mine[t]].library = FALSE]
        /\ mine' = [mine EXCEPT ![t] = 0]
        /\ Store(t, Text(task.key, sound))
        /\ UNCHANGED statics

\* Mutant of TimeOut: the context is freed with the rest.
TimeOutFreeing(t) ==
    /\ phase[t] = "poll"
    /\ tasks' = [tasks EXCEPT ![mine[t]].context = FALSE, ![mine[t]].node = FALSE,
                              ![mine[t]].library = FALSE]
    /\ mine' = [mine EXCEPT ![t] = 0]
    /\ Store(t, Text(key[t], FALSE))
    /\ UNCHANGED statics

\* Ten seconds are over; the result may have come since the last look.
TimeOut(t) ==
    /\ phase[t] = "poll"
    /\ tasks' = [tasks EXCEPT ![mine[t]].node = FALSE, ![mine[t]].library = FALSE]
    /\ mine' = [mine EXCEPT ![t] = 0]
    /\ Store(t, Text(key[t], FALSE))
    /\ UNCHANGED statics

Expand(t) ==
    \/ InitFailedBefore(t) \/ NotFailed(t) \/ GetRuntime(t) \/ Lock(t)
    \/ InitSucceeds(t) \/ InitFails(t)
    \/ NoSymbol(t) \/ StartTask(t) \/ Collect(t) \/ TimeOut(t)

-----------------------------------------------------------------------------
(* The runtime's own threads. *)

RunTask(i) ==
    /\ tasks[i].state = "queued"
    /\ tasks' = [tasks EXCEPT ![i].state = "running"]
    /\ UNCHANGED <<statics, threads>>

\* The last thing a task does is to store its result in its context: a buffer
\* that deserializes, one that does not, or null.
EndTask(i, result) ==
    /\ tasks[i].state = "running"
    /\ tasks' = [tasks EXCEPT ![i].state = "done", ![i].out = result]
    /\ UNCHANGED <<statics, threads>>

Runtime == \E i \in DOMAIN tasks :
              RunTask(i) \/ \E result \in Results \cup {NoResult} : EndTask(i, result)

Next ==
    \/ \E t \in Threads : \/ NewAnalysis(t) \/ Expand(t)
                          \/ \E k \in Keys : Hit(t, k) \/ Miss(t, k)
    \/ Runtime

\* Callers go on (the poll has a deadline, init_runtime returns); nothing is
\* assumed of the tasks.
Spec == Init /\ [][Next]_vars /\ \A t \in Threads : WF_vars(Expand(t))

-----------------------------------------------------------------------------
Phases == {"idle", "runtime", "get", "lock", "init", "call", "poll"}
Texts == [key : Keys, real : BOOLEAN]
Tasks == [key : Keys, state : {"queued", "running", "done"}, out : Results \cup {NoResult},
          context : BOOLEAN, node : BOOLEAN, library : BOOLEAN]

\* The type invariant: a memo holds texts under the keys it holds, a list of
\* keys is a sequence of them, a task is one.
TypeOK ==
    /\ runtime \in BOOLEAN /\ initFailed \in BOOLEAN /\ initLock \in Threads \cup {Nobody}
    /\ phase \in [Threads -> Phases] /\ key \in [Threads -> Keys \cup {NoKey}]
    /\ expanded \in [Threads -> UNION {[S -> Texts] : S \in SUBSET Keys}]
    /\ lru \in [Threads -> Seq(Keys)] /\ used \in [Threads -> Seq(Keys)]
    /\ tasks \in Seq(Tasks) /\ mine \in [Threads -> Nat] /\ calls \in Nat

\* The last n different keys of a history.
LastKeys(history, n) ==
    {history[i] : i \in {j \in DOMAIN history :
                            /\ \A l \in j + 1 .. Len(history) : history[l] # history[j]
                            /\ Cardinality({history[l] : l \in j .. Len(history)}) <= n}}

(***************************************************************************)
(* Between two calls a cache holds exactly the results of the Cap keys     *)
(* asked for last, a hit counting as a use (the LRU of expand_cached).     *)
(***************************************************************************)
HoldsTheLastUsed ==
    \A t \in Threads :
        /\ DOMAIN expanded[t] = RangeOf(lru[t])
        /\ phase[t] = "idle" => RangeOf(lru[t]) = LastKeys(used[t], Cap)

(***************************************************************************)
(* A task never reads or writes its context after it was freed: on a       *)
(* timeout the context is leaked, not freed.                               *)
(***************************************************************************)
ContextOutlivesTask ==
    \A i \in DOMAIN tasks : tasks[i].state # "done" => tasks[i].context

(***************************************************************************)
(* The same for all a task touches: the node its context points to and the *)
(* library its code is in.  The context is there so that what races a      *)
(* timeout "stays within live memory".                                     *)
(***************************************************************************)
TaskTouchesLiveMemory ==
    \A i \in DOMAIN tasks :
        tasks[i].state = "running" => tasks[i].context /\ tasks[i].node /\ tasks[i].library

\* The call a thread is at, and the keys whose macro has made something.
Asked == [t \in Threads |-> IF phase[t] = "idle" THEN NoKey ELSE key[t]]
Made == {tasks[i].key : i \in {j \in DOMAIN tasks : tasks[j].out = "tokens"}}

(***************************************************************************)
(* Threads, start of the runtime, tasks and deadlines implement the calls  *)
(* of MacroCalls: every call returns, also when its macro never does, with *)
(* its own result or its fallback and never with what another call's task, *)
(* started before and finished late, has left.                             *)
(***************************************************************************)
Calls ==
    INSTANCE MacroCalls WITH asked <- Asked, known <- expanded, made <- Made
ImplementsCalls == Calls!Spec
=============================================================================
