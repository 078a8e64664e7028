----------------------------- MODULE ChatWorker -----------------------------
(***************************************************************************)
(* One worker process (app/core/langgraph/graph.py, app/main.py): it       *)
(* builds the connection pool and compiles the graph at startup, again on  *)
(* every request while there is none, and runs turns on it, each with a    *)
(* search of MemoryService before and a background task that adds memories *)
(* after.  In production a failure leaves the worker running: without a    *)
(* pool the graph is compiled without a checkpointer, a "plain" one, which *)
(* keeps no conversation and has no state to read after a stream.          *)
(***************************************************************************)
EXTENDS MemoryService

CONSTANTS
    Startup,            \* the lifespan's call of create_graph
    MaxRestarts         \* bound of the restarts

ASSUME StartupAssumption == Startup \notin Turns

VARIABLES
    production,         \* settings.ENVIRONMENT
    serving,            \* has the lifespan yielded?
    pool,               \* _connection_pool: "none", "unopened" or "open"
    graph,              \* _graph: "none", "plain" or "saving"
    op,                 \* per request: a "turn", or a "clear" of the history
    call,               \* per caller: what it awaits
    held,               \* per turn: the graph it was given
    task,               \* ... its background task
    ran,                \* history: the graphs turns of this process ran on
    restarts

worker == <<production, serving, pool, graph, op, call, held, task, ran, restarts>>
workerVars == <<memVars, worker>>

Callers == Turns \cup {Startup}

WorkerInit ==
    /\ MemoryInit
    /\ production \in BOOLEAN /\ serving = FALSE
    /\ pool = "none" /\ graph = "none"
    /\ op \in [Turns -> {"turn", "clear"}]
    /\ call = [c \in Callers |-> "idle"]
    /\ held = [t \in Turns |-> "none"]
    /\ task = [t \in Turns |-> "none"]
    /\ ran = {} /\ restarts = 0

Awaits(c, what) == call' = [call EXCEPT ![c] = what]

\* The lifespan swallows what its call raises, and serves.
Fails(c) == Awaits(c, "over") /\ serving' = (serving \/ c = Startup)

Gets(t, g) ==
    /\ held' = IF t \in Turns THEN [held EXCEPT ![t] = g] ELSE held
    /\ call' = [call EXCEPT ![t] = IF t = Startup THEN "over" ELSE "search"]
    /\ serving' = (serving \/ t = Startup)

Begins(c) ==
    /\ call[c] = "idle"
    /\ IF c = Startup THEN ~serving ELSE serving

Clearing(c) == c \in Turns /\ op[c] = "clear"

-----------------------------------------------------------------------------
(***************************************************************************)
(* create_graph and _get_graph, for a caller that finds no graph.  Nothing *)
(* is awaited between the steps of one action.                             *)
(***************************************************************************)

FindGraph(t) ==
    /\ Begins(t) /\ t \in Turns /\ ~Clearing(t)
    /\ graph # "none" /\ Gets(t, graph)
    /\ UNCHANGED <<memVars, production, pool, graph, op, task, ran, restarts>>

\* Mutant: a graph that keeps nothing is compiled anew.
NeedsPoolAgain(c) == Begins(c) /\ (graph # "saving" \/ Clearing(c))

NeedsPool(c) == Begins(c) /\ (graph = "none" \/ Clearing(c))

\* The pool is assigned before it is opened.
MakePool(c) ==
    /\ NeedsPool(c) /\ pool = "none"
    /\ pool' = "unopened" /\ Awaits(c, "open")
    /\ UNCHANGED <<memVars, production, serving, graph, op, held, task, ran, restarts>>

\* Without a pool production compiles a graph without a checkpointer; a clear
\* raises in every environment.
WithoutPool(c) ==
    IF production /\ ~Clearing(c)
    THEN graph' = "plain" /\ Gets(c, "plain")
    ELSE Fails(c) /\ UNCHANGED <<graph, held>>

\* The pool's own checks of its settings raise.
PoolRefused(c) ==
    /\ NeedsPool(c) /\ pool = "none"
    /\ WithoutPool(c)
    /\ UNCHANGED <<memVars, production, pool, op, task, ran, restarts>>

\* A pool somebody else is opening, or failed to open, is taken for a usable
\* one.  In production create_graph returns None, which _get_graph assigns.
SetupFailed(c) ==
    /\ Fails(c)
    /\ graph' = IF production /\ c \in Turns /\ ~Clearing(c) THEN "none" ELSE graph

TakeUnopened(c) ==
    /\ NeedsPool(c) /\ pool = "unopened"
    /\ SetupFailed(c)
    /\ UNCHANGED <<memVars, production, pool, op, held, task, ran, restarts>>

TakePool(c) ==
    /\ NeedsPool(c) /\ pool = "open"
    /\ Awaits(c, "setup")
    /\ UNCHANGED <<memVars, production, serving, pool, graph, op, held, task, ran,
                   restarts>>

OpenPool(c) ==
    /\ call[c] = "open" /\ pool' = "open" /\ Awaits(c, "setup")
    /\ UNCHANGED <<memVars, production, serving, graph, op, held, task, ran, restarts>>

\* The pool stays, unopened.
OpenFails(c) ==
    /\ call[c] = "open"
    /\ WithoutPool(c)
    /\ UNCHANGED <<memVars, production, pool, op, task, ran, restarts>>

\* The tables of the checkpointer are there; the graph is compiled with it.
Compile(c) ==
    /\ call[c] = "setup" /\ ~Clearing(c)
    /\ graph' = "saving" /\ Gets(c, "saving")
    /\ UNCHANGED <<memVars, production, pool, op, task, ran, restarts>>

\* clear_chat_history deletes the thread's rows, whatever the graph is.
Clear(c) ==
    /\ call[c] = "setup" /\ Clearing(c)
    /\ Awaits(c, "over")
    /\ UNCHANGED <<memVars, production, serving, pool, graph, op, held, task, ran,
                   restarts>>

\* The database cannot be reached.
SetupFails(c) ==
    /\ call[c] = "setup" /\ SetupFailed(c)
    /\ UNCHANGED <<memVars, production, pool, op, held, task, ran, restarts>>

-----------------------------------------------------------------------------
(***************************************************************************)
(* A turn.                                                                 *)
(***************************************************************************)

SearchMemory(t) ==
    /\ call[t] = "search" /\ Search(t)
    /\ Awaits(t, "run")
    /\ UNCHANGED <<production, serving, pool, graph, op, held, task, ran, restarts>>

\* The graph runs after the search.  What fails adds no memory: a stream on a
\* plain graph always does, once its tokens are out, for want of a state.
RunGraph(t) ==
    /\ call[t] = "run" /\ at[t] \in {"told", "failed"}
    /\ Awaits(t, "over")
    /\ ran' = ran \cup {held[t]}
    /\ task' = task \/ task' = [task EXCEPT ![t] = "adding"]
    /\ UNCHANGED <<memVars, production, serving, pool, graph, op, held, restarts>>

\* The background task; mem0 may find nothing worth keeping, or raise.
Remember(t) ==
    /\ task[t] = "adding" /\ task' = [task EXCEPT ![t] = "over"]
    /\ \/ \E f \in Facts : AddMemory(user[t], f)
       \/ UNCHANGED memVars
    /\ UNCHANGED <<production, serving, pool, graph, op, call, held, ran, restarts>>

\* The turns of other workers add to the same mem0.
OthersRemember ==
    /\ \E u \in Users, f \in Facts : AddMemory(u, f)
    /\ UNCHANGED worker

\* The process ends, with its turns and tasks, and another one starts.
Restart ==
    /\ restarts < MaxRestarts /\ restarts' = restarts + 1
    /\ RestartMemory
    /\ serving' = FALSE /\ pool' = "none" /\ graph' = "none" /\ ran' = {}
    /\ call' = [c \in Callers |->
                   IF c \in Turns /\ call[c] # "idle" THEN "over" ELSE "idle"]
    /\ held' = [t \in Turns |-> "none"]
    /\ task' = [t \in Turns |-> IF task[t] = "none" THEN "none" ELSE "over"]
    /\ UNCHANGED <<production, op>>

WorkerNext ==
    \/ \E c \in Callers :
         \/ FindGraph(c) \/ MakePool(c) \/ PoolRefused(c) \/ TakeUnopened(c)
         \/ TakePool(c) \/ OpenPool(c) \/ OpenFails(c) \/ Compile(c) \/ Clear(c)
         \/ SetupFails(c)
    \/ \E t \in Turns :
         \/ SearchMemory(t) \/ RunGraph(t) \/ Remember(t)
         \/ SearchStep(t) /\ UNCHANGED worker
    \/ OthersRemember \/ Restart
    \/ Tick /\ UNCHANGED worker

WorkerSpec == WorkerInit /\ [][WorkerNext]_workerVars

-----------------------------------------------------------------------------
(***************************************************************************)
(* Properties.                                                             *)
(***************************************************************************)

\* The turns of a process agree on whether their conversations are kept: no
\* thread has turns that were saved around one that was not.
OneKindOfGraph == ~({"plain", "saving"} \subseteq ran)

=============================================================================
