--------------------------- MODULE ExecutionScope ---------------------------
(***************************************************************************)
(* vfs/rust/src/execution_scope.rs: the scope that hosts the tasks of a    *)
(* group of connections.  Every operator below is one critical section of  *)
(* the Mutex<Executor>; the modules of the tasks call spawn and            *)
(* task_did_finish from their own actions.                                 *)
(***************************************************************************)
EXTENDS Naturals, FiniteSets

CONSTANTS
    Tasks,          \* task ids, the keys of the slab
    Waiters,        \* callers of wait()
    MaxHandles      \* bound: clones of the ExecutionScope its users hold

ASSUME ScopeAssumption == IsFiniteSet(Tasks) /\ IsFiniteSet(Waiters) /\ MaxHandles \in Nat \ {0}

VARIABLES
    running,        \* Executor::running: the tasks in the slab
    taken,          \* tasks whose shutdown sender was taken and sent
    waiters,        \* Executor::waiters
    waited,         \* callers of wait() that have returned
    handles         \* ExecutionScope values held outside of the tasks

scopeVars == <<running, taken, waiters, waited, handles>>

ScopeTypeOK ==
    /\ running \subseteq Tasks
    /\ taken \subseteq running
    /\ waiters \subseteq Waiters
    /\ waited \subseteq Waiters
    /\ handles \in 0..MaxHandles

\* ExecutionScopeParams::new
ScopeInit ==
    /\ running = {}
    /\ taken = {}
    /\ waiters = {}
    /\ waited = {}
    /\ handles = 1

\* spawn and spawn_with_shutdown: both reach run_abort_with_shutdown, which
\* files the sender of a new shutdown channel under the task's id.
spawn(t) ==
    /\ t \notin running
    /\ running' = running \cup {t}
    /\ UNCHANGED <<taken, waiters, waited, handles>>

\* Executor::shutdown takes the senders of the tasks that still have one.
shutdown ==
    /\ handles > 0
    /\ taken' = running
    /\ UNCHANGED <<running, waiters, waited, handles>>

\* wait() either finds no task or leaves a sender in `waiters`.
wait(w) ==
    /\ handles > 0
    /\ w \notin waiters \cup waited
    /\ IF running = {}
       THEN waited' = waited \cup {w} /\ UNCHANGED waiters
       ELSE waiters' = waiters \cup {w} /\ UNCHANGED waited
    /\ UNCHANGED <<running, taken, handles>>

\* Mutant: the slab is examined before the task leaves it.
task_did_finish_EarlyTest(t) ==
    /\ t \in running
    /\ running' = running \ {t}
    /\ taken' = taken \ {t}
    /\ IF running = {}
       THEN waited' = waited \cup waiters /\ waiters' = {}
       ELSE UNCHANGED <<waiters, waited>>
    /\ UNCHANGED handles

\* The last task to leave the slab wakes every waiter.
task_did_finish(t) ==
    /\ t \in running
    /\ running' = running \ {t}
    /\ taken' = taken \ {t}
    /\ IF running' = {}
       THEN waited' = waited \cup waiters /\ waiters' = {}
       ELSE UNCHANGED <<waiters, waited>>
    /\ UNCHANGED handles

\* ExecutionScope::clone by a user of the scope.
clone_scope ==
    /\ handles \in 1..(MaxHandles - 1)
    /\ handles' = handles + 1
    /\ UNCHANGED <<running, taken, waiters, waited>>

\* Every task keeps the Executor alive through executor_clone, so dropping the
\* last handle reaches Drop for Executor only when no task is left for its
\* shutdown() to stop.
drop_scope ==
    /\ handles > 0
    /\ handles' = handles - 1
    /\ UNCHANGED <<running, taken, waiters, waited>>

=============================================================================
