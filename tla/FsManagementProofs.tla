------------------------- MODULE FsManagementProofs -------------------------
(***************************************************************************)
(* The safety properties of FsManagement, for any number of processes,     *)
(* tasks and paths.  The argument is about ownership: a server belongs to  *)
(* at most one of the blocking Filesystem, its call in progress and the    *)
(* tasks, and a path that is bound belongs to the owner of the server it   *)
(* is bound to, unless a call that failed left both behind.                *)
(***************************************************************************)
EXTENDS FsManagement, TLAPS

ProcState == {"starting", "ready", "stopping", "refused", "killed", "exited"}
TaskAt == {"describe", "serving", "wait", "shutdown", "terminate", "returned"}

\* The values of the variables.
FsType ==
    /\ proc \in [Servers -> [state : ProcState, by : {"sync", "async", "component", None},
                             cmd : {"mount", "command", None}, answered : BOOLEAN]]
    /\ namespace \in [Paths -> Servers \cup {None}]
    /\ instance \in {Idle} \cup [p : Procs, path : Paths]
    /\ call \in {Idle} \cup [at : {"describe", "wait", "shutdown"}, p : Procs, path : Paths \cup {None}]
    /\ task \in [Tasks -> {Idle} \cup [at : TaskAt, p : Servers, binding : Paths \cup {None}]]
    /\ abandoned \subseteq Servers

\* Paths are given where they are needed, and not before they are bound or after
\* they were unbound.
PathsInv ==
    /\ call.at \in {"describe", "shutdown"} => call.path \in Paths
    /\ \A t \in Tasks : task[t].at \in {"describe", "wait", "returned"} => task[t].binding = None

\* No server has two owners.
OwnersInv ==
    /\ call # Idle => instance = Idle
    /\ \A t \in Tasks : task[t] # Idle => ~Holds(instance, task[t].p) /\ ~Holds(call, task[t].p)
    /\ \A t, u \in Tasks : t # u /\ task[t] # Idle /\ task[u] # Idle => task[t].p # task[u].p

\* Who launched a process owns it.
LaunchedInv ==
    /\ \A p \in Servers : ~Exited(p) => (proc[p].by = "component" <=> p = Component)
    /\ instance # Idle => proc[instance.p].by = "sync" \/ Exited(instance.p)
    /\ call # Idle => proc[call.p].by = "sync" \/ Exited(call.p)
    /\ \A t \in Tasks : task[t] # Idle => proc[task[t].p].by # "sync" \/ Exited(task[t].p)

\* What a process has answered says how far it has stopped.
StoppingInv ==
    /\ \A p \in Servers : proc[p].answered => proc[p].state \in {"stopping", "killed", "exited"}
    /\ \A t \in Tasks : task[t].at = "terminate" =>
           proc[task[t].p].answered \/ proc[task[t].p].state \in {"killed", "exited"}
    /\ \A t \in Tasks : task[t].at = "returned" => Exited(task[t].p)

\* The path that the owner of a server will unbind leads to the server.
BindingsInv ==
    /\ BindingsAreOwn
    /\ call.at = "shutdown" => namespace[call.path] = call.p

\* A path that is bound is one that the owner of its server knows.
BoundInv ==
    \A path \in Paths : namespace[path] # None =>
        \/ namespace[path] \in abandoned
        \/ instance # Idle /\ instance.path = path /\ instance.p = namespace[path]
        \/ call.at = "shutdown" /\ call.path = path /\ call.p = namespace[path]
        \/ \E t \in Tasks : task[t] # Idle /\ task[t].binding = path /\ task[t].p = namespace[path]

\* A process that may write to its device is owned, or was left behind.
RunningInv ==
    \A p \in Procs : ~proc[p].answered /\ proc[p].state \in {"starting", "ready", "stopping", "refused"} =>
        Managed(p) \/ p \in abandoned

FsInv ==
    /\ FsType /\ PathsInv /\ OwnersInv /\ LaunchedInv
    /\ StoppingInv /\ BindingsInv /\ BoundInv /\ RunningInv

-----------------------------------------------------------------------------
\* Every action keeps FsInv: one lemma for each, with a step for each conjunct.
LEMMA MountKeeps ==
    ASSUME FsInv, NEW path \in Paths, mount(path)
    PROVE  FsInv'
<1> USE DEF FsInv, FsType, mount, launch_process, Free, Fresh, Servers, ProcState,
        None, Idle, TaskAt, Exited, Managed, Bound, Holds
<1>1. FsType'
  OBVIOUS
<1>2. PathsInv'
  BY DEF PathsInv
<1>3. OwnersInv'
  BY DEF OwnersInv
<1>4. LaunchedInv'
  BY FsAssumption DEF LaunchedInv
<1>5. StoppingInv'
  BY DEF StoppingInv
<1>6. BindingsInv'
  BY DEF BindingsInv, BindingsAreOwn
<1>7. BoundInv'
  BY DEF BoundInv
<1>8. RunningInv'
  BY DEF RunningInv
<1> QED BY <1>1, <1>2, <1>3, <1>4, <1>5, <1>6, <1>7, <1>8, Zenon DEF FsInv

\* The path is bound when the mount succeeds; a failed one abandons its process.
LEMMA MountDescribedKeeps ==
    ASSUME FsInv, MountDescribed
    PROVE  FsInv'
<1> USE DEF FsInv, FsType, MountDescribed, give_up, Servers, ProcState, None, Idle, TaskAt,
        Exited
<1>1. FsType'
  BY DEF PathsInv
<1>2. PathsInv'
  BY Zenon DEF PathsInv
<1>3. OwnersInv'
  BY DEF OwnersInv, Holds
<1>4. LaunchedInv'
  BY DEF LaunchedInv
<1>5. StoppingInv'
  BY Zenon DEF StoppingInv
<1>6. BindingsInv'
  BY FsAssumption DEF PathsInv, BindingsInv, BindingsAreOwn
<1>7. BoundInv'
  BY FsAssumption DEF OwnersInv, BoundInv, Holds
<1>8. RunningInv'
  BY FsAssumption DEF OwnersInv, RunningInv, Managed, Holds
<1> QED BY <1>1, <1>2, <1>3, <1>4, <1>5, <1>6, <1>7, <1>8, Zenon DEF FsInv

\* format and fsck take a free process, which nobody owns or is bound to.
LEMMA CommandKeeps ==
    ASSUME FsInv, command
    PROVE  FsInv'
<1> USE DEF FsInv, FsType, command, launch_process, Free, Fresh, Servers, ProcState,
        None, Idle, TaskAt, Exited, Managed, Bound, Holds
<1>1. FsType'
  OBVIOUS
<1>2. PathsInv'
  BY DEF PathsInv
<1>3. OwnersInv'
  BY DEF OwnersInv
<1>4. LaunchedInv'
  BY FsAssumption DEF LaunchedInv
<1>5. StoppingInv'
  BY DEF StoppingInv
<1>6. BindingsInv'
  BY DEF BindingsInv, BindingsAreOwn
<1>7. BoundInv'
  BY DEF BoundInv
<1>8. RunningInv'
  BY DEF RunningInv
<1> QED BY <1>1, <1>2, <1>3, <1>4, <1>5, <1>6, <1>7, <1>8, Zenon DEF FsInv

\* A command that returns has seen its process exit.
LEMMA CommandDoneKeeps ==
    ASSUME FsInv, CommandDone
    PROVE  FsInv'
<1> USE DEF FsInv, FsType, CommandDone, Servers, ProcState, None, Idle, TaskAt,
        Exited
<1>1. FsType'
  BY Zenon
<1>2. PathsInv'
  BY Zenon DEF PathsInv
<1>3. OwnersInv'
  BY DEF OwnersInv, Holds
<1>4. LaunchedInv'
  BY Zenon DEF LaunchedInv
<1>5. StoppingInv'
  BY Zenon DEF StoppingInv
<1>6. BindingsInv'
  BY Zenon DEF BindingsInv, BindingsAreOwn
<1>7. BoundInv'
  BY DEF BoundInv
<1>8. RunningInv'
  BY Zenon DEF RunningInv, Managed, Holds
<1> QED BY <1>1, <1>2, <1>3, <1>4, <1>5, <1>6, <1>7, <1>8, Zenon DEF FsInv

\* unmount passes the server and its path from the Filesystem to the call.
LEMMA UnmountKeeps ==
    ASSUME FsInv, unmount
    PROVE  FsInv'
<1> USE DEF FsInv, FsType, unmount, asked_to_stop, Servers, ProcState, None, Idle,
        TaskAt
<1>1. FsType'
  OBVIOUS
<1>2. PathsInv'
  BY Zenon DEF PathsInv
<1>3. OwnersInv'
  BY Zenon DEF OwnersInv, Holds
<1>4. LaunchedInv'
  BY DEF LaunchedInv, Exited
<1>5. StoppingInv'
  BY DEF StoppingInv, Exited
<1>6. BindingsInv'
  BY Zenon DEF BindingsInv, BindingsAreOwn
<1>7. BoundInv'
  BY Zenon DEF BoundInv
<1>8. RunningInv'
  BY Zenon DEF RunningInv, Managed, Holds
<1> QED BY <1>1, <1>2, <1>3, <1>4, <1>5, <1>6, <1>7, <1>8, Zenon DEF FsInv

\* The path is unbound with the answer; a failed unmount abandons both.
LEMMA UnmountDoneKeeps ==
    ASSUME FsInv, UnmountDone
    PROVE  FsInv'
<1> USE DEF FsInv, FsType, UnmountDone, unbound, shutdown_failed, Servers,
        ProcState, None, Idle, TaskAt
<1>1. FsType'
  OBVIOUS
<1>2. PathsInv'
  BY Zenon DEF PathsInv
<1>3. OwnersInv'
  BY DEF OwnersInv, Holds
<1>4. LaunchedInv'
  BY Zenon DEF LaunchedInv, Exited
<1>5. StoppingInv'
  BY Zenon DEF StoppingInv, Exited
<1>6. BindingsInv'
  BY FsAssumption DEF OwnersInv, BindingsInv, BindingsAreOwn, Holds
<1>7. BoundInv'
  BY FsAssumption DEF BoundInv
<1>8. RunningInv'
  BY DEF RunningInv, Managed, Holds
<1> QED BY <1>1, <1>2, <1>3, <1>4, <1>5, <1>6, <1>7, <1>8, Zenon DEF FsInv

\* kill of the blocking Filesystem gives up a process it has killed.
LEMMA KillKeeps ==
    ASSUME FsInv, kill
    PROVE  FsInv'
<1> USE DEF FsInv, FsType, kill, killed, unbound, Servers, ProcState, None, Idle,
        TaskAt
<1>1. FsType'
  OBVIOUS
<1>2. PathsInv'
  BY Zenon DEF PathsInv
<1>3. OwnersInv'
  BY Zenon DEF OwnersInv, Holds
<1>4. LaunchedInv'
  BY DEF LaunchedInv, Exited
<1>5. StoppingInv'
  BY DEF StoppingInv, Exited
<1>6. BindingsInv'
  BY FsAssumption DEF OwnersInv, BindingsInv, BindingsAreOwn, Holds
<1>7. BoundInv'
  BY FsAssumption DEF BoundInv
<1>8. RunningInv'
  BY DEF RunningInv, Managed, Holds
<1> QED BY <1>1, <1>2, <1>3, <1>4, <1>5, <1>6, <1>7, <1>8, Zenon DEF FsInv

\* serve takes a free process or the component, which no other task has.
LEMMA ServeKeeps ==
    ASSUME FsInv, NEW t \in Tasks, serve(t)
    PROVE  FsInv'
<1> USE DEF FsInv, FsType, serve, launch_process, Free, Fresh, Servers, ProcState,
        None, Idle, TaskAt, Exited, Managed, Bound, Holds
<1>1. FsType'
  OBVIOUS
<1>2. PathsInv'
  BY DEF PathsInv
<1>3. OwnersInv'
  BY DEF OwnersInv
<1>4. LaunchedInv'
  BY SMTT(20) DEF LaunchedInv
<1>5. StoppingInv'
  BY DEF StoppingInv
<1>6. BindingsInv'
  BY DEF BindingsInv, BindingsAreOwn
<1>7. BoundInv'
  BY FsAssumption DEF PathsInv, BoundInv
<1>8. RunningInv'
  BY FsAssumption DEF StoppingInv, RunningInv
<1> QED BY <1>1, <1>2, <1>3, <1>4, <1>5, <1>6, <1>7, <1>8, Zenon DEF FsInv

\* A server that has described itself has no binding yet; one that failed is left behind.
LEMMA ServedKeeps ==
    ASSUME FsInv, NEW t \in Tasks, Served(t)
    PROVE  FsInv'
<1> USE DEF FsInv, FsType, Served, give_up, Servers, ProcState, None, Idle, TaskAt, Exited
<1>1. FsType'
  OBVIOUS
<1>2. PathsInv'
  BY DEF PathsInv
<1>3. OwnersInv'
  BY DEF OwnersInv, Holds
<1>4. LaunchedInv'
  BY DEF LaunchedInv
<1>5. StoppingInv'
  BY SMTT(20) DEF StoppingInv
<1>6. BindingsInv'
  BY DEF BindingsInv, BindingsAreOwn
<1>7. BoundInv'
  BY FsAssumption DEF PathsInv, BoundInv
<1>8. RunningInv'
  BY DEF RunningInv, Managed, Holds
<1> QED BY <1>1, <1>2, <1>3, <1>4, <1>5, <1>6, <1>7, <1>8, Zenon DEF FsInv

\* format and fsck of the asynchronous Filesystem.
LEMMA AsyncCommandKeeps ==
    ASSUME FsInv, NEW t \in Tasks, async_command(t)
    PROVE  FsInv'
<1> USE DEF FsInv, FsType, async_command, launch_process, Free, Fresh, Servers,
        ProcState, None, Idle, TaskAt, Exited, Managed, Bound, Holds
<1>1. FsType'
  OBVIOUS
<1>2. PathsInv'
  BY DEF PathsInv
<1>3. OwnersInv'
  BY DEF OwnersInv
<1>4. LaunchedInv'
  BY FsAssumption DEF LaunchedInv
<1>5. StoppingInv'
  BY DEF StoppingInv
<1>6. BindingsInv'
  BY DEF BindingsInv, BindingsAreOwn
<1>7. BoundInv'
  BY FsAssumption DEF PathsInv, BoundInv
<1>8. RunningInv'
  BY FsAssumption DEF StoppingInv, RunningInv
<1> QED BY <1>1, <1>2, <1>3, <1>4, <1>5, <1>6, <1>7, <1>8, Zenon DEF FsInv

\* wait_for_successful_exit returns only what has exited.
LEMMA WaitForExitKeeps ==
    ASSUME FsInv, NEW t \in Tasks, wait_for_successful_exit(t)
    PROVE  FsInv'
<1> USE DEF FsInv, FsType, wait_for_successful_exit, Servers, ProcState, None, Idle,
        TaskAt, Exited
<1>1. FsType'
  BY Zenon
<1>2. PathsInv'
  BY Zenon DEF PathsInv
<1>3. OwnersInv'
  BY DEF OwnersInv, Holds
<1>4. LaunchedInv'
  BY Zenon DEF LaunchedInv
<1>5. StoppingInv'
  BY Zenon DEF StoppingInv
<1>6. BindingsInv'
  BY Zenon DEF BindingsInv, BindingsAreOwn
<1>7. BoundInv'
  BY FsAssumption DEF PathsInv, BoundInv
<1>8. RunningInv'
  BY Zenon DEF RunningInv, Managed, Holds
<1> QED BY <1>1, <1>2, <1>3, <1>4, <1>5, <1>6, <1>7, <1>8, Zenon DEF FsInv

\* bind_to_path records the path it has bound, which was free.
LEMMA BindToPathKeeps ==
    ASSUME FsInv, NEW t \in Tasks, NEW path \in Paths, bind_to_path(t, path)
    PROVE  FsInv'
<1> USE DEF FsInv, FsType, bind_to_path, Servers, ProcState, None, Idle, TaskAt
<1>1. FsType'
  OBVIOUS
<1>2. PathsInv'
  BY DEF PathsInv
<1>3. OwnersInv'
  BY DEF OwnersInv, Holds
<1>4. LaunchedInv'
  BY DEF LaunchedInv, Exited
<1>5. StoppingInv'
  BY DEF StoppingInv, Exited
<1>6. BindingsInv'
  BY FsAssumption DEF BindingsInv, BindingsAreOwn
<1>7. BoundInv'
  BY FsAssumption DEF BoundInv
<1>8. RunningInv'
  BY DEF RunningInv, Managed, Holds
<1> QED BY <1>1, <1>2, <1>3, <1>4, <1>5, <1>6, <1>7, <1>8, Zenon DEF FsInv

\* shutdown keeps its binding while it waits.
LEMMA ShutdownKeeps ==
    ASSUME FsInv, NEW t \in Tasks, shutdown(t)
    PROVE  FsInv'
<1> USE DEF FsInv, FsType, shutdown, asked_to_stop, Servers, ProcState, None, Idle,
        TaskAt
<1>1. FsType'
  OBVIOUS
<1>2. PathsInv'
  BY DEF PathsInv
<1>3. OwnersInv'
  BY DEF OwnersInv, Holds
<1>4. LaunchedInv'
  BY SMTT(20) DEF LaunchedInv, Exited
<1>5. StoppingInv'
  BY DEF StoppingInv, Exited
<1>6. BindingsInv'
  BY DEF BindingsInv, BindingsAreOwn
<1>7. BoundInv'
  BY DEF BoundInv
<1>8. RunningInv'
  BY DEF RunningInv, Managed, Holds
<1> QED BY <1>1, <1>2, <1>3, <1>4, <1>5, <1>6, <1>7, <1>8, Zenon DEF FsInv

\* An answer, or a kill where there is none, comes before the wait to terminate.
LEMMA ShutdownAnsweredKeeps ==
    ASSUME FsInv, NEW t \in Tasks, ShutdownAnswered(t)
    PROVE  FsInv'
<1> USE DEF FsInv, FsType, ShutdownAnswered, shutdown_failed, killed, dropped,
        unbound, Servers, ProcState, None, Idle, TaskAt
<1>1. FsType'
  BY DEF PathsInv
<1>2. PathsInv'
  BY DEF PathsInv
<1>3. OwnersInv'
  BY DEF OwnersInv, Holds
<1>4. LaunchedInv'
  BY DEF LaunchedInv, Exited
<1>5. StoppingInv'
  BY FsAssumption, SMTT(20) DEF StoppingInv, Exited
<1>6. BindingsInv'
  <2>1. /\ task[t].at = "shutdown" /\ UNCHANGED <<instance, call>>
        /\ \/ dropped(t)
           \/ task' = [task EXCEPT ![t].at = "terminate"] /\ UNCHANGED namespace
    BY Zenon
  <2> HIDE DEF ShutdownAnswered
  <2>2. CASE dropped(t)
    BY <2>1, <2>2, FsAssumption DEF OwnersInv, BindingsInv, BindingsAreOwn, Holds
  <2>3. CASE task' = [task EXCEPT ![t].at = "terminate"] /\ UNCHANGED namespace
    BY <2>1, <2>3, FsAssumption DEF BindingsInv, BindingsAreOwn
  <2> QED BY <2>1, <2>2, <2>3, Zenon
<1>7. BoundInv'
  BY FsAssumption DEF PathsInv, BoundInv
<1>8. RunningInv'
  BY FsAssumption DEF PathsInv, RunningInv, Managed, Holds
<1> QED BY <1>1, <1>2, <1>3, <1>4, <1>5, <1>6, <1>7, <1>8, Zenon DEF FsInv

\* A call that returns has seen PROCESS_TERMINATED, and drops its binding.
LEMMA TerminatedKeeps ==
    ASSUME FsInv, NEW t \in Tasks, Terminated(t)
    PROVE  FsInv'
<1> USE DEF FsInv, FsType, Terminated, unbound, Returned, Servers, ProcState, None,
        Idle, TaskAt, Exited
<1>1. FsType'
  OBVIOUS
<1>2. PathsInv'
  BY Zenon DEF PathsInv
<1>3. OwnersInv'
  BY DEF OwnersInv, Holds
<1>4. LaunchedInv'
  BY Zenon DEF LaunchedInv
<1>5. StoppingInv'
  BY Zenon DEF StoppingInv
<1>6. BindingsInv'
  BY FsAssumption DEF OwnersInv, BindingsInv, BindingsAreOwn, Holds
<1>7. BoundInv'
  BY DEF BoundInv
<1>8. RunningInv'
  BY Zenon DEF RunningInv, Managed, Holds
<1> QED BY <1>1, <1>2, <1>3, <1>4, <1>5, <1>6, <1>7, <1>8, Zenon DEF FsInv

\* A kill changes the state of one process, unless it has exited.
LEMMA Killed ==
    ASSUME FsType, NEW p \in Servers, proc' = killed(p)
    PROVE  /\ \A q \in Servers : proc'[q].by = proc[q].by /\ proc'[q].answered = proc[q].answered
           /\ \A q \in Servers : Exited(q)' <=> Exited(q)
           /\ \A q \in Servers : q # p => proc'[q] = proc[q]
           /\ proc'[p].state \in {"killed", "exited"}
  BY DEF FsType, killed, Exited

\* Who launched the processes, when only some of them were killed and tasks let go.
LEMMA LaunchedKept ==
    ASSUME FsType, LaunchedInv, UNCHANGED <<instance, call>>,
           \A q \in Servers : proc'[q].by = proc[q].by, \A q \in Servers : Exited(q)' <=> Exited(q),
           \A u \in Tasks : task'[u] # Idle => task[u] # Idle /\ task'[u].p = task[u].p
    PROVE  LaunchedInv'
<1>1. /\ instance # Idle => instance.p \in Servers
      /\ call # Idle => call.p \in Servers
      /\ \A u \in Tasks : task[u] # Idle => task[u].p \in Servers
  BY DEF FsType, Servers
<1>2. \A q \in Servers : ~Exited(q)' => (proc'[q].by = "component" <=> q = Component)
  BY Zenon DEF LaunchedInv
<1>3. instance' # Idle => proc'[instance'.p].by = "sync" \/ Exited(instance.p)'
  BY <1>1, Zenon DEF LaunchedInv
<1>4. call' # Idle => proc'[call'.p].by = "sync" \/ Exited(call.p)'
  BY <1>1, Zenon DEF LaunchedInv
<1>5. ASSUME NEW u \in Tasks, task'[u] # Idle
      PROVE  proc'[task'[u].p].by # "sync" \/ Exited(task[u].p)'
  <2>1. task[u] # Idle /\ task'[u].p = task[u].p /\ task[u].p \in Servers
    BY <1>1, <1>5, Zenon
  <2>2. proc[task[u].p].by # "sync" \/ Exited(task[u].p)
    BY <2>1, Zenon DEF LaunchedInv
  <2> QED BY <2>1, <2>2, Zenon DEF Exited
<1> QED BY <1>2, <1>3, <1>4, <1>5, Zenon DEF LaunchedInv, Exited, Idle

\* kill of ServingFilesystem kills before it waits.
LEMMA AsyncKillKeeps ==
    ASSUME FsInv, NEW t \in Tasks, async_kill(t)
    PROVE  FsInv'
<1> USE DEF FsInv, FsType, async_kill, killed, Servers, ProcState, None, Idle,
        TaskAt
<1>1. FsType'
  OBVIOUS
<1>2. PathsInv'
  BY DEF PathsInv
<1>3. OwnersInv'
  BY DEF OwnersInv, Holds
<1>0. /\ task[t] # Idle /\ task[t].p \in Servers
      /\ \A u \in Tasks : task'[u] # Idle => task[u] # Idle /\ task'[u].p = task[u].p
  OBVIOUS
<1>4. LaunchedInv'
  <2>1. \A q \in Servers : proc'[q].by = proc[q].by /\ (Exited(q)' <=> Exited(q))
    BY <1>0, Killed, Zenon
  <2> QED BY <1>0, <2>1, LaunchedKept, Zenon
<1>5. StoppingInv'
  BY DEF StoppingInv, Exited
<1>6. BindingsInv'
  BY DEF BindingsInv, BindingsAreOwn
<1>7. BoundInv'
  BY DEF BoundInv
<1>8. RunningInv'
  BY DEF RunningInv, Managed, Holds
<1> QED BY <1>1, <1>2, <1>3, <1>4, <1>5, <1>6, <1>7, <1>8, Zenon DEF FsInv

\* Drop kills the process and unbinds its path.
LEMMA DropKeeps ==
    ASSUME FsInv, NEW t \in Tasks, drop(t)
    PROVE  FsInv'
<1> USE DEF FsInv, FsType, drop, killed, dropped, unbound, Servers, ProcState, None,
        Idle, TaskAt
<1>1. FsType'
  OBVIOUS
<1>2. PathsInv'
  BY Zenon DEF PathsInv
<1>3. OwnersInv'
  <2>1. /\ UNCHANGED <<instance, call>> /\ task'[t] = Idle
        /\ \A u \in Tasks : task'[u] = IF u = t THEN Idle ELSE task[u]
    OBVIOUS
  <2> QED BY ONLY <2>1, OwnersInv, Zenon DEF OwnersInv, Holds
<1>0. /\ task[t] # Idle /\ task[t].p \in Servers /\ task'[t] = Idle
      /\ \A u \in Tasks : u # t => task'[u] = task[u]
      /\ \A u \in Tasks : task[u].at \in {"terminate", "returned"} => task[u].p \in Servers
  OBVIOUS
<1>9. /\ \A q \in Servers : proc'[q].by = proc[q].by /\ proc'[q].answered = proc[q].answered
      /\ \A q \in Servers : Exited(q)' <=> Exited(q)
      /\ \A q \in Servers : proc'[q] = proc[q] \/ proc'[q].state \in {"killed", "exited"}
  <2>1. CASE task[t].p = Component
    BY <2>1, Zenon DEF Exited
  <2>2. CASE task[t].p # Component
    BY <1>0, <2>2, Killed, Zenon
  <2> QED BY <2>1, <2>2, Zenon
<1>4. LaunchedInv'
  BY <1>0, <1>9, LaunchedKept, Zenon
<1>5. StoppingInv'
  <2>1. \A p \in Servers : proc'[p].answered => proc'[p].state \in {"stopping", "killed", "exited"}
    BY <1>9, Zenon DEF StoppingInv
  <2>2. ASSUME NEW u \in Tasks, task'[u].at = "terminate"
        PROVE  proc'[task'[u].p].answered \/ proc'[task'[u].p].state \in {"killed", "exited"}
    <3>1. u # t
      BY <1>0, <2>2
    <3>2. task'[u] = task[u] /\ task[u].p \in Servers
      BY <1>0, <2>2, <3>1, Zenon
    <3>3. proc[task[u].p].answered \/ proc[task[u].p].state \in {"killed", "exited"}
      BY <2>2, <3>2, Zenon DEF StoppingInv
    <3> QED BY ONLY <1>9, <3>2, <3>3, Zenon
  <2>3. ASSUME NEW u \in Tasks, task'[u].at = "returned"
        PROVE  Exited(task[u].p)' /\ task'[u] = task[u]
    <3>1. u # t
      BY <1>0, <2>3
    <3>2. task'[u] = task[u] /\ task[u].p \in Servers
      BY <1>0, <2>3, <3>1, Zenon
    <3>3. Exited(task[u].p)
      BY <2>3, <3>2, Zenon DEF StoppingInv
    <3> QED BY ONLY <1>9, <3>2, <3>3, Zenon DEF Exited
  <2> QED BY <2>1, <2>2, <2>3, Zenon DEF StoppingInv, Exited
<1>6. BindingsInv'
  BY FsAssumption DEF OwnersInv, BindingsInv, BindingsAreOwn, Holds
<1>7. BoundInv'
  BY FsAssumption DEF BoundInv
<1>8. RunningInv'
  BY FsAssumption DEF RunningInv, Managed, Holds
<1> QED BY <1>1, <1>2, <1>3, <1>4, <1>5, <1>6, <1>7, <1>8, Zenon DEF FsInv

\* A future dropped with the process in hand leaves it behind, and unbinds its path.
LEMMA DropFutureKeeps ==
    ASSUME FsInv, NEW t \in Tasks, DropFuture(t)
    PROVE  FsInv'
<1> USE DEF FsInv, FsType, DropFuture, dropped, unbound, Servers, ProcState, None,
        Idle, TaskAt
<1>1. FsType'
  OBVIOUS
<1>2. PathsInv'
  BY Zenon DEF PathsInv
<1>3. OwnersInv'
  BY DEF OwnersInv, Holds
<1>4. LaunchedInv'
  BY Zenon DEF LaunchedInv, Exited
<1>5. StoppingInv'
  BY Zenon DEF StoppingInv, Exited
<1>6. BindingsInv'
  BY FsAssumption DEF OwnersInv, BindingsInv, BindingsAreOwn, Holds
<1>7. BoundInv'
  BY FsAssumption DEF BoundInv
<1>8. RunningInv'
  BY FsAssumption, Zenon DEF StoppingInv, RunningInv, Managed, Exited, Holds
<1> QED BY <1>1, <1>2, <1>3, <1>4, <1>5, <1>6, <1>7, <1>8, Zenon DEF FsInv

\* A process becomes ready, or gives up and exits.
LEMMA StartsKeeps ==
    ASSUME FsInv, NEW p \in Servers, Starts(p), forget_exited
    PROVE  FsInv'
<1> USE DEF FsInv, FsType, Starts, forget_exited, become, exit, Gone, Bound,
        Servers, ProcState, None, Idle, TaskAt
<1>1. FsType'
  OBVIOUS
<1>2. PathsInv'
  BY Zenon DEF PathsInv
<1>3. OwnersInv'
  BY DEF OwnersInv, Holds
<1>4. LaunchedInv'
  BY DEF LaunchedInv, Exited
<1>5. StoppingInv'
  BY DEF StoppingInv, Exited
<1>6. BindingsInv'
  BY Zenon DEF BindingsInv, BindingsAreOwn
<1>7. BoundInv'
  BY DEF BoundInv
<1>8. RunningInv'
  BY DEF RunningInv, Managed, Holds
<1> QED BY <1>1, <1>2, <1>3, <1>4, <1>5, <1>6, <1>7, <1>8, Zenon DEF FsInv

\* Only a process that is stopping answers or refuses.
LEMMA AnswersKeeps ==
    ASSUME FsInv, NEW p \in Servers, Answers(p), forget_exited
    PROVE  FsInv'
<1> USE DEF FsInv, FsType, Answers, forget_exited, become, Bound, Servers,
        ProcState, None, Idle, TaskAt
<1>1. FsType'
  <2> DEFINE Proc == [state : ProcState, by : {"sync", "async", "component", None},
                      cmd : {"mount", "command", None}, answered : BOOLEAN]
  <2>1. proc'[p] = [proc[p] EXCEPT !.answered = TRUE] \/ proc'[p] = [proc[p] EXCEPT !.state = "refused"]
    BY Zenon
  <2>2. proc'[p] \in Proc
    BY <2>1, Zenon
  <2>3. proc' \in [Servers -> Proc]
    BY <2>2
  <2> QED BY <2>3, Zenon
<1>2. PathsInv'
  BY Zenon DEF PathsInv
<1>3. OwnersInv'
  BY DEF OwnersInv, Holds
<1>4. LaunchedInv'
  BY DEF LaunchedInv, Exited
<1>5. StoppingInv'
  BY DEF StoppingInv, Exited
<1>6. BindingsInv'
  BY Zenon DEF BindingsInv, BindingsAreOwn
<1>7. BoundInv'
  BY DEF BoundInv
<1>8. RunningInv'
  BY Zenon DEF RunningInv, Managed, Holds
<1> QED BY <1>1, <1>2, <1>3, <1>4, <1>5, <1>6, <1>7, <1>8, Zenon DEF FsInv

\* A process that exits stays with its owner.
LEMMA ExitsKeeps ==
    ASSUME FsInv, NEW p \in Servers, Exits(p), forget_exited
    PROVE  FsInv'
<1> USE DEF FsInv, FsType, Exits, forget_exited, exit, Gone, Bound, Servers,
        ProcState, None, Idle, TaskAt
<1>1. FsType'
  BY Zenon
<1>2. PathsInv'
  BY Zenon DEF PathsInv
<1>3. OwnersInv'
  BY Zenon DEF OwnersInv, Holds
<1>4. LaunchedInv'
  BY Zenon DEF LaunchedInv, Exited
<1>5. StoppingInv'
  BY DEF StoppingInv, Exited
<1>6. BindingsInv'
  BY Zenon DEF BindingsInv, BindingsAreOwn
<1>7. BoundInv'
  BY DEF BoundInv
<1>8. RunningInv'
  BY Zenon DEF RunningInv, Managed, Holds
<1> QED BY <1>1, <1>2, <1>3, <1>4, <1>5, <1>6, <1>7, <1>8, Zenon DEF FsInv

\* So does one that crashes.
LEMMA CrashesKeeps ==
    ASSUME FsInv, NEW p \in Servers, Crashes(p), forget_exited
    PROVE  FsInv'
<1> USE DEF FsInv, FsType, Crashes, forget_exited, exit, Gone, Bound, Servers,
        ProcState, None, Idle, TaskAt
<1>1. FsType'
  BY Zenon
<1>2. PathsInv'
  BY Zenon DEF PathsInv
<1>3. OwnersInv'
  BY DEF OwnersInv, Holds
<1>4. LaunchedInv'
  BY Zenon DEF LaunchedInv, Exited
<1>5. StoppingInv'
  BY DEF StoppingInv, Exited
<1>6. BindingsInv'
  BY Zenon DEF BindingsInv, BindingsAreOwn
<1>7. BoundInv'
  BY DEF BoundInv
<1>8. RunningInv'
  BY Zenon DEF RunningInv, Managed, Holds
<1> QED BY <1>1, <1>2, <1>3, <1>4, <1>5, <1>6, <1>7, <1>8, Zenon DEF FsInv

-----------------------------------------------------------------------------
\* Nothing runs and nothing is bound at first.
LEMMA FsInitially == Init => FsInv
<1> SUFFICES ASSUME Init PROVE FsInv
  BY Zenon
<1> USE FsAssumption DEF Init, Idle, None, Servers, Gone
<1>1. FsType
  BY Zenon DEF FsType, ProcState
<1>2. PathsInv /\ OwnersInv /\ LaunchedInv /\ StoppingInv
  BY Zenon DEF PathsInv, OwnersInv, LaunchedInv, StoppingInv, Exited
<1>3. BindingsInv /\ BoundInv /\ RunningInv
  BY Zenon DEF BindingsInv, BindingsAreOwn, BoundInv, RunningInv
<1> QED BY <1>1, <1>2, <1>3, Zenon DEF FsInv

\* FsInv is about vars only.
LEMMA StutterKeeps == FsInv /\ UNCHANGED vars => FsInv'
<1> SUFFICES ASSUME FsInv, UNCHANGED vars PROVE FsInv'
  BY Zenon
<1> USE DEF FsInv, vars
<1>1. FsType' /\ PathsInv' /\ OwnersInv' /\ LaunchedInv'
  BY Zenon DEF FsType, PathsInv, OwnersInv, LaunchedInv, Holds, Exited
<1>2. StoppingInv' /\ BindingsInv' /\ BoundInv' /\ RunningInv'
  BY Zenon DEF StoppingInv, BindingsInv, BindingsAreOwn, BoundInv, RunningInv, Holds, Exited, Managed
<1> QED BY <1>1, <1>2, Zenon

\* FsInv is an inductive invariant of FsManagement.
THEOREM FsInvariant == Spec => []FsInv
<1>1. FsInv /\ [Next]_vars => FsInv'
  <2> SUFFICES ASSUME FsInv, [Next]_vars PROVE FsInv'
    BY Zenon
  <2>1. CASE Blocking
    BY <2>1, MountKeeps, CommandKeeps, UnmountKeeps, KillKeeps, Zenon DEF Blocking
  <2>2. CASE BlockingReturns
    BY <2>2, MountDescribedKeeps, CommandDoneKeeps, UnmountDoneKeeps, Zenon DEF BlockingReturns
  <2>3. ASSUME NEW t \in Tasks, Async(t) PROVE FsInv'
    BY <2>3, ServeKeeps, AsyncCommandKeeps, ShutdownKeeps, AsyncKillKeeps, DropKeeps,
       DropFutureKeeps, BindToPathKeeps, Zenon DEF Async
  <2>4. ASSUME NEW t \in Tasks, Awaited(t) PROVE FsInv'
    BY <2>4, ServedKeeps, WaitForExitKeeps, ShutdownAnsweredKeeps, TerminatedKeeps, Zenon DEF Awaited
  <2>5. ASSUME NEW p \in Servers, ServerStep(p) \/ (Crashes(p) /\ forget_exited) PROVE FsInv'
    BY <2>5, StartsKeeps, AnswersKeeps, ExitsKeeps, CrashesKeeps, Zenon DEF ServerStep
  <2>6. CASE UNCHANGED vars
    BY <2>6, StutterKeeps, Zenon
  <2> QED BY <2>1, <2>2, <2>3, <2>4, <2>5, <2>6, Zenon DEF Next
<1> QED BY <1>1, FsInitially, PTL DEF Spec

\* The values of the variables, for any number of processes, tasks and paths.
THEOREM TypeCorrect == Spec => []TypeOK
<1>1. FsInv => TypeOK
  BY FsAssumption, Zenon DEF FsInv, FsType, PathsInv, OwnersInv, LaunchedInv, StoppingInv, TypeOK,
     ProcState, Servers, Idle, None, Exited
<1> QED BY <1>1, FsInvariant, PTL

\* mount, format and fsck of lib.rs: the device of the blocking Filesystem has one
\* user, apart from processes that kill has not waited for and those that a mount or
\* an unmount with an error left behind.
THEOREM DeviceHasOneUser == Spec => []OneUser
<1>1. FsInv => OneUser
  <2> SUFFICES ASSUME FsInv PROVE OneUser
    BY Zenon
  <2>1. ASSUME NEW p \in Users, proc[p].state # "killed", p \notin abandoned
        PROVE  Holds(instance, p) \/ Holds(call, p)
    <3>1. p \in Procs /\ ~Exited(p) /\ proc[p].by = "sync" /\ ~proc[p].answered /\ p \in Servers
      BY Zenon DEF Users, Servers
    <3>2. proc[p].state \in {"starting", "ready", "stopping", "refused"}
      BY <2>1, <3>1, Zenon DEF FsInv, FsType, ProcState, Exited
    <3>3. Managed(p)
      BY <2>1, <3>1, <3>2, Zenon DEF FsInv, RunningInv
    <3>4. \A t \in Tasks : ~Holds(task[t], p)
      BY <3>1, Zenon DEF FsInv, LaunchedInv, Holds
    <3> QED BY <3>3, <3>4, Zenon DEF Managed
  <2>2. \A p, q : /\ (Holds(instance, p) \/ Holds(call, p))
                  /\ (Holds(instance, q) \/ Holds(call, q))
                => p = q
    BY Zenon DEF FsInv, OwnersInv, Holds
  <2> QED BY <2>1, <2>2, Zenon DEF OneUser
<1> QED BY <1>1, FsInvariant, PTL

\* Nobody unbinds a path of the namespace that another filesystem is bound to.
THEOREM BindingsOwn == Spec => []BindingsAreOwn
<1>1. FsInv => BindingsAreOwn
  BY Zenon DEF FsInv, BindingsInv
<1> QED BY <1>1, FsInvariant, PTL

\* unmount, kill, shutdown and Drop unbind the path of the filesystem.
THEOREM NoStaleBinding == Spec => []BoundIsManaged
<1>1. FsInv => BoundIsManaged
  BY DEF FsInv, FsType, BoundInv, BoundIsManaged, Managed, Holds, Idle
<1> QED BY <1>1, FsInvariant, PTL

\* Drop, shutdown and kill leave no process without an owner.
THEOREM NoOrphan == Spec => []RunningIsManaged
<1>1. FsInv => RunningIsManaged
  BY Zenon DEF FsInv, StoppingInv, RunningInv, RunningIsManaged, Servers
<1> QED BY <1>1, FsInvariant, PTL

\* shutdown and kill of ServingFilesystem await PROCESS_TERMINATED.
THEOREM ReturnsTerminated == Spec => []TerminatedOnReturn
<1>1. FsInv => TerminatedOnReturn
  BY Zenon DEF FsInv, StoppingInv, TerminatedOnReturn
<1> QED BY <1>1, FsInvariant, PTL

=============================================================================
