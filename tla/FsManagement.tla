---------------------------- MODULE FsManagement ----------------------------
(***************************************************************************)
(* fs_management/rust: the blocking Filesystem of lib.rs and the           *)
(* asynchronous Filesystem and ServingFilesystem of asynchronous.rs.  A    *)
(* program has one blocking Filesystem and a number of tasks with a        *)
(* ServingFilesystem each, every one on a block device of its own, and     *)
(* binds them to paths of its one namespace.  A filesystem is a process    *)
(* that a call launches or, for Fxfs, a component that is already there.   *)
(***************************************************************************)
EXTENDS Naturals, FiniteSets

CONSTANTS
    Procs,          \* processes, and
    Component,      \* the component of which there is one instance
    Tasks,          \* tasks that use asynchronous.rs
    Paths,          \* paths of the namespace
    Faults          \* what a server may do: "crash" at any time, "refuse" to shut down

ASSUME FsAssumption ==
    /\ IsFiniteSet(Procs) /\ Component \notin Procs
    /\ "none" \notin Procs \cup {Component} \cup Paths
    /\ Faults \subseteq {"crash", "refuse"}

VARIABLES
    proc,           \* process or component -> its state
    namespace,      \* path -> the server whose root is bound to it
    instance,       \* Filesystem::instance of the blocking Filesystem
    call,           \* what the caller of the blocking Filesystem waits for
    task,           \* task -> its ServingFilesystem, or what it awaits
    abandoned       \* history: processes left by a call that failed or was dropped

vars == <<proc, namespace, instance, call, task, abandoned>>

None == "none"
Idle == [at |-> "idle"]
Returned(p) == [at |-> "returned", p |-> p, binding |-> None]
Servers == Procs \cup {Component}
Gone == [state |-> "exited", by |-> None, cmd |-> None, answered |-> FALSE]

Init ==
    /\ proc = [p \in Servers |-> Gone]
    /\ namespace = [path \in Paths |-> None]
    /\ instance = Idle
    /\ call = Idle
    /\ task = [t \in Tasks |-> Idle]
    /\ abandoned = {}

-----------------------------------------------------------------------------
(***************************************************************************)
(* Processes and the namespace.                                            *)
(***************************************************************************)

Holds(r, p) == r # Idle /\ r.p = p
Managed(p) == Holds(instance, p) \/ Holds(call, p) \/ \E t \in Tasks : Holds(task[t], p)
Bound(p) == \E path \in Paths : namespace[path] = p
Exited(p) == proc[p].state = "exited"

\* What stands for a process that has gone is used again for the next one; which
\* of them makes no difference.
Free(p) == Exited(p) /\ ~Managed(p) /\ ~Bound(p)
Fresh == LET free == {p \in Procs : Free(p)} IN
         IF free = {} THEN {} ELSE {CHOOSE p \in free : TRUE}

\* launch_process, or a Startup request for the component.  A launch that fails
\* changes nothing.
launch_process(p, by, cmd) ==
    /\ Free(p)
    /\ proc' = [proc EXCEPT ![p] = [state |-> "starting", by |-> by, cmd |-> cmd, answered |-> FALSE]]

\* Process::kill: the process terminates some time later.
killed(p) == [proc EXCEPT ![p].state = IF @ = "exited" THEN @ ELSE "killed"]

\* The request Admin.Shutdown reaches a server that is there.
asked_to_stop(p) == [proc EXCEPT ![p].state = IF @ = "ready" THEN "stopping" ELSE @]

\* It fails: the server is gone without an answer, or has refused.
shutdown_failed(p) == ~proc[p].answered /\ proc[p].state \in {"exited", "refused", "killed"}

unbound(path) == IF path = None THEN namespace ELSE [namespace EXCEPT ![path] = None]

-----------------------------------------------------------------------------
(***************************************************************************)
(* The blocking Filesystem.  It does not support components.               *)
(***************************************************************************)

\* mount, up to the answer to describe.
mount(path) ==
    /\ call = Idle /\ instance = Idle
    /\ \E p \in Fresh :
        /\ launch_process(p, "sync", "mount")
        /\ call' = [at |-> "describe", p |-> p, path |-> path]
        /\ abandoned' = abandoned \ {p}
    /\ UNCHANGED <<namespace, instance, task>>

\* What a call leaves behind that returns an error after it launched p: the handle
\* is closed, and a process that is still there goes on.
give_up(p) == abandoned' = abandoned \cup {q \in {p} : ~Exited(q)}

\* The rest of FSInstance::mount.  Opening or describing the root fails, with the
\* server gone or not, or Namespace::bind does, as it must on a path in use.
MountDescribed ==
    /\ call.at = "describe" /\ proc[call.p].state # "starting"
    /\ \/ /\ ~Exited(call.p) /\ namespace[call.path] = None
          /\ namespace' = [namespace EXCEPT ![call.path] = call.p]
          /\ instance' = [p |-> call.p, path |-> call.path]
          /\ UNCHANGED abandoned
       \/ give_up(call.p) /\ UNCHANGED <<namespace, instance>>
    /\ call' = Idle
    /\ UNCHANGED <<proc, task>>

\* format and fsck: run_command_and_wait_for_clean_exit.
command ==
    /\ call = Idle /\ instance = Idle
    /\ \E p \in Fresh :
        /\ launch_process(p, "sync", "command")
        /\ call' = [at |-> "wait", p |-> p, path |-> None]
        /\ abandoned' = abandoned \ {p}
    /\ UNCHANGED <<namespace, instance, task>>

\* Mutant: the exit of the command is not awaited.
CommandDone_NoWait ==
    /\ call.at = "wait"
    /\ call' = Idle
    /\ UNCHANGED <<proc, namespace, instance, task, abandoned>>

CommandDone ==
    /\ call.at = "wait" /\ Exited(call.p)
    /\ call' = Idle
    /\ UNCHANGED <<proc, namespace, instance, task, abandoned>>

\* unmount, also called by drop: the instance is taken first.
unmount ==
    /\ call = Idle /\ instance # Idle
    /\ proc' = asked_to_stop(instance.p)
    /\ call' = [at |-> "shutdown", p |-> instance.p, path |-> instance.path]
    /\ instance' = Idle
    /\ UNCHANGED <<namespace, task, abandoned>>

\* The rest of FSInstance::unmount: an error returns before the path is unbound.
UnmountDone ==
    /\ call.at = "shutdown"
    /\ \/ /\ proc[call.p].answered
          /\ namespace' = unbound(call.path)
          /\ UNCHANGED abandoned
       \/ /\ shutdown_failed(call.p)
          /\ abandoned' = abandoned \cup {call.p}
          /\ UNCHANGED namespace
    /\ call' = Idle
    /\ UNCHANGED <<proc, instance, task>>

\* kill unbinds the path, then kills the process without waiting for it.
kill ==
    /\ call = Idle /\ instance # Idle
    /\ namespace' = unbound(instance.path)
    /\ proc' = killed(instance.p)
    /\ instance' = Idle
    /\ UNCHANGED <<call, task, abandoned>>

Blocking == (\E path \in Paths : mount(path)) \/ command \/ unmount \/ kill
BlockingReturns == MountDescribed \/ CommandDone \/ UnmountDone

-----------------------------------------------------------------------------
(***************************************************************************)
(* asynchronous.rs.                                                        *)
(***************************************************************************)

\* serve: do_serve launches a process and awaits describe; a component is asked
\* to start.
serve(t) ==
    /\ task[t].at \in {"idle", "returned"}
    /\ \E p \in Fresh \cup {Component} :
        /\ launch_process(p, IF p = Component THEN "component" ELSE "async", "mount")
        /\ task' = [task EXCEPT ![t] = [at |-> "describe", p |-> p, binding |-> None]]
        /\ abandoned' = abandoned \ {p}
    /\ UNCHANGED <<namespace, instance, call>>

\* The rest of do_serve: as in FSInstance::mount, an error leaves the process.
Served(t) ==
    LET p == task[t].p IN
    /\ task[t].at = "describe" /\ proc[p].state # "starting"
    /\ \/ ~Exited(p) /\ task' = [task EXCEPT ![t].at = "serving"] /\ UNCHANGED abandoned
       \/ give_up(p) /\ task' = [task EXCEPT ![t] = Idle]
    /\ UNCHANGED <<proc, namespace, instance, call>>

\* format and fsck, then wait_for_successful_exit.  With a component they are one
\* Startup request that changes nothing here.
async_command(t) ==
    /\ task[t].at \in {"idle", "returned"}
    /\ \E p \in Fresh :
        /\ launch_process(p, "async", "command")
        /\ task' = [task EXCEPT ![t] = [at |-> "wait", p |-> p, binding |-> None]]
        /\ abandoned' = abandoned \ {p}
    /\ UNCHANGED <<namespace, instance, call>>

wait_for_successful_exit(t) ==
    /\ task[t].at = "wait" /\ Exited(task[t].p)
    /\ task' = [task EXCEPT ![t] = Idle]
    /\ UNCHANGED <<proc, namespace, instance, call, abandoned>>

\* Mutant: the binding is recorded before Namespace::bind is known to succeed.
bind_to_path_Early(t, path) ==
    /\ task[t].at = "serving" /\ task[t].binding = None
    /\ namespace' = [namespace EXCEPT ![path] = IF @ = None THEN task[t].p ELSE @]
    /\ task' = [task EXCEPT ![t].binding = path]
    /\ UNCHANGED <<proc, instance, call, abandoned>>

\* bind_to_path.  One binding is supported: a task that has one asks for no other.
bind_to_path(t, path) ==
    /\ task[t].at = "serving" /\ task[t].binding = None
    /\ namespace[path] = None
    /\ namespace' = [namespace EXCEPT ![path] = task[t].p]
    /\ task' = [task EXCEPT ![t].binding = path]
    /\ UNCHANGED <<proc, instance, call, abandoned>>

\* Drop for ServingFilesystem, after the process was taken: the path is unbound.
dropped(t) ==
    /\ namespace' = unbound(task[t].binding)
    /\ task' = [task EXCEPT ![t] = Idle]

\* shutdown, up to the answer of the server.
shutdown(t) ==
    /\ task[t].at = "serving"
    /\ proc' = asked_to_stop(task[t].p)
    /\ task' = [task EXCEPT ![t].at = "shutdown"]
    /\ UNCHANGED <<namespace, instance, call, abandoned>>

\* Mutant: a process that does not shut down is awaited, not killed.
ShutdownAnswered_NoKill(t) ==
    LET p == task[t].p IN
    /\ task[t].at = "shutdown"
    /\ \/ proc[p].answered /\ UNCHANGED proc
       \/ shutdown_failed(p) /\ UNCHANGED proc
    /\ IF p = Component THEN dropped(t)
       ELSE task' = [task EXCEPT ![t].at = "terminate"] /\ UNCHANGED namespace
    /\ UNCHANGED <<instance, call, abandoned>>

\* A process is awaited when it has answered, and killed and awaited when it has
\* not; a component is left alone.
ShutdownAnswered(t) ==
    LET p == task[t].p IN
    /\ task[t].at = "shutdown"
    /\ \/ proc[p].answered /\ UNCHANGED proc
       \/ shutdown_failed(p) /\ proc' = IF p = Component THEN proc ELSE killed(p)
    /\ IF p = Component THEN dropped(t)
       ELSE task' = [task EXCEPT ![t].at = "terminate"] /\ UNCHANGED namespace
    /\ UNCHANGED <<instance, call, abandoned>>

\* PROCESS_TERMINATED is signalled: shutdown or kill returns, and drops what is
\* left of the ServingFilesystem.
Terminated(t) ==
    /\ task[t].at = "terminate" /\ Exited(task[t].p)
    /\ namespace' = unbound(task[t].binding)
    /\ task' = [task EXCEPT ![t] = Returned(@.p)]
    /\ UNCHANGED <<proc, instance, call, abandoned>>

\* kill: a component is shut down instead.
async_kill(t) ==
    /\ task[t].at = "serving" /\ task[t].p # Component
    /\ proc' = killed(task[t].p)
    /\ task' = [task EXCEPT ![t].at = "terminate"]
    /\ UNCHANGED <<namespace, instance, call, abandoned>>

\* Mutant: Drop does not kill the process.
drop_NoKill(t) ==
    /\ task[t].at \in {"serving", "shutdown"}
    /\ UNCHANGED proc
    /\ dropped(t)
    /\ UNCHANGED <<instance, call, abandoned>>

\* A ServingFilesystem is dropped, or the future of shutdown that owns it: the
\* process that was not taken yet is killed.
drop(t) ==
    /\ task[t].at \in {"serving", "shutdown"}
    /\ proc' = IF task[t].p = Component THEN proc ELSE killed(task[t].p)
    /\ dropped(t)
    /\ UNCHANGED <<instance, call, abandoned>>

\* A future is dropped that holds the process itself: the handle is closed, and
\* the process goes on.
DropFuture(t) ==
    /\ task[t].at \in {"describe", "wait", "terminate"}
    /\ abandoned' = IF task[t].at = "terminate" THEN abandoned ELSE abandoned \cup {task[t].p}
    /\ dropped(t)
    /\ UNCHANGED <<proc, instance, call>>

Async(t) ==
    \/ serve(t) \/ async_command(t) \/ shutdown(t) \/ async_kill(t) \/ drop(t) \/ DropFuture(t)
    \/ \E path \in Paths : bind_to_path(t, path)
Awaited(t) == Served(t) \/ wait_for_successful_exit(t) \/ ShutdownAnswered(t) \/ Terminated(t)

-----------------------------------------------------------------------------
(***************************************************************************)
(* The processes themselves: mount serves or gives up, mkfs and fsck exit. *)
(***************************************************************************)

become(p, state) == proc' = [proc EXCEPT ![p].state = state]

\* An answer sent before the exit is still read by the caller that waits for it.
exit(p) == proc' = [proc EXCEPT ![p] = [Gone EXCEPT !.answered = proc[p].answered]]

Starts(p) ==
    /\ proc[p].state = "starting"
    /\ \/ proc[p].cmd = "mount" /\ become(p, "ready")
       \/ exit(p)

\* Admin.Shutdown is answered when the filesystem no longer uses its device.
Answers(p) ==
    /\ proc[p].state = "stopping" /\ ~proc[p].answered
    /\ \/ proc' = [proc EXCEPT ![p].answered = TRUE]
       \/ "refuse" \in Faults /\ become(p, "refused")

Exits(p) ==
    /\ proc[p].state = "killed" \/ (proc[p].state = "stopping" /\ proc[p].answered)
    /\ exit(p)

Crashes(p) ==
    /\ "crash" \in Faults
    /\ proc[p].state \in {"ready", "stopping", "refused"}
    /\ exit(p)

\* What was left behind and has exited is forgotten, unless a path leads to it.
forget_exited ==
    /\ abandoned' = {p \in abandoned : proc'[p].state # "exited" \/ Bound(p)}
    /\ UNCHANGED <<namespace, instance, call, task>>

ServerStep(p) == (Starts(p) \/ Answers(p) \/ Exits(p)) /\ forget_exited

Next ==
    \/ Blocking \/ BlockingReturns
    \/ \E t \in Tasks : Async(t) \/ Awaited(t)
    \/ \E p \in Servers : ServerStep(p) \/ (Crashes(p) /\ forget_exited)

\* A blocked caller and an awaiting task go on when what they wait for happens;
\* a server starts or gives up, answers a shutdown, and exits when it has.
Fairness ==
    /\ WF_vars(BlockingReturns)
    /\ \A t \in Tasks : WF_vars(Awaited(t))
    /\ \A p \in Servers : WF_vars(ServerStep(p))

Spec == Init /\ [][Next]_vars /\ Fairness

-----------------------------------------------------------------------------
(***************************************************************************)
(* Properties.                                                             *)
(***************************************************************************)

\* The values of the variables.
TypeOK ==
    /\ \A p \in Servers :
        /\ proc[p].state \in {"starting", "ready", "stopping", "refused", "killed", "exited"}
        /\ ~Exited(p) => (proc[p].by = "component" <=> p = Component)
        /\ proc[p].answered => proc[p].state \in {"stopping", "killed", "exited"}
    /\ namespace \in [Paths -> Servers \cup {None}]
    /\ call # Idle => call.p \in Procs /\ instance = Idle
    /\ \A t \in Tasks : task[t] # Idle =>
        /\ task[t].p \in Servers /\ task[t].binding \in Paths \cup {None}
        /\ task[t].at \in {"describe", "wait"} => task[t].binding = None
    /\ abandoned \subseteq Servers

\* Processes on the block device of the blocking Filesystem that may write to it:
\* one that was killed may until it has terminated.
Users == {p \in Procs : proc[p].by = "sync" /\ ~proc[p].answered /\ ~Exited(p)}

\* mount, format and fsck of lib.rs ("It must not be mounted") do not know of a
\* process when `instance` is None.  Two processes may use the device at a time in
\* two cases only: kill has returned and the process it killed has not terminated
\* yet, or a mount or an unmount has returned an error and left its process.  An
\* unmount that succeeded, a format and an fsck never leave one.
OneUser ==
    \A p, q \in Users : p # q =>
        \E old \in {p, q} : proc[old].state = "killed" \/ old \in abandoned

\* The path that an instance or a ServingFilesystem will unbind is bound to its own
\* server: nobody unbinds what another has bound, though all share the namespace
\* and a bind to a path in use fails.
BindingsAreOwn ==
    /\ instance # Idle => namespace[instance.path] = instance.p
    /\ \A t \in Tasks : task[t] # Idle /\ task[t].binding # None =>
           namespace[task[t].binding] = task[t].p

\* "The binding will be dropped when self is dropped" (bind_to_path), and unmount
\* and kill of lib.rs unbind: a path stays bound to a server that nobody manages
\* only after an unmount that failed.
BoundIsManaged ==
    \A path \in Paths : namespace[path] # None =>
        Managed(namespace[path]) \/ namespace[path] \in abandoned

\* Every process that goes on running has an owner that will stop it, however
\* calls fail and futures are dropped, unless an error of mount, unmount or serve
\* or a dropped serve, format or fsck left it behind: shutdown, kill and Drop of a
\* ServingFilesystem leave none.
RunningIsManaged ==
    \A p \in Procs : proc[p].state \in {"starting", "ready", "refused"} =>
        Managed(p) \/ p \in abandoned

\* shutdown and kill of ServingFilesystem return when the process has terminated,
\* also when the filesystem refuses to shut down.
TerminatedOnReturn ==
    \A t \in Tasks : task[t].at = "returned" => Exited(task[t].p)

\* Every call returns: shutdown does although the server may refuse, because the
\* process is killed then.
CallsReturn ==
    /\ (call # Idle) ~> (call = Idle)
    /\ \A t \in Tasks : (task[t].at \in {"describe", "wait", "shutdown", "terminate"})
                            ~> (task[t].at \in {"idle", "serving", "returned"})

=============================================================================
