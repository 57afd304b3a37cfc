------------------------------ MODULE Watchers ------------------------------
(***************************************************************************)
(* The watchers of a pseudo directory: the slab of controllers             *)
(* (directory/watchers.rs), the task and the queue of every controller     *)
(* (watchers/watcher.rs), the buffers of events (event_producers.rs), the  *)
(* two kinds of directory that use them (Simple, under its mutex, and      *)
(* Lazy, in a task of its own, lazy/watchers_task.rs) and the client       *)
(* (fuchsia-vfs-watcher).                                                  *)
(***************************************************************************)
EXTENDS Naturals, Sequences, SequencesExt, FiniteSets, Functions

CONSTANTS
    Clients,        \* clients that may watch the directory
    Names,          \* names of entries: positive numbers, in their order
    MAX_BUF,        \* names that fit into one buffer
    Masks,          \* client -> the sets of events it may ask for
    Aborted,        \* clients whose task the scope may drop
    Existing,       \* names in the directory at first
    MaxChanges      \* bound on the changes of the directory

ASSUME WatchersAssumption ==
    /\ Names \subseteq Nat \ {0} /\ MAX_BUF \in Nat \ {0}
    /\ Existing \subseteq Names

VARIABLES
    lazy,           \* whether the directory is a Lazy
    entries,        \* names in the directory
    silent,         \* history: names in it of which no event was sent
    changes,        \* number of changes made so far
    slab,           \* Watchers: keys -> clients
    client,         \* client -> the end of the channel that the client holds
    mask,           \* client -> Controller::mask
    task,           \* client -> the task that watcher::new spawns
    key,            \* client -> the key that `done` will unregister
    queue,          \* client -> Controller::commands
    channel,        \* client -> buffers written and not read yet
    view,           \* client -> names the client knows
    idle,           \* client -> whether it has read IDLE
    commands,       \* Lazy::watchers, commands sent to the watchers task
    events,         \* watcher_events, the stream of a lazy directory
    lazy_task       \* the watchers task: "loop", a listing in progress, or "ended"

controllerVars == <<slab, client, mask, task, key, queue>>
clientVars == <<channel, view, idle>>
lazyVars == <<commands, events, lazy_task>>
vars == <<lazy, entries, silent, changes, controllerVars, clientVars, lazyVars>>

Keys == 0..(Cardinality(Clients) - 1)
Current == 0            \* the name "."
Loop == [at |-> "loop"]
Ended == [at |-> "ended"]
Disconnect == <<>>
Ordered(names) == SetToSortSeq(names, <)

Init ==
    /\ lazy \in BOOLEAN
    /\ entries = Existing
    /\ silent = {}
    /\ changes = 0
    /\ slab = <<>>
    /\ client = [c \in Clients |-> "new"]
    /\ mask = [c \in Clients |-> {}]
    /\ task = [c \in Clients |-> "none"]
    /\ key = [c \in Clients |-> 0]
    /\ queue = [c \in Clients |-> <<>>]
    /\ channel = [c \in Clients |-> <<>>]
    /\ view = [c \in Clients |-> {}]
    /\ idle = [c \in Clients |-> FALSE]
    /\ commands = <<>>
    /\ events = <<>>
    /\ lazy_task = IF lazy THEN Loop ELSE Ended

-----------------------------------------------------------------------------
(***************************************************************************)
(* Event producers: a list of names becomes buffers of at most MAX_BUF     *)
(* names, each with one event.                                             *)
(***************************************************************************)

message(event, name) == [event |-> event, name |-> name]

fill_buffer(event, names, next) ==
    [i \in 1..(IF Len(names) - next < MAX_BUF THEN Len(names) - next ELSE MAX_BUF) |->
        message(event, names[next + i])]

\* StaticVecEventProducer, buffer by buffer.
buffers(event, names) ==
    [b \in 1..((Len(names) + MAX_BUF - 1) \div MAX_BUF) |->
        fill_buffer(event, names, (b - 1) * MAX_BUF)]

IdleBuffer == <<message("IDLE", Current)>>

\* The sink of a lazy directory takes as many names as fit into one buffer, and
\* SingleBufferEventProducer produces that buffer once.
single_buffer(names) == fill_buffer("EXISTING", names, 0)
existing(buffer) == <<buffer>>

\* Controller::send_event and Controller::send_buffer: buffers for one watcher,
\* if its mask has the event and the task still has the receiver.  A release build
\* drops what is sent to a task that has ended; a debug build asserts that its
\* controller was removed before.
accepts(c, event) == event \in mask[c] /\ task[c] = "running"
sent(c, event, bufs) == IF accepts(c, event) THEN queue[c] \o bufs ELSE queue[c]

\* Watchers::send_event.
Watching == {slab[k] : k \in DOMAIN slab}
\* Mutant: only the first buffer of an event is sent.
send_event_FirstBuffer(event, names) ==
    queue' = [c \in Clients |-> IF c \in Watching THEN sent(c, event, <<Head(buffers(event, names))>>)
                                ELSE queue[c]]

send_event(event, names) ==
    queue' = [c \in Clients |-> IF c \in Watching THEN sent(c, event, buffers(event, names))
                                ELSE queue[c]]

-----------------------------------------------------------------------------
(***************************************************************************)
(* Watchers::add and remove.                                               *)
(***************************************************************************)

\* The key of a vacant entry; a controller with the buffers it is sent at once.
add(c, m, bufs) ==
    /\ \E k \in Keys \ DOMAIN slab :
        /\ \A j \in Keys \ DOMAIN slab : k <= j
        /\ slab' = [j \in DOMAIN slab \cup {k} |-> IF j = k THEN c ELSE slab[j]]
        /\ key' = [key EXCEPT ![c] = k]
    /\ mask' = [mask EXCEPT ![c] = m]
    /\ task' = [task EXCEPT ![c] = "running"]
    /\ queue' = [queue EXCEPT ![c] = bufs]

remove(k) == slab' = [j \in DOMAIN slab \ {k} |-> slab[j]]

Wanted(m, event, bufs) == IF event \in m THEN bufs ELSE <<>>

\* Watcher::new and handle_watch: Simple::register_watcher, under the mutex, or
\* the command that Lazy::register_watcher sends.
RegisterSimple(c) ==
    /\ ~lazy
    /\ client[c] = "new"
    /\ \E m \in Masks[c] :
        add(c, m, Wanted(m, "EXISTING", buffers("EXISTING", Ordered({Current} \cup entries)))
                  \o Wanted(m, "IDLE", <<IdleBuffer>>))
    /\ client' = [client EXCEPT ![c] = "open"]
    /\ UNCHANGED <<lazy, entries, silent, changes, clientVars, lazyVars>>

RegisterLazy(c) ==
    /\ lazy /\ lazy_task # Ended
    /\ client[c] = "new"
    /\ \E m \in Masks[c] : commands' = Append(commands, [register |-> c, mask |-> m])
    /\ client' = [client EXCEPT ![c] = "open"]
    /\ UNCHANGED <<lazy, entries, silent, changes, slab, mask, task, key, queue, clientVars, events, lazy_task>>

-----------------------------------------------------------------------------
(***************************************************************************)
(* The task of a watcher.                                                  *)
(***************************************************************************)

\* A buffer is written to the channel.  The write fails when the client is gone.
HandleSend(c) ==
    /\ task[c] = "running"
    /\ queue[c] # <<>>
    /\ LET command == Head(queue[c]) IN
        IF command # Disconnect /\ client[c] = "open"
        THEN /\ channel' = [channel EXCEPT ![c] = Append(@, command)]
             /\ queue' = [queue EXCEPT ![c] = Tail(@)]
             /\ UNCHANGED task
        ELSE /\ task' = [task EXCEPT ![c] = "ended"]
             /\ queue' = [queue EXCEPT ![c] = <<>>]
             /\ UNCHANGED channel
    /\ UNCHANGED <<lazy, entries, silent, changes, slab, client, mask, key, view, idle, lazyVars>>

\* Mutant: the task does not notice that the client has closed.
TaskEnds_Deaf(c) ==
    /\ task[c] = "running"
    /\ c \notin Watching /\ queue[c] = <<>>
    /\ task' = [task EXCEPT ![c] = "ended"]
    /\ queue' = [queue EXCEPT ![c] = <<>>]
    /\ UNCHANGED <<lazy, entries, silent, changes, slab, client, mask, key, clientVars, lazyVars>>

\* Mutant: the controller is removed when its task ends, and by `done` again.
TaskEnds_Removes(c) ==
    /\ task[c] = "running"
    /\ \/ client[c] = "closed"
       \/ c \notin Watching /\ queue[c] = <<>>
    /\ task' = [task EXCEPT ![c] = "ended"]
    /\ queue' = [queue EXCEPT ![c] = <<>>]
    /\ remove(key[c])
    /\ UNCHANGED <<lazy, entries, silent, changes, client, mask, key, clientVars, lazyVars>>

\* recv_msg completes because the client closed the channel, or the sender was
\* dropped with the slab of a lazy directory and the queue is empty.
TaskEnds(c) ==
    /\ task[c] = "running"
    /\ \/ client[c] = "closed"
       \/ c \notin Watching /\ queue[c] = <<>>
    /\ task' = [task EXCEPT ![c] = "ended"]
    /\ queue' = [queue EXCEPT ![c] = <<>>]
    /\ UNCHANGED <<lazy, entries, silent, changes, slab, client, mask, key, clientVars, lazyVars>>

\* FutureWithDrop::drop calls `done`: the directory removes the controller, or
\* queues a command for that.  The channel is closed.
unregister_watcher(c) ==
    IF ~lazy THEN remove(key[c]) /\ UNCHANGED commands
    ELSE /\ commands' = IF lazy_task = Ended THEN commands ELSE Append(commands, [unregister |-> key[c]])
         /\ UNCHANGED slab

TaskDropped(c) ==
    /\ task[c] = "ended"
    /\ unregister_watcher(c)
    /\ task' = [task EXCEPT ![c] = "gone"]
    /\ UNCHANGED <<lazy, entries, silent, changes, client, mask, key, queue, clientVars, events, lazy_task>>

\* The scope drops the task before it completes: `done` is called while the
\* receiver is still there.
TaskAborted(c) ==
    /\ c \in Aborted
    /\ task[c] = "running"
    /\ unregister_watcher(c)
    /\ task' = [task EXCEPT ![c] = "gone"]
    /\ queue' = [queue EXCEPT ![c] = <<>>]
    /\ UNCHANGED <<lazy, entries, silent, changes, client, mask, key, clientVars, events, lazy_task>>

-----------------------------------------------------------------------------
(***************************************************************************)
(* The directory changes.                                                  *)
(***************************************************************************)

MayChange == changes < MaxChanges /\ changes' = changes + 1

\* add_entry_impl and remove_entry_impl of a Simple.
Added(name) ==
    /\ ~lazy /\ MayChange
    /\ name \notin entries
    /\ entries' = entries \cup {name}
    /\ send_event("ADDED", <<name>>)
    /\ UNCHANGED <<lazy, silent, slab, client, mask, task, key, clientVars, lazyVars>>

Removed(name) ==
    /\ ~lazy /\ MayChange
    /\ name \in entries
    /\ entries' = entries \ {name}
    /\ send_event("REMOVED", <<name>>)
    /\ silent' = silent \ {name}
    /\ UNCHANGED <<lazy, slab, client, mask, task, key, clientVars, lazyVars>>

\* get_or_insert_entry: an Open with CREATE sends no event.
Created(name) ==
    /\ ~lazy /\ MayChange
    /\ name \notin entries
    /\ entries' = entries \cup {name}
    /\ silent' = silent \cup {name}
    /\ UNCHANGED <<lazy, controllerVars, clientVars, lazyVars>>

\* The server behind a Lazy changes what it lists and tells it with WatcherEvents.
LazyChange ==
    /\ lazy /\ MayChange
    /\ \E names \in SUBSET Names \ {{}} :
        \/ /\ names \cap entries = {}
           /\ entries' = entries \cup names
           /\ events' = Append(events, [event |-> "ADDED", names |-> Ordered(names)])
        \/ /\ names \subseteq entries
           /\ entries' = entries \ names
           /\ events' = Append(events, [event |-> "REMOVED", names |-> Ordered(names)])
    /\ UNCHANGED <<lazy, silent, controllerVars, clientVars, commands, lazy_task>>

\* The directory itself is removed, and the stream ends.
LazyDeleted ==
    /\ lazy /\ changes < MaxChanges
    /\ events' = events \o <<[event |-> "DELETED", names |-> <<Current>>], [event |-> "END"]>>
    /\ changes' = MaxChanges
    /\ UNCHANGED <<lazy, entries, silent, controllerVars, clientVars, commands, lazy_task>>

-----------------------------------------------------------------------------
(***************************************************************************)
(* watchers_task::run of a Lazy: one command or event at a time.           *)
(***************************************************************************)

\* handle_register_watcher, up to the first await.  Without EXISTING in the mask
\* nothing is listed.
RunRegister ==
    /\ lazy_task = Loop
    /\ commands # <<>> /\ "register" \in DOMAIN Head(commands)
    /\ LET c == Head(commands).register
           m == Head(commands).mask
       IN  /\ add(c, m, IF "EXISTING" \in m THEN <<>> ELSE Wanted(m, "IDLE", <<IdleBuffer>>))
           /\ lazy_task' = IF "EXISTING" \in m THEN [at |-> "listing", of |-> c, pos |-> Current] ELSE Loop
    /\ commands' = Tail(commands)
    /\ UNCHANGED <<lazy, entries, silent, changes, client, clientVars, events>>

\* Mutant: the listing resumes one name too far.
RunListing_Skips ==
    /\ lazy_task.at = "listing"
    /\ LET c == lazy_task.of
           rest == Ordered({n \in {Current} \cup entries : n >= lazy_task.pos})
           buffer == single_buffer(rest)
       IN  IF rest = <<>>
           THEN /\ queue' = [queue EXCEPT ![c] = sent(c, "IDLE", <<IdleBuffer>>)]
                /\ lazy_task' = Loop
           ELSE /\ queue' = [queue EXCEPT ![c] = sent(c, "EXISTING", existing(buffer))]
                /\ lazy_task' = [lazy_task EXCEPT !.pos = Last(buffer).name + 2]
    /\ UNCHANGED <<lazy, entries, silent, changes, slab, client, mask, task, key, clientVars, commands, events>>

\* read_dirents gives one more buffer of existing names, or none at the end.
RunListing ==
    /\ lazy_task.at = "listing"
    /\ LET c == lazy_task.of
           rest == Ordered({n \in {Current} \cup entries : n >= lazy_task.pos})
           buffer == single_buffer(rest)
       IN  IF rest = <<>>
           THEN /\ queue' = [queue EXCEPT ![c] = sent(c, "IDLE", <<IdleBuffer>>)]
                /\ lazy_task' = Loop
           ELSE /\ queue' = [queue EXCEPT ![c] = sent(c, "EXISTING", existing(buffer))]
                /\ lazy_task' = [lazy_task EXCEPT !.pos = Last(buffer).name + 1]
    /\ UNCHANGED <<lazy, entries, silent, changes, slab, client, mask, task, key, clientVars, commands, events>>

\* read_dirents fails: the watcher is disconnected.
RunListingFails ==
    /\ lazy_task.at = "listing"
    /\ queue' = [queue EXCEPT ![lazy_task.of] =
                     IF task[lazy_task.of] = "running" THEN Append(@, Disconnect) ELSE @]
    /\ lazy_task' = Loop
    /\ UNCHANGED <<lazy, entries, silent, changes, slab, client, mask, task, key, clientVars, commands, events>>

RunUnregister ==
    /\ lazy_task = Loop
    /\ commands # <<>> /\ "unregister" \in DOMAIN Head(commands)
    /\ remove(Head(commands).unregister)
    /\ commands' = Tail(commands)
    /\ UNCHANGED <<lazy, entries, silent, changes, client, mask, task, key, queue, clientVars, events, lazy_task>>

RunEvent ==
    /\ lazy_task = Loop
    /\ events # <<>> /\ Head(events).event # "END"
    /\ send_event(Head(events).event, Head(events).names)
    /\ events' = Tail(events)
    /\ UNCHANGED <<lazy, entries, silent, changes, slab, client, mask, task, key, clientVars, commands, lazy_task>>

\* The stream ends: the slab and the receiver of commands are dropped, and with
\* them the channels of watchers that were still waiting to be registered.
RunEnds ==
    /\ lazy_task = Loop
    /\ events # <<>> /\ Head(events).event = "END"
    /\ lazy_task' = Ended
    /\ slab' = <<>>
    /\ commands' = <<>>
    /\ UNCHANGED <<lazy, entries, silent, changes, client, mask, task, key, queue, clientVars, events>>

LazyTask ==
    RunRegister \/ RunListing \/ RunListingFails \/ RunUnregister \/ RunEvent \/ RunEnds

-----------------------------------------------------------------------------
(***************************************************************************)
(* The client: poll_next reads a buffer and returns its messages in order. *)
(***************************************************************************)

apply(names, m) ==
    CASE m.event \in {"EXISTING", "ADDED"} -> names \cup ({m.name} \ {Current})
      [] m.event = "REMOVED" -> names \ {m.name}
      [] OTHER -> names

PollNext(c) ==
    /\ client[c] = "open"
    /\ channel[c] # <<>>
    /\ LET buffer == Head(channel[c]) IN
        /\ view' = [view EXCEPT ![c] = FoldLeft(apply, @, buffer)]
        /\ idle' = [idle EXCEPT ![c] = @ \/ \E i \in DOMAIN buffer : buffer[i].event = "IDLE"]
    /\ channel' = [channel EXCEPT ![c] = Tail(@)]
    /\ UNCHANGED <<lazy, entries, silent, changes, controllerVars, lazyVars>>

CloseClient(c) ==
    /\ client[c] = "open"
    /\ client' = [client EXCEPT ![c] = "closed"]
    /\ channel' = [channel EXCEPT ![c] = <<>>]
    /\ view' = [view EXCEPT ![c] = {}]
    /\ idle' = [idle EXCEPT ![c] = FALSE]
    /\ UNCHANGED <<lazy, entries, silent, changes, slab, mask, task, key, queue, lazyVars>>

-----------------------------------------------------------------------------

WatcherTask(c) == HandleSend(c) \/ TaskEnds(c) \/ TaskDropped(c)

Next ==
    \/ \E c \in Clients : \/ RegisterSimple(c) \/ RegisterLazy(c) \/ PollNext(c) \/ CloseClient(c)
                          \/ WatcherTask(c) \/ TaskAborted(c)
    \/ \E name \in Names : Added(name) \/ Removed(name) \/ Created(name)
    \/ LazyChange \/ LazyDeleted \/ LazyTask

\* The executor polls the tasks that can go on; a client that watches reads.
Fairness ==
    /\ WF_vars(LazyTask)
    /\ \A c \in Clients : WF_vars(WatcherTask(c)) /\ WF_vars(PollNext(c))

Spec == Init /\ [][Next]_vars /\ Fairness

-----------------------------------------------------------------------------
(***************************************************************************)
(* Properties.                                                             *)
(***************************************************************************)

\* Messages on their way to a client: what follows a Disconnect is never sent.
InFlight(c) ==
    LET stop == SelectInSeq(queue[c], LAMBDA command : command = Disconnect)
    IN  FlattenSeq(channel[c] \o SubSeq(queue[c], 1, IF stop = 0 THEN Len(queue[c]) ELSE stop - 1))
Happens(c, event) == \E i \in DOMAIN InFlight(c) : InFlight(c)[i].event = event
Complete(c) == {"EXISTING", "ADDED", "REMOVED", "IDLE"} \subseteq mask[c]
Connected(c) == client[c] = "open" /\ task[c] = "running" /\ c \in Watching

\* The type of the state: buffers hold at most MAX_BUF names, a key belongs to one
\* controller, and nothing is sent to a watcher without a task.
TypeOK ==
    /\ entries \subseteq Names
    /\ DOMAIN slab \subseteq Keys /\ IsInjective(slab)
    /\ \A c \in Clients :
        /\ client[c] \in {"new", "open", "closed"}
        /\ task[c] \in {"none", "running", "ended", "gone"}
        /\ view[c] \subseteq Names
        /\ \A i \in DOMAIN queue[c] : Len(queue[c][i]) <= MAX_BUF
        /\ task[c] # "running" => queue[c] = <<>>

\* What a client will know when all that is on its way has arrived.
Foreseen(c) ==
    LET stream == [i \in DOMAIN events |->
            IF events[i].event = "END" THEN <<>>
            ELSE [j \in DOMAIN events[i].names |-> message(events[i].event, events[i].names[j])]]
    IN  FoldLeft(apply, FoldLeft(apply, view[c], InFlight(c)), FlattenSeq(stream))
Listed(c) == Connected(c) /\ Complete(c) /\ (idle[c] \/ Happens(c, "IDLE"))

\* A watcher that has been listed the directory observes a consistent view: what
\* it knows, with the events on their way to it applied in their order, is what is
\* in the directory, up to entries that were created by an Open, although a lazy
\* directory is listed in several steps while it changes.
ViewIsConsistent ==
    \A c \in Clients : Listed(c) =>
        entries \ silent \subseteq Foreseen(c) /\ Foreseen(c) \subseteq entries

\* A client is told of the entries that exist, then IDLE, once, and only then of
\* changes: a loop that reads EXISTING until IDLE, as in the tests of
\* fuchsia-vfs-watcher, meets nothing else.
ExistingThenIdleThenChanges ==
    \A c \in Clients : Connected(c) /\ Complete(c) =>
        \A i \in DOMAIN InFlight(c) :
            LET before == idle[c] \/ \E j \in 1..(i - 1) : InFlight(c)[j].event = "IDLE"
            IN  IF InFlight(c)[i].event \in {"EXISTING", "IDLE"} THEN ~before ELSE before

\* The key that a watcher's `done` unregisters is still the key of its own
\* controller, though keys are reused and a lazy directory removes them later:
\* Slab::remove neither panics on a vacant key nor disconnects another watcher.
KeysAreOwn ==
    /\ \A c \in Clients : (task[c] \in {"running", "ended"} /\ ~(lazy /\ lazy_task = Ended))
                               => key[c] \in DOMAIN slab /\ slab[key[c]] = c
    /\ \A i \in DOMAIN commands : "unregister" \in DOMAIN commands[i] =>
            /\ commands[i].unregister \in DOMAIN slab
            /\ task[slab[commands[i].unregister]] = "gone"
            /\ \A j \in DOMAIN commands : commands[j] = commands[i] => j = i

\* When a client closes its end, its controller is removed from the directory.
ClosedIsRemoved ==
    \A c \in Clients : client[c] = "closed" ~> c \notin Watching /\ task[c] \in {"none", "gone"}

\* When the stream of a lazy directory reaches its end, existing watcher connections
\* are closed (documentation of Lazy).
EndOfStreamCloses ==
    lazy /\ lazy_task = Ended ~> \A c \in Clients : task[c] \in {"none", "gone"}

\* Once the directory no longer changes, every connected watcher knows its names,
\* again up to those that were created by an Open.
ViewConverges ==
    \A c \in Clients : <>[](Connected(c) /\ Complete(c) =>
                               entries \ silent \subseteq view[c] /\ view[c] \subseteq entries)
=============================================================================
