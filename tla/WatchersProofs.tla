---------------------------- MODULE WatchersProofs ----------------------------
(***************************************************************************)
(* The keys of Watchers for any number of clients and any directory: the   *)
(* slab reuses keys, a lazy directory removes a controller some time after *)
(* its task has ended, and still every key that is removed is that of the  *)
(* controller whose task has ended.                                        *)
(***************************************************************************)
EXTENDS Watchers, SequenceTheorems, TLAPS

\* The commands for the watchers task of a lazy directory.
Registers == [register : Clients, mask : UNION {Masks[c] : c \in Clients}]
Unregisters == [unregister : Keys \cup {0}]
Commands == Registers \cup Unregisters

KeysType ==
    /\ client \in [Clients -> {"new", "open", "closed"}]
    /\ task \in [Clients -> {"none", "running", "ended", "gone"}]
    /\ key \in [Clients -> Keys \cup {0}]
    /\ commands \in Seq(Commands)
    /\ lazy \in BOOLEAN

\* The slab and the tasks: a controller is that of the client whose key leads to
\* it, and a task that is not done has its controller, as long as there is a slab.
SlabInv ==
    /\ \A k \in DOMAIN slab : slab[k] \in Clients /\ key[slab[k]] = k /\ task[slab[k]] # "none"
    /\ \A c \in Clients : (task[c] \in {"running", "ended"} /\ ~(lazy /\ lazy_task = Ended))
                             => key[c] \in DOMAIN slab /\ slab[key[c]] = c
    /\ \A c \in Clients : client[c] = "new" => task[c] = "none"

\* The commands: a watcher is registered once, before it has a task, and its key is
\* removed once, after its task is gone.
CommandsInv ==
    /\ \A i \in DOMAIN commands : commands[i] \in Registers =>
         task[commands[i].register] = "none" /\ client[commands[i].register] # "new"
    /\ \A i \in DOMAIN commands : commands[i] \in Unregisters =>
         commands[i].unregister \in DOMAIN slab /\ task[slab[commands[i].unregister]] = "gone"
    /\ \A i, j \in DOMAIN commands :
         commands[i] \in Registers /\ commands[j] \in Registers /\ commands[i].register = commands[j].register => i = j
    /\ \A i, j \in DOMAIN commands :
         commands[i] \in Unregisters /\ commands[i] = commands[j] => i = j

\* Only a lazy directory whose stream has not ended has commands.
LazyInv == (commands # <<>> => lazy /\ lazy_task # Ended) /\ (~lazy => lazy_task = Ended)

KeysInv == KeysType /\ SlabInv /\ CommandsInv /\ LazyInv

-----------------------------------------------------------------------------
(* The commands as a queue.                                                *)

\* A command registers a watcher or unregisters a key.
LEMMA CommandKinds ==
    ASSUME NEW x \in Commands
    PROVE  /\ "register" \in DOMAIN x <=> x \in Registers
           /\ "unregister" \in DOMAIN x <=> x \in Unregisters
  BY DEF Commands, Registers, Unregisters

\* No command does both.
LEMMA CommandsDiffer ==
    \A x \in Registers : x \in Commands /\ x \notin Unregisters
<1> SUFFICES ASSUME NEW x \in Registers PROVE x \in Commands /\ x \notin Unregisters
  BY Zenon
<1>1. DOMAIN x = {"register", "mask"}
  BY Zenon DEF Registers
<1>2. x \in Unregisters => DOMAIN x = {"unregister"}
  BY Zenon DEF Unregisters
<1>3. {"register", "mask"} # {"unregister"}
  OBVIOUS
<1> QED BY <1>1, <1>2, <1>3, Zenon DEF Commands

\* The fields of a command.
LEMMA CommandFields ==
    /\ \A x \in Registers : x.register \in Clients
    /\ \A x \in Unregisters : x = [unregister |-> x.unregister]
  BY DEF Registers, Unregisters

\* A command is sent.
LEMMA CommandAdded ==
    ASSUME commands \in Seq(Commands), NEW e \in Commands, commands' = Append(commands, e)
    PROVE  /\ commands' \in Seq(Commands)
           /\ \A i \in DOMAIN commands' :
                \/ i \in DOMAIN commands /\ commands'[i] = commands[i]
                \/ i \notin DOMAIN commands /\ commands'[i] = e
           /\ \A i, j \in DOMAIN commands' : i \notin DOMAIN commands /\ j \notin DOMAIN commands => i = j
<1> DEFINE n == Len(commands)
<1>1. /\ Append(commands, e) \in Seq(Commands) /\ Len(Append(commands, e)) = n + 1
      /\ \A i \in 1..n : Append(commands, e)[i] = commands[i]
      /\ Append(commands, e)[n + 1] = e
  BY AppendProperties
<1>2. n \in Nat /\ DOMAIN commands = 1..n /\ DOMAIN commands' = 1..n + 1
  BY <1>1, LenProperties
<1> HIDE DEF n
<1>3. \A i \in 1..n + 1 : i \in 1..n \/ (i \notin 1..n /\ i = n + 1)
  BY <1>2
<1>4. \A i \in DOMAIN commands' :
        \/ i \in DOMAIN commands /\ commands'[i] = commands[i]
        \/ i \notin DOMAIN commands /\ commands'[i] = e
  BY <1>1, <1>2, <1>3
<1>5. \A i, j \in DOMAIN commands' : i \notin DOMAIN commands /\ j \notin DOMAIN commands => i = j
  BY <1>2, <1>3
<1> QED BY <1>1, <1>4, <1>5

\* A command is taken: the others move up.
LEMMA CommandTaken ==
    ASSUME commands \in Seq(Commands), commands # <<>>, commands' = Tail(commands)
    PROVE  /\ commands' \in Seq(Commands) /\ Head(commands) \in Commands
           /\ \E first \in DOMAIN commands : \E f \in [DOMAIN commands' -> DOMAIN commands] :
                /\ commands[first] = Head(commands)
                /\ \A i \in DOMAIN commands' : commands'[i] = commands[f[i]] /\ f[i] # first
                /\ \A i, j \in DOMAIN commands' : f[i] = f[j] => i = j
<1> DEFINE n == Len(commands)
           f == [i \in 1..n - 1 |-> i + 1]
<1>1. /\ Head(commands) \in Commands /\ Tail(commands) \in Seq(Commands)
      /\ Len(Tail(commands)) = n - 1
      /\ \A i \in 1..Len(Tail(commands)) : Tail(commands)[i] = commands[i + 1]
  BY HeadTailProperties
<1>2. /\ n \in Nat \ {0} /\ DOMAIN commands = 1..n /\ DOMAIN commands' = 1..n - 1
      /\ commands[1] = Head(commands)
  BY <1>1, LenProperties, EmptySeq
<1> HIDE DEF n
<1>3. /\ 1 \in 1..n /\ f \in [1..n - 1 -> 1..n]
      /\ \A i \in 1..n - 1 : f[i] = i + 1 /\ f[i] # 1
      /\ \A i, j \in 1..n - 1 : f[i] = f[j] => i = j
  BY <1>2
<1> HIDE DEF f
<1>4. 1 \in DOMAIN commands /\ f \in [DOMAIN commands' -> DOMAIN commands]
  BY <1>2, <1>3, Zenon
<1>5. \A i \in DOMAIN commands' : commands'[i] = commands[f[i]] /\ f[i] # 1
  BY <1>1, <1>2, <1>3
<1>6. \A i, j \in DOMAIN commands' : f[i] = f[j] => i = j
  BY <1>2, <1>3, Zenon
<1>7. \E first \in DOMAIN commands : \E g \in [DOMAIN commands' -> DOMAIN commands] :
        /\ commands[first] = Head(commands)
        /\ \A i \in DOMAIN commands' : commands'[i] = commands[g[i]] /\ g[i] # first
        /\ \A i, j \in DOMAIN commands' : g[i] = g[j] => i = j
  <2> 1 \in DOMAIN commands /\ f \in [DOMAIN commands' -> DOMAIN commands]
    BY <1>4, Zenon
  <2> WITNESS 1 \in DOMAIN commands
  <2> WITNESS f \in [DOMAIN commands' -> DOMAIN commands]
  <2> QED BY <1>2, <1>5, <1>6, Zenon
<1> QED BY <1>1, <1>7, Zenon

-----------------------------------------------------------------------------
(* The slab.                                                               *)

\* Tasks end and clients close; no controller comes or goes.
LEMMA SlabStays ==
    ASSUME SlabInv, UNCHANGED <<slab, key>>,
           \A x \in Clients : task'[x] = task[x] \/ (task[x] = "running" /\ task'[x] = "ended"),
           \A x \in Clients : client'[x] = "new" => client[x] = "new",
           lazy /\ lazy_task = Ended => (lazy /\ lazy_task = Ended)'
    PROVE  SlabInv'
<1>1. \A x \in Clients : /\ task'[x] = "none" <=> task[x] = "none"
                         /\ task'[x] \in {"running", "ended"} => task[x] \in {"running", "ended"}
  OBVIOUS
<1> QED BY <1>1, Zenon DEF SlabInv

\* Nor are commands sent or taken.
LEMMA CommandsStay ==
    ASSUME KeysType, SlabInv, CommandsInv, UNCHANGED <<slab, commands>>,
           \A x \in Clients : task'[x] = task[x] \/ (task[x] = "running" /\ task'[x] = "ended"),
           \A x \in Clients : client'[x] = "new" => client[x] = "new"
    PROVE  CommandsInv'
<1>1. \A x \in Clients : (task[x] = "none" => task'[x] = "none") /\ (task[x] = "gone" => task'[x] = "gone")
  OBVIOUS
<1>2. \A k \in DOMAIN slab : slab[k] \in Clients
  BY Zenon DEF SlabInv
<1>3. \A i \in DOMAIN commands' : commands'[i] \in Registers =>
        task'[commands'[i].register] = "none" /\ client'[commands'[i].register] # "new"
  BY <1>1, CommandFields, Zenon DEF CommandsInv
<1>4. \A i \in DOMAIN commands' : commands'[i] \in Unregisters =>
        commands'[i].unregister \in DOMAIN slab' /\ task'[slab'[commands'[i].unregister]] = "gone"
  <2> SUFFICES ASSUME NEW i \in DOMAIN commands, commands[i] \in Unregisters
               PROVE  commands[i].unregister \in DOMAIN slab /\ task'[slab[commands[i].unregister]] = "gone"
    BY Zenon
  <2>1. commands[i].unregister \in DOMAIN slab /\ task[slab[commands[i].unregister]] = "gone"
    BY Zenon DEF CommandsInv
  <2> QED BY <1>1, <1>2, <2>1, Zenon
<1>5. commands' = commands
  OBVIOUS
<1> QED BY <1>3, <1>4, <1>5 DEF CommandsInv, Registers, Unregisters

\* Slab::vacant_entry and insert: a controller for a client that had none.
LEMMA AddDoes ==
    ASSUME KeysType, NEW c \in Clients, NEW m, NEW bufs, add(c, m, bufs)
    PROVE  \E k \in Keys :
             /\ k \notin DOMAIN slab /\ DOMAIN slab' = DOMAIN slab \cup {k} /\ slab'[k] = c
             /\ \A j \in DOMAIN slab : slab'[j] = slab[j]
             /\ key'[c] = k /\ \A x \in Clients \ {c} : key'[x] = key[x] /\ task'[x] = task[x]
             /\ task'[c] = "running"
             /\ key' \in [Clients -> Keys \cup {0}]
             /\ task' \in [Clients -> {"none", "running", "ended", "gone"}]
<1>1. PICK k \in Keys \ DOMAIN slab :
        /\ slab' = [j \in DOMAIN slab \cup {k} |-> IF j = k THEN c ELSE slab[j]]
        /\ key' = [key EXCEPT ![c] = k]
  BY Zenon DEF add
<1>2. task' = [task EXCEPT ![c] = "running"]
  BY Zenon DEF add
<1>3. /\ key'[c] = k /\ \A x \in Clients \ {c} : key'[x] = key[x] /\ task'[x] = task[x]
      /\ task'[c] = "running"
      /\ key' \in [Clients -> Keys \cup {0}]
      /\ task' \in [Clients -> {"none", "running", "ended", "gone"}]
  BY <1>1, <1>2 DEF KeysType
<1> QED BY <1>1, <1>3, Zenon

\* The new controller, and the commands that were there before.
LEMMA AddKeeps ==
    ASSUME KeysType, SlabInv, NEW c \in Clients, task[c] = "none", NEW m, NEW bufs, add(c, m, bufs),
           client'[c] # "new", \A x \in Clients \ {c} : client'[x] = client[x], UNCHANGED lazy,
           lazy /\ lazy_task = Ended => (lazy /\ lazy_task = Ended)'
    PROVE  /\ SlabInv'
           /\ \A x \in Clients \ {c} : task'[x] = task[x]
           /\ \A k \in DOMAIN slab : k \in DOMAIN slab' /\ slab'[k] = slab[k] /\ slab'[k] # c
<1>1. PICK k \in Keys :
             /\ k \notin DOMAIN slab /\ DOMAIN slab' = DOMAIN slab \cup {k} /\ slab'[k] = c
             /\ \A j \in DOMAIN slab : slab'[j] = slab[j]
             /\ key'[c] = k /\ \A x \in Clients \ {c} : key'[x] = key[x] /\ task'[x] = task[x]
             /\ task'[c] = "running"
  BY AddDoes, Zenon
<1>2. \A j \in DOMAIN slab : slab[j] \in Clients /\ slab[j] # c
  BY Zenon DEF SlabInv
<1>3. \A j \in DOMAIN slab' : slab'[j] \in Clients /\ key'[slab'[j]] = j /\ task'[slab'[j]] # "none"
  <2>1. SUFFICES ASSUME NEW j \in DOMAIN slab'
                 PROVE  slab'[j] \in Clients /\ key'[slab'[j]] = j /\ task'[slab'[j]] # "none"
    BY Zenon
  <2>2. CASE j = k
    BY <1>1, <2>2
  <2>3. CASE j \in DOMAIN slab
    <3>1. slab[j] \in Clients \ {c} /\ key[slab[j]] = j /\ task[slab[j]] # "none" /\ slab'[j] = slab[j]
      BY <1>1, <1>2, <2>3, Zenon DEF SlabInv
    <3>2. key'[slab[j]] = key[slab[j]] /\ task'[slab[j]] = task[slab[j]]
      BY <1>1, <3>1, Zenon
    <3> QED BY <3>1, <3>2
  <2> QED BY <1>1, <2>2, <2>3, Zenon
<1>4. \A x \in Clients : (task'[x] \in {"running", "ended"} /\ ~(lazy /\ lazy_task = Ended)')
                             => key'[x] \in DOMAIN slab' /\ slab'[key'[x]] = x
  <2>1. SUFFICES ASSUME NEW x \in Clients, task'[x] \in {"running", "ended"}, ~(lazy /\ lazy_task = Ended)'
                 PROVE  key'[x] \in DOMAIN slab' /\ slab'[key'[x]] = x
    BY Zenon
  <2>2. CASE x = c
    BY <1>1, <2>2, Zenon
  <2>3. CASE x # c
    <3>1. key[x] \in DOMAIN slab /\ slab[key[x]] = x /\ key'[x] = key[x]
      BY <1>1, <2>1, <2>3, Zenon DEF SlabInv
    <3> QED BY <1>1, <3>1, Zenon
  <2> QED BY <2>2, <2>3, Zenon
<1>5. \A x \in Clients : client'[x] = "new" => task'[x] = "none"
  BY <1>1, Zenon DEF SlabInv
<1>6. SlabInv'
  BY <1>3, <1>4, <1>5, Zenon DEF SlabInv, Ended
<1>7. \A j \in DOMAIN slab : j \in DOMAIN slab' /\ slab'[j] = slab[j] /\ slab'[j] # c
  BY <1>1, <1>2, Zenon
<1> QED BY <1>1, <1>6, <1>7, Zenon

\* Slab::remove of the key of a controller whose task is gone.
LEMMA RemoveKeeps ==
    ASSUME SlabInv, NEW k \in DOMAIN slab, task'[slab[k]] = "gone", remove(k), UNCHANGED <<key, client>>,
           \A x \in Clients : x # slab[k] => task'[x] = task[x], client[slab[k]] # "new",
           lazy /\ lazy_task = Ended => (lazy /\ lazy_task = Ended)'
    PROVE  SlabInv' /\ DOMAIN slab' = DOMAIN slab \ {k} /\ \A j \in DOMAIN slab' : slab'[j] = slab[j]
<1>1. DOMAIN slab' = DOMAIN slab \ {k} /\ \A j \in DOMAIN slab' : slab'[j] = slab[j]
  BY Zenon DEF remove
<1>2. ASSUME NEW j \in DOMAIN slab'
      PROVE  slab'[j] \in Clients /\ key'[slab'[j]] = j /\ task'[slab'[j]] # "none"
  <2>1. /\ slab[j] \in Clients /\ key[slab[j]] = j /\ task[slab[j]] # "none"
        /\ key[slab[k]] = k /\ j # k /\ slab'[j] = slab[j]
    BY <1>1, Zenon DEF SlabInv
  <2>2. slab[j] # slab[k]
    BY <2>1, Zenon
  <2>3. task'[slab[j]] = task[slab[j]]
    BY <2>1, <2>2, Zenon
  <2> QED BY <2>1, <2>3
<1>3. \A j \in DOMAIN slab' : slab'[j] \in Clients /\ key'[slab'[j]] = j /\ task'[slab'[j]] # "none"
  BY <1>2, Zenon
<1>4. \A x \in Clients : (task'[x] \in {"running", "ended"} /\ ~(lazy /\ lazy_task = Ended)')
                             => key'[x] \in DOMAIN slab' /\ slab'[key'[x]] = x
  <2>1. SUFFICES ASSUME NEW x \in Clients, task'[x] \in {"running", "ended"}, ~(lazy /\ lazy_task = Ended)'
                 PROVE  key'[x] \in DOMAIN slab' /\ slab'[key'[x]] = x
    BY Zenon
  <2>2. x # slab[k]
    BY <2>1
  <2>3. key[x] \in DOMAIN slab /\ slab[key[x]] = x
    BY <2>1, <2>2, Zenon DEF SlabInv
  <2> QED BY <1>1, <2>2, <2>3, Zenon
<1>5. \A x \in Clients : client'[x] = "new" => task'[x] = "none"
  BY Zenon DEF SlabInv
<1> QED BY <1>1, <1>3, <1>4, <1>5, Zenon DEF SlabInv

-----------------------------------------------------------------------------
(* The actions.                                                            *)

\* The type of what the actions below leave alone.
LEMMA KeysTypeStays ==
    ASSUME KeysType, UNCHANGED <<lazy, key, commands>>,
           client' \in [Clients -> {"new", "open", "closed"}],
           task' \in [Clients -> {"none", "running", "ended", "gone"}]
    PROVE  KeysType'
  BY Zenon DEF KeysType

\* A step that only ends a task, closes a client or goes on with a listing.
LEMMA Quiet ==
    ASSUME KeysInv, UNCHANGED <<slab, key, commands, lazy>>,
           client' \in [Clients -> {"new", "open", "closed"}],
           task' \in [Clients -> {"none", "running", "ended", "gone"}],
           \A x \in Clients : task'[x] = task[x] \/ (task[x] = "running" /\ task'[x] = "ended"),
           \A x \in Clients : client'[x] = "new" => client[x] = "new",
           lazy_task' = Ended <=> lazy_task = Ended
    PROVE  KeysInv'
<1>1. KeysType /\ SlabInv /\ CommandsInv /\ LazyInv
  BY Zenon DEF KeysInv
<1>2. KeysType'
  BY <1>1, KeysTypeStays, Zenon
<1>3. SlabInv'
  BY <1>1, SlabStays, Zenon DEF Ended
<1>4. CommandsInv'
  BY <1>1, CommandsStay, Zenon
<1>5. LazyInv'
  BY <1>1, Zenon DEF LazyInv, Ended
<1> QED BY <1>2, <1>3, <1>4, <1>5, Zenon DEF KeysInv

\* What no action but those of a watcher's life touches.
LEMMA QuietVars ==
    ASSUME KeysInv, UNCHANGED <<slab, key, commands, lazy, client, task>>,
           lazy_task' = Ended <=> lazy_task = Ended
    PROVE  KeysInv'
<1>1. client' \in [Clients -> {"new", "open", "closed"}] /\ task' \in [Clients -> {"none", "running", "ended", "gone"}]
  BY Zenon DEF KeysInv, KeysType
<1>2. \A x \in Clients : task'[x] = task[x] /\ client'[x] = client[x]
  BY Zenon
<1> QED BY <1>1, <1>2, Quiet, Zenon

\* A watcher of a Simple directory is registered.
LEMMA RegisterSimpleKeeps ==
    ASSUME KeysInv, NEW c \in Clients, RegisterSimple(c)
    PROVE  KeysInv'
<1>1. KeysType /\ SlabInv /\ CommandsInv /\ LazyInv /\ ~lazy /\ client[c] = "new"
      /\ UNCHANGED <<lazy, commands, lazy_task>> /\ client' = [client EXCEPT ![c] = "open"]
  BY Zenon DEF KeysInv, RegisterSimple, lazyVars
<1>2. PICK m, bufs : add(c, m, bufs)
  BY Zenon DEF RegisterSimple
<1>3. task[c] = "none"
  BY <1>1, Zenon DEF SlabInv
<1>4. client'[c] # "new" /\ \A x \in Clients \ {c} : client'[x] = client[x]
  BY <1>1 DEF KeysType
<1>5. SlabInv'
  BY <1>1, <1>2, <1>3, <1>4, AddKeeps, Zenon
<1>6. client' \in [Clients -> {"new", "open", "closed"}]
  BY <1>1 DEF KeysType
<1>7. key' \in [Clients -> Keys \cup {0}] /\ task' \in [Clients -> {"none", "running", "ended", "gone"}]
  BY <1>1, <1>2, AddDoes, Zenon
<1>8. KeysType'
  BY <1>1, <1>6, <1>7, Zenon DEF KeysType
<1>9. commands = <<>> /\ commands' = <<>>
  BY <1>1, Zenon DEF LazyInv
<1>10. DOMAIN commands' = {}
  BY <1>9
<1>11. CommandsInv'
  BY <1>10, Zenon DEF CommandsInv
<1>12. LazyInv'
  BY <1>1, Zenon DEF LazyInv, Ended
<1> QED BY <1>5, <1>8, <1>11, <1>12, Zenon DEF KeysInv

\* A watcher of a Lazy directory sends its command; it has none in the queue yet.
LEMMA RegisterLazyKeeps ==
    ASSUME KeysInv, NEW c \in Clients, RegisterLazy(c)
    PROVE  KeysInv'
<1>1. /\ KeysType /\ SlabInv /\ CommandsInv /\ LazyInv /\ lazy /\ lazy_task # Ended /\ client[c] = "new"
      /\ UNCHANGED <<lazy, slab, task, key, lazy_task>> /\ client' = [client EXCEPT ![c] = "open"]
  BY Zenon DEF KeysInv, RegisterLazy
<1>2. PICK m \in Masks[c] : commands' = Append(commands, [register |-> c, mask |-> m])
  BY Zenon DEF RegisterLazy
<1>3. PICK e \in Registers : e.register = c /\ commands' = Append(commands, e)
  BY <1>2 DEF Registers
<1>4. e \in Commands /\ e \notin Unregisters /\ commands \in Seq(Commands)
  BY <1>1, <1>3, CommandsDiffer, Zenon DEF KeysType
<1>5. /\ commands' \in Seq(Commands)
      /\ \A i \in DOMAIN commands' :
           \/ i \in DOMAIN commands /\ commands'[i] = commands[i]
           \/ i \notin DOMAIN commands /\ commands'[i] = e
      /\ \A i, j \in DOMAIN commands' : i \notin DOMAIN commands /\ j \notin DOMAIN commands => i = j
  BY <1>3, <1>4, CommandAdded, Zenon
<1>6. client'[c] # "new" /\ \A x \in Clients \ {c} : client'[x] = client[x]
  BY <1>1 DEF KeysType
<1>7. client' \in [Clients -> {"new", "open", "closed"}]
  BY <1>1 DEF KeysType
<1>8. KeysType'
  BY <1>1, <1>5, <1>7, Zenon DEF KeysType
<1>9. SlabInv'
  <2>1. \A x \in Clients : client'[x] = "new" => client[x] = "new"
    BY <1>6, Zenon
  <2>2. lazy /\ lazy_task = Ended => (lazy /\ lazy_task = Ended)'
    BY <1>1, Zenon
  <2> QED BY <1>1, <2>1, <2>2, SlabStays, Zenon
<1>10. task[c] = "none"
  BY <1>1, Zenon DEF SlabInv
<1>11. ASSUME NEW i \in DOMAIN commands, commands[i] \in Registers
       PROVE  /\ commands[i].register # c /\ client'[commands[i].register] # "new"
              /\ task'[commands[i].register] = "none"
  <2>1. /\ commands[i].register \in Clients /\ client[commands[i].register] # "new"
        /\ task[commands[i].register] = "none"
    BY <1>1, <1>11, CommandFields, Zenon DEF CommandsInv
  <2>2. commands[i].register # c
    BY <1>1, <2>1, Zenon
  <2>3. client'[commands[i].register] = client[commands[i].register]
    BY <1>6, <2>1, <2>2, Zenon
  <2> QED BY <1>1, <2>1, <2>2, <2>3, Zenon
<1>12. \A i \in DOMAIN commands' : commands'[i] \in Registers =>
         task'[commands'[i].register] = "none" /\ client'[commands'[i].register] # "new"
  <2> SUFFICES ASSUME NEW i \in DOMAIN commands', commands'[i] \in Registers
               PROVE  task'[commands'[i].register] = "none" /\ client'[commands'[i].register] # "new"
    BY Zenon
  <2>1. CASE i \in DOMAIN commands /\ commands'[i] = commands[i]
    <3>1. commands[i] \in Registers
      BY <2>1, Zenon
    <3>2. task'[commands[i].register] = "none" /\ client'[commands[i].register] # "new"
      BY <1>11, <2>1, <3>1, Zenon
    <3> QED BY <2>1, <3>2, Zenon
  <2>2. CASE commands'[i] = e
    <3>1. task'[c] = "none"
      BY <1>1, <1>10, Zenon
    <3>2. commands'[i].register = c
      BY <1>3, <2>2, Zenon
    <3> QED BY <1>6, <3>1, <3>2, Zenon
  <2> QED BY <1>5, <2>1, <2>2, Zenon
<1>13. \A i \in DOMAIN commands' : commands'[i] \in Unregisters =>
         commands'[i].unregister \in DOMAIN slab' /\ task'[slab'[commands'[i].unregister]] = "gone"
  BY <1>1, <1>4, <1>5, Zenon DEF CommandsInv
<1>14. \A i, j \in DOMAIN commands' : commands'[i] \in Registers /\ commands'[j] \in Registers
         /\ commands'[i].register = commands'[j].register => i = j
  <2> SUFFICES ASSUME NEW i \in DOMAIN commands', NEW j \in DOMAIN commands', commands'[i] \in Registers,
                      commands'[j] \in Registers, commands'[i].register = commands'[j].register
               PROVE  i = j
    BY Zenon
  <2>1. ASSUME NEW n \in DOMAIN commands', n \notin DOMAIN commands
        PROVE  commands'[n].register = c
    BY <1>3, <1>5, <2>1, Zenon
  <2>2. ASSUME NEW n \in DOMAIN commands', n \in DOMAIN commands, commands'[n] \in Registers
        PROVE  commands'[n].register # c /\ commands[n] \in Registers /\ commands'[n] = commands[n]
    <3>1. commands'[n] = commands[n]
      BY <1>5, <2>2, Zenon
    <3>2. commands[n].register # c
      BY <1>11, <2>2, <3>1, Zenon
    <3> QED BY <2>2, <3>1, <3>2, Zenon
  <2>3. CASE i \in DOMAIN commands /\ j \in DOMAIN commands
    <3>1. commands[i] \in Registers /\ commands[j] \in Registers /\ commands[i].register = commands[j].register
      BY <2>2, <2>3, Zenon
    <3> QED BY <1>1, <2>3, <3>1, Zenon DEF CommandsInv
  <2>4. CASE i \notin DOMAIN commands /\ j \notin DOMAIN commands
    BY <1>5, <2>4, Zenon
  <2> QED BY <2>1, <2>2, <2>3, <2>4, Zenon
<1>15. \A i, j \in DOMAIN commands' : commands'[i] \in Unregisters /\ commands'[i] = commands'[j] => i = j
  BY <1>1, <1>4, <1>5, Zenon DEF CommandsInv
<1>16. CommandsInv'
  BY <1>12, <1>13, <1>14, <1>15, Zenon DEF CommandsInv, Registers, Unregisters
<1>17. LazyInv'
  BY <1>1, Zenon DEF LazyInv, Ended
<1> QED BY <1>8, <1>9, <1>16, <1>17, Zenon DEF KeysInv

\* A task is dropped: its controller goes at once, or a command for that is sent,
\* the only one with this key since the older ones are those of tasks that are gone.
LEMMA UnregisterKeeps ==
    ASSUME KeysInv, NEW c \in Clients, task[c] \in {"running", "ended"}, unregister_watcher(c),
           task' = [task EXCEPT ![c] = "gone"], UNCHANGED <<lazy, client, key, lazy_task>>
    PROVE  KeysInv'
<1>1. KeysType /\ SlabInv /\ CommandsInv /\ LazyInv
  BY Zenon DEF KeysInv
<1>2. /\ task'[c] = "gone" /\ \A x \in Clients \ {c} : task'[x] = task[x]
      /\ task' \in [Clients -> {"none", "running", "ended", "gone"}]
  BY <1>1 DEF KeysType
<1>3. client[c] # "new" /\ task[c] # "none" /\ task[c] # "gone"
  BY <1>1 DEF SlabInv
<1>4. CASE ~lazy
  <2>1. remove(key[c]) /\ UNCHANGED commands
    BY <1>4, Zenon DEF unregister_watcher
  <2>2. key[c] \in DOMAIN slab /\ slab[key[c]] = c
    BY <1>1, <1>4, Zenon DEF SlabInv
  <2>3. SlabInv'
    <3>1. \A x \in Clients : x # slab[key[c]] => task'[x] = task[x]
      BY <1>2, <2>2, Zenon
    <3>2. task'[slab[key[c]]] = "gone" /\ client[slab[key[c]]] # "new"
      BY <1>2, <1>3, <2>2, Zenon
    <3> QED BY <1>1, <1>4, <2>1, <2>2, <3>1, <3>2, RemoveKeeps, Zenon
  <2>4. KeysType'
    BY <1>1, <1>2, <2>1, Zenon DEF KeysType
  <2>5. commands' = <<>>
    BY <1>1, <1>4, <2>1, Zenon DEF LazyInv
  <2>6. DOMAIN commands' = {}
    BY <2>5
  <2>7. CommandsInv'
    BY <2>6, Zenon DEF CommandsInv
  <2>8. LazyInv'
    BY <1>1, <2>1, Zenon DEF LazyInv, Ended
  <2> QED BY <2>3, <2>4, <2>7, <2>8, Zenon DEF KeysInv
<1>5. ASSUME lazy PROVE SlabInv'
  <2>1. UNCHANGED slab
    BY <1>5, Zenon DEF unregister_watcher
  <2>2. \A x \in Clients : task'[x] \in {"running", "ended"} => x # c
    BY <1>2
  <2>3. \A x \in Clients : task'[x] = "none" <=> task[x] = "none"
    BY <1>2, <1>3
  <2>4. \A k \in DOMAIN slab' : slab'[k] \in Clients /\ key'[slab'[k]] = k /\ task'[slab'[k]] # "none"
    BY <1>1, <2>1, <2>3, Zenon DEF SlabInv
  <2>5. \A x \in Clients : (task'[x] \in {"running", "ended"} /\ ~(lazy /\ lazy_task = Ended)')
                               => key'[x] \in DOMAIN slab' /\ slab'[key'[x]] = x
    <3> SUFFICES ASSUME NEW x \in Clients, task'[x] \in {"running", "ended"},
                        ~(lazy /\ lazy_task = Ended)'
                 PROVE  key'[x] \in DOMAIN slab' /\ slab'[key'[x]] = x
      BY Zenon
    <3>1. task[x] \in {"running", "ended"} /\ ~(lazy /\ lazy_task = Ended)
      <4>1. x # c
        BY <2>2, Zenon
      <4> QED BY <1>2, <4>1, Zenon DEF Ended
    <3>2. key[x] \in DOMAIN slab /\ slab[key[x]] = x
      BY <1>1, <3>1, Zenon DEF SlabInv
    <3> QED BY <2>1, <3>2, Zenon
  <2>6. \A x \in Clients : client'[x] = "new" => task'[x] = "none"
    BY <1>1, <2>3, Zenon DEF SlabInv
  <2> QED BY <2>4, <2>5, <2>6, Zenon DEF SlabInv, Ended
<1>6. CASE lazy /\ lazy_task = Ended
  <2>1. UNCHANGED <<commands, slab>>
    BY <1>6, Zenon DEF unregister_watcher
  <2>2. commands' = <<>>
    BY <1>1, <1>6, <2>1, Zenon DEF LazyInv
  <2>3. DOMAIN commands' = {}
    BY <2>2
  <2>4. CommandsInv'
    BY <2>3, Zenon DEF CommandsInv
  <2>5. LazyInv'
    BY <1>1, <2>1, Zenon DEF LazyInv, Ended
  <2>6. KeysType'
    BY <1>1, <1>2, <2>1, Zenon DEF KeysType
  <2> QED BY <1>5, <1>6, <2>4, <2>5, <2>6, Zenon DEF KeysInv
<1>7. CASE lazy /\ lazy_task # Ended
  <2>1. UNCHANGED slab /\ commands' = Append(commands, [unregister |-> key[c]])
    BY <1>7, Zenon DEF unregister_watcher
  <2>2. PICK e \in Unregisters : e.unregister = key[c] /\ commands' = Append(commands, e)
    BY <1>1, <2>1 DEF Unregisters, KeysType
  <2>3. e \in Commands /\ e \notin Registers /\ commands \in Seq(Commands)
    BY <1>1, <2>2, CommandsDiffer, Zenon DEF Commands, KeysType
  <2>4. /\ commands' \in Seq(Commands)
        /\ \A i \in DOMAIN commands' :
             \/ i \in DOMAIN commands /\ commands'[i] = commands[i]
             \/ i \notin DOMAIN commands /\ commands'[i] = e
        /\ \A i, j \in DOMAIN commands' : i \notin DOMAIN commands /\ j \notin DOMAIN commands => i = j
    BY <2>2, <2>3, CommandAdded, Zenon
  <2>5. KeysType'
    BY <1>1, <1>2, <2>4, Zenon DEF KeysType
  <2>6. key[c] \in DOMAIN slab /\ slab[key[c]] = c
    BY <1>1, <1>7, Zenon DEF SlabInv
  <2>7. ASSUME NEW i \in DOMAIN commands, commands[i] \in Registers
        PROVE  client'[commands[i].register] # "new" /\ task'[commands[i].register] = "none"
    <3>1. /\ commands[i].register \in Clients /\ client[commands[i].register] # "new"
          /\ task[commands[i].register] = "none"
      BY <1>1, <2>7, CommandFields, Zenon DEF CommandsInv
    <3>2. commands[i].register # c
      BY <1>3, <3>1, Zenon
    <3>3. task'[commands[i].register] = task[commands[i].register]
      BY <1>2, <3>1, <3>2, Zenon
    <3> QED BY <3>1, <3>3, Zenon
  <2>8. ASSUME NEW i \in DOMAIN commands, commands[i] \in Unregisters
        PROVE  /\ commands[i] # e /\ commands[i].unregister \in DOMAIN slab
               /\ task'[slab[commands[i].unregister]] = "gone"
    <3>1. commands[i].unregister \in DOMAIN slab /\ task[slab[commands[i].unregister]] = "gone"
      BY <1>1, <2>8, Zenon DEF CommandsInv
    <3>2. slab[commands[i].unregister] \in Clients
      BY <1>1, <3>1, Zenon DEF SlabInv
    <3>3. slab[commands[i].unregister] # c
      BY <1>3, <3>1, Zenon
    <3>4. commands[i] # e
      BY <2>2, <2>6, <3>3, Zenon
    <3>5. task'[slab[commands[i].unregister]] = "gone"
      BY <1>2, <3>1, <3>2, <3>3, Zenon
    <3> QED BY <3>1, <3>4, <3>5, Zenon
  <2>9. \A i \in DOMAIN commands' : commands'[i] \in Registers =>
          task'[commands'[i].register] = "none" /\ client'[commands'[i].register] # "new"
    BY <2>3, <2>4, <2>7, Zenon
  <2>10. \A i \in DOMAIN commands' : commands'[i] \in Unregisters =>
           commands'[i].unregister \in DOMAIN slab' /\ task'[slab'[commands'[i].unregister]] = "gone"
    <3> SUFFICES ASSUME NEW i \in DOMAIN commands', commands'[i] \in Unregisters
                 PROVE  commands'[i].unregister \in DOMAIN slab /\ task'[slab[commands'[i].unregister]] = "gone"
      BY <2>1, Zenon
    <3>1. CASE i \in DOMAIN commands /\ commands'[i] = commands[i]
      <4>1. commands[i] \in Unregisters
        BY <3>1, Zenon
      <4>2. commands[i].unregister \in DOMAIN slab /\ task'[slab[commands[i].unregister]] = "gone"
        BY <2>8, <3>1, <4>1, Zenon
      <4> QED BY <3>1, <4>2, Zenon
    <3>2. CASE commands'[i] = e
      <4>1. commands'[i].unregister = key[c]
        BY <2>2, <3>2, Zenon
      <4> QED BY <1>2, <2>6, <4>1, Zenon
    <3> QED BY <2>4, <3>1, <3>2, Zenon
  <2>11. \A i, j \in DOMAIN commands' : commands'[i] \in Registers /\ commands'[j] \in Registers
           /\ commands'[i].register = commands'[j].register => i = j
    BY <1>1, <2>3, <2>4, Zenon DEF CommandsInv
  <2>12. \A i, j \in DOMAIN commands' : commands'[i] \in Unregisters /\ commands'[i] = commands'[j] => i = j
    <3> SUFFICES ASSUME NEW i \in DOMAIN commands', NEW j \in DOMAIN commands', commands'[i] \in Unregisters,
                        commands'[i] = commands'[j]
                 PROVE  i = j
      BY Zenon
    <3>1. ASSUME NEW n \in DOMAIN commands', n \in DOMAIN commands, commands'[n] \in Unregisters
          PROVE  commands'[n] # e /\ commands[n] \in Unregisters /\ commands'[n] = commands[n]
      <4>1. commands'[n] = commands[n]
        BY <2>4, <2>8, <3>1, Zenon
      <4> QED BY <2>8, <3>1, <4>1, Zenon
    <3>2. CASE i \in DOMAIN commands /\ j \in DOMAIN commands
      BY <1>1, <3>1, <3>2, Zenon DEF CommandsInv
    <3>3. CASE i \notin DOMAIN commands \/ j \notin DOMAIN commands
      <4>1. commands'[i] = e /\ commands'[j] = e
        BY <2>4, <3>3, Zenon
      <4>2. i \notin DOMAIN commands /\ j \notin DOMAIN commands
        BY <3>1, <4>1, Zenon
      <4> QED BY <2>4, <4>2, Zenon
    <3> QED BY <3>2, <3>3, Zenon
  <2>13. CommandsInv'
    BY <2>9, <2>10, <2>11, <2>12, Zenon DEF CommandsInv, Registers, Unregisters
  <2>14. LazyInv'
    BY <1>1, <1>7, Zenon DEF LazyInv, Ended
  <2> QED BY <1>5, <1>7, <2>5, <2>13, <2>14, Zenon DEF KeysInv
<1> QED BY <1>4, <1>6, <1>7, Zenon

\* The watchers task takes a command x: what the invariant says of x, and that it says
\* the same of the others, which concern other clients and other keys.
Taken(x) ==
    /\ commands' \in Seq(Commands) /\ x \in Commands
    /\ x \in Registers => task[x.register] = "none" /\ client[x.register] # "new"
    /\ x \in Unregisters => x.unregister \in DOMAIN slab /\ task[slab[x.unregister]] = "gone"
    /\ \A i \in DOMAIN commands' : commands'[i] \in Registers =>
         /\ task[commands'[i].register] = "none" /\ client[commands'[i].register] # "new"
         /\ x \in Registers => commands'[i].register # x.register
    /\ \A i \in DOMAIN commands' : commands'[i] \in Unregisters =>
         /\ commands'[i].unregister \in DOMAIN slab /\ task[slab[commands'[i].unregister]] = "gone"
         /\ x \in Unregisters => commands'[i].unregister # x.unregister
    /\ \A i, j \in DOMAIN commands' : commands'[i] \in Registers /\ commands'[j] \in Registers
         /\ commands'[i].register = commands'[j].register => i = j
    /\ \A i, j \in DOMAIN commands' :
         commands'[i] \in Unregisters /\ commands'[i] = commands'[j] => i = j

\* This holds of the command at the head of the queue.
LEMMA TakenKeeps ==
    ASSUME commands \in Seq(Commands), commands # <<>>, commands' = Tail(commands), CommandsInv,
           NEW x, x = Head(commands)
    PROVE  Taken(x)
<1>1. commands' \in Seq(Commands) /\ x \in Commands
  BY CommandTaken, Zenon
<1>2. PICK first \in DOMAIN commands : \E f \in [DOMAIN commands' -> DOMAIN commands] :
        /\ commands[first] = Head(commands)
        /\ \A i \in DOMAIN commands' : commands'[i] = commands[f[i]] /\ f[i] # first
        /\ \A i, j \in DOMAIN commands' : f[i] = f[j] => i = j
  BY CommandTaken, Zenon
<1>3. PICK f \in [DOMAIN commands' -> DOMAIN commands] :
        /\ commands[first] = x
        /\ \A i \in DOMAIN commands' : commands'[i] = commands[f[i]] /\ f[i] # first
        /\ \A i, j \in DOMAIN commands' : f[i] = f[j] => i = j
  BY <1>2, Zenon
<1>4. /\ x \in Registers => task[x.register] = "none" /\ client[x.register] # "new"
      /\ x \in Unregisters => x.unregister \in DOMAIN slab /\ task[slab[x.unregister]] = "gone"
  <2>1. commands[first] \in Registers =>
          task[commands[first].register] = "none" /\ client[commands[first].register] # "new"
    BY Zenon DEF CommandsInv
  <2>2. commands[first] \in Unregisters =>
          commands[first].unregister \in DOMAIN slab /\ task[slab[commands[first].unregister]] = "gone"
    BY Zenon DEF CommandsInv
  <2>3. commands[first] = x
    BY <1>3, Zenon
  <2> QED BY ONLY <2>1, <2>2, <2>3, Zenon
<1>5. ASSUME NEW i \in DOMAIN commands', commands'[i] \in Registers
      PROVE  /\ task[commands'[i].register] = "none" /\ client[commands'[i].register] # "new"
             /\ x \in Registers => commands'[i].register # x.register
  <2>1. f[i] \in DOMAIN commands /\ commands'[i] = commands[f[i]] /\ f[i] # first
    BY <1>3, Zenon
  <2>2. commands[f[i]] \in Registers
    BY <1>5, <2>1, Zenon
  <2>3. task[commands[f[i]].register] = "none" /\ client[commands[f[i]].register] # "new"
    BY <2>1, <2>2, Zenon DEF CommandsInv
  <2>4. ASSUME x \in Registers PROVE commands[f[i]].register # x.register
    BY <1>3, <2>1, <2>2, <2>4, Zenon DEF CommandsInv
  <2> QED BY <2>1, <2>3, <2>4, Zenon
<1>6. ASSUME NEW i \in DOMAIN commands', commands'[i] \in Unregisters
      PROVE  /\ commands'[i].unregister \in DOMAIN slab /\ task[slab[commands'[i].unregister]] = "gone"
             /\ x \in Unregisters => commands'[i].unregister # x.unregister
  <2>1. f[i] \in DOMAIN commands /\ commands'[i] = commands[f[i]] /\ f[i] # first
    BY <1>3, Zenon
  <2>2. commands[f[i]] \in Unregisters
    BY <1>6, <2>1, Zenon
  <2>3. commands[f[i]].unregister \in DOMAIN slab /\ task[slab[commands[f[i]].unregister]] = "gone"
    BY <2>1, <2>2, Zenon DEF CommandsInv
  <2>4. commands[f[i]] # x
    BY <1>3, <2>1, <2>2, Zenon DEF CommandsInv
  <2>5. ASSUME x \in Unregisters PROVE commands[f[i]].unregister # x.unregister
    BY <2>2, <2>4, <2>5, CommandFields, Zenon
  <2> QED BY <2>1, <2>3, <2>5, Zenon
<1>7. ASSUME NEW i \in DOMAIN commands', NEW j \in DOMAIN commands', commands'[i] \in Registers,
             commands'[j] \in Registers, commands'[i].register = commands'[j].register
      PROVE  i = j
  <2>1. f[i] \in DOMAIN commands /\ commands'[i] = commands[f[i]] /\ f[j] \in DOMAIN commands /\ commands'[j] = commands[f[j]]
    BY <1>3, Zenon
  <2>2. /\ commands[f[i]] \in Registers /\ commands[f[j]] \in Registers
        /\ commands[f[i]].register = commands[f[j]].register
    BY <1>7, <2>1, Zenon
  <2>3. f[i] = f[j]
    BY <2>1, <2>2, Zenon DEF CommandsInv
  <2> QED BY <1>3, <2>3, Zenon
<1>8. ASSUME NEW i \in DOMAIN commands', NEW j \in DOMAIN commands', commands'[i] \in Unregisters,
             commands'[i] = commands'[j]
      PROVE  i = j
  <2>1. f[i] \in DOMAIN commands /\ commands'[i] = commands[f[i]] /\ f[j] \in DOMAIN commands /\ commands'[j] = commands[f[j]]
    BY <1>3, Zenon
  <2>2. commands[f[i]] \in Unregisters /\ commands[f[i]] = commands[f[j]]
    BY <1>8, <2>1, Zenon
  <2>3. f[i] = f[j]
    BY <2>1, <2>2, Zenon DEF CommandsInv
  <2> QED BY <1>3, <2>3, Zenon
<1> QED BY <1>1, <1>4, <1>5, <1>6, <1>7, <1>8, Zenon DEF Taken

\* The task of a Lazy registers a watcher.
LEMMA RunRegisterKeeps ==
    ASSUME KeysInv, RunRegister
    PROVE  KeysInv'
<1> DEFINE x == Head(commands)
           c == x.register
<1>1. /\ KeysType /\ SlabInv /\ CommandsInv /\ LazyInv /\ lazy_task = Loop /\ commands # <<>>
      /\ UNCHANGED <<lazy, client>> /\ commands' = Tail(commands) /\ commands \in Seq(Commands)
      /\ "register" \in DOMAIN x
  BY Zenon DEF KeysInv, KeysType, RunRegister
<1>2. PICK y : y = x
  BY Zenon
<1>3. /\ commands' \in Seq(Commands) /\ y \in Commands
      /\ y \in Registers => task[y.register] = "none" /\ client[y.register] # "new"
      /\ \A i \in DOMAIN commands' : commands'[i] \in Registers =>
           /\ task[commands'[i].register] = "none" /\ client[commands'[i].register] # "new"
           /\ y \in Registers => commands'[i].register # y.register
      /\ \A i \in DOMAIN commands' : commands'[i] \in Unregisters =>
           commands'[i].unregister \in DOMAIN slab /\ task[slab[commands'[i].unregister]] = "gone"
      /\ \A i, j \in DOMAIN commands' : commands'[i] \in Registers /\ commands'[j] \in Registers
           /\ commands'[i].register = commands'[j].register => i = j
      /\ \A i, j \in DOMAIN commands' :
           commands'[i] \in Unregisters /\ commands'[i] = commands'[j] => i = j
  <2>1. Taken(y)
    BY <1>1, <1>2, TakenKeeps, Zenon
  <2> QED BY <2>1, Zenon DEF Taken
<1>4. y \in Registers
  BY <1>1, <1>2, <1>3, CommandKinds, Zenon
<1>5. PICK d \in Clients : d = y.register
  BY <1>4, CommandFields, Zenon
<1>6. PICK m, bufs : add(d, m, bufs)
  BY <1>2, <1>5, Zenon DEF RunRegister
<1>7. Loop # Ended /\ lazy_task' # Ended
  BY DEF RunRegister, Loop, Ended
<1>8. task[d] = "none" /\ client'[d] # "new" /\ lazy
  BY <1>1, <1>3, <1>4, <1>5, Zenon DEF LazyInv
<1>9. /\ SlabInv'
      /\ \A z \in Clients \ {d} : task'[z] = task[z]
      /\ \A k \in DOMAIN slab : k \in DOMAIN slab' /\ slab'[k] = slab[k] /\ slab'[k] # d
  <2>1. \A z \in Clients \ {d} : client'[z] = client[z]
    BY <1>1, Zenon
  <2>2. ~(lazy /\ lazy_task = Ended)
    BY <1>1, <1>7, Zenon
  <2> QED BY <1>1, <1>6, <1>8, <2>1, <2>2, AddKeeps, Zenon
<1>10. key' \in [Clients -> Keys \cup {0}] /\ task' \in [Clients -> {"none", "running", "ended", "gone"}]
  BY <1>1, <1>6, AddDoes, Zenon
<1>11. KeysType'
  BY <1>1, <1>3, <1>10, Zenon DEF KeysType
<1>12. ASSUME NEW i \in DOMAIN commands', commands'[i] \in Registers
       PROVE  task'[commands'[i].register] = "none" /\ client'[commands'[i].register] # "new"
  <2>1. commands'[i].register \in Clients \ {d}
    BY <1>3, <1>4, <1>5, <1>12, CommandFields, Zenon
  <2>2. task[commands'[i].register] = "none" /\ client[commands'[i].register] # "new"
    BY <1>3, <1>12, Zenon
  <2>3. task'[commands'[i].register] = task[commands'[i].register]
    BY <1>9, <2>1, Zenon
  <2> QED BY <1>1, <2>2, <2>3, Zenon
<1>13. ASSUME NEW i \in DOMAIN commands', commands'[i] \in Unregisters
       PROVE  commands'[i].unregister \in DOMAIN slab' /\ task'[slab'[commands'[i].unregister]] = "gone"
  <2>1. commands'[i].unregister \in DOMAIN slab /\ task[slab[commands'[i].unregister]] = "gone"
    BY <1>3, <1>13, Zenon
  <2>2. PICK k \in DOMAIN slab : k = commands'[i].unregister
    BY <2>1, Zenon
  <2>3. k \in DOMAIN slab' /\ slab'[k] = slab[k] /\ slab[k] # d /\ slab[k] \in Clients
    BY <1>1, <1>9, Zenon DEF SlabInv
  <2>4. task'[slab[k]] = task[slab[k]]
    BY <1>9, <2>3, Zenon
  <2> QED BY <2>1, <2>2, <2>3, <2>4, Zenon
<1>14. CommandsInv'
  BY <1>3, <1>12, <1>13, Zenon DEF CommandsInv, Registers, Unregisters
<1>15. LazyInv'
  BY <1>1, <1>7, <1>8, Zenon DEF LazyInv, Ended
<1> QED BY <1>9, <1>11, <1>14, <1>15, Zenon DEF KeysInv

\* It removes a controller, that of a task which is gone.
LEMMA RunUnregisterKeeps ==
    ASSUME KeysInv, RunUnregister
    PROVE  KeysInv'
<1>1. /\ KeysType /\ SlabInv /\ CommandsInv /\ LazyInv /\ commands # <<>> /\ lazy_task = Loop
      /\ UNCHANGED <<lazy, client, task, key, lazy_task>>
      /\ commands' = Tail(commands) /\ commands \in Seq(Commands)
      /\ "unregister" \in DOMAIN Head(commands) /\ remove(Head(commands).unregister)
  BY Zenon DEF KeysInv, KeysType, RunUnregister
<1>2. PICK y : y = Head(commands)
  BY Zenon
<1>3. /\ commands' \in Seq(Commands) /\ y \in Commands
      /\ y \in Unregisters => y.unregister \in DOMAIN slab /\ task[slab[y.unregister]] = "gone"
      /\ \A i \in DOMAIN commands' : commands'[i] \in Registers =>
           task[commands'[i].register] = "none" /\ client[commands'[i].register] # "new"
      /\ \A i \in DOMAIN commands' : commands'[i] \in Unregisters =>
           /\ commands'[i].unregister \in DOMAIN slab /\ task[slab[commands'[i].unregister]] = "gone"
           /\ y \in Unregisters => commands'[i].unregister # y.unregister
      /\ \A i, j \in DOMAIN commands' : commands'[i] \in Registers /\ commands'[j] \in Registers
           /\ commands'[i].register = commands'[j].register => i = j
      /\ \A i, j \in DOMAIN commands' :
           commands'[i] \in Unregisters /\ commands'[i] = commands'[j] => i = j
  <2>1. Taken(y)
    BY <1>1, <1>2, TakenKeeps, Zenon
  <2> QED BY <2>1, Zenon DEF Taken
<1>4. y \in Unregisters
  BY <1>1, <1>2, <1>3, CommandKinds, Zenon
<1>5. PICK k \in DOMAIN slab : k = y.unregister /\ task[slab[k]] = "gone"
  BY <1>3, <1>4, Zenon
<1>6. SlabInv' /\ DOMAIN slab' = DOMAIN slab \ {k} /\ \A j \in DOMAIN slab' : slab'[j] = slab[j]
  <2>1. client[slab[k]] # "new"
    BY <1>1, <1>5 DEF SlabInv
  <2>2. remove(k) /\ task'[slab[k]] = "gone" /\ \A z \in Clients : z # slab[k] => task'[z] = task[z]
    BY <1>1, <1>2, <1>5, Zenon
  <2>3. lazy /\ lazy_task = Ended => (lazy /\ lazy_task = Ended)'
    BY <1>1, Zenon
  <2> QED BY <1>1, <2>1, <2>2, <2>3, RemoveKeeps, Zenon
<1>7. KeysType'
  BY <1>1, <1>3, Zenon DEF KeysType
<1>8. ASSUME NEW i \in DOMAIN commands', commands'[i] \in Unregisters
      PROVE  commands'[i].unregister \in DOMAIN slab' /\ task'[slab'[commands'[i].unregister]] = "gone"
  <2>1. /\ commands'[i].unregister \in DOMAIN slab /\ task[slab[commands'[i].unregister]] = "gone"
        /\ commands'[i].unregister # k
    BY <1>3, <1>4, <1>5, <1>8, Zenon
  <2>2. commands'[i].unregister \in DOMAIN slab'
    BY <1>6, <2>1, Zenon
  <2>3. slab'[commands'[i].unregister] = slab[commands'[i].unregister]
    BY <1>6, <2>2, Zenon
  <2> QED BY <1>1, <2>1, <2>2, <2>3, Zenon
<1>9. \A i \in DOMAIN commands' : commands'[i] \in Registers =>
        task'[commands'[i].register] = "none" /\ client'[commands'[i].register] # "new"
  BY <1>1, <1>3, Zenon
<1>10. CommandsInv'
  BY <1>3, <1>8, <1>9, Zenon DEF CommandsInv, Registers, Unregisters
<1>11. lazy /\ Loop # Ended
  BY <1>1 DEF LazyInv, Loop, Ended
<1>12. LazyInv'
  BY <1>1, <1>11, Zenon DEF LazyInv, Loop, Ended
<1> QED BY <1>6, <1>7, <1>10, <1>12, Zenon DEF KeysInv

\* The stream ends: the slab and the commands are dropped.
LEMMA RunEndsKeeps ==
    ASSUME KeysInv, RunEnds
    PROVE  KeysInv'
<1>1. /\ KeysType /\ SlabInv /\ LazyInv /\ lazy_task = Loop /\ lazy_task' = Ended
      /\ slab' = <<>> /\ commands' = <<>> /\ UNCHANGED <<lazy, client, task, key>>
  BY Zenon DEF KeysInv, RunEnds
<1>2. DOMAIN slab' = {} /\ DOMAIN commands' = {} /\ commands' \in Seq(Commands)
  BY <1>1
<1>3. lazy
  BY <1>1 DEF LazyInv, Loop, Ended
<1>4. KeysType'
  BY <1>1, <1>2, Zenon DEF KeysType
<1>5. (lazy /\ lazy_task = Ended)'
  BY <1>1, <1>3, Zenon DEF Ended
<1>6. SlabInv'
  BY <1>1, <1>2, <1>5, Zenon DEF SlabInv
<1>7. CommandsInv'
  BY <1>2, Zenon DEF CommandsInv
<1>8. LazyInv'
  BY <1>1, <1>3, Zenon DEF LazyInv
<1> QED BY <1>4, <1>6, <1>7, <1>8, Zenon DEF KeysInv

\* The actions of a watcher's task and of its client.
LEMMA ClientKeeps ==
    ASSUME KeysInv, NEW c \in Clients,
           HandleSend(c) \/ TaskEnds(c) \/ PollNext(c) \/ CloseClient(c)
    PROVE  KeysInv'
<1>1. KeysType
  BY Zenon DEF KeysInv
<1>2. ASSUME task[c] = "running", task' = [task EXCEPT ![c] = "ended"],
             UNCHANGED <<slab, key, commands, lazy, client, lazy_task>>
      PROVE  KeysInv'
  <2>1. /\ task' \in [Clients -> {"none", "running", "ended", "gone"}]
        /\ \A x \in Clients : task'[x] = task[x] \/ (task[x] = "running" /\ task'[x] = "ended")
    BY <1>1, <1>2 DEF KeysType
  <2>2. client' \in [Clients -> {"new", "open", "closed"}] /\ \A x \in Clients : client'[x] = client[x]
    BY <1>1, <1>2, Zenon DEF KeysType
  <2> QED BY <1>2, <2>1, <2>2, Quiet, Zenon
<1>3. CASE HandleSend(c)
  <2>1. UNCHANGED <<slab, key, commands, lazy, client, lazy_task>> /\ task[c] = "running"
    BY <1>3, Zenon DEF HandleSend, lazyVars
  <2>2. CASE UNCHANGED task
    BY <2>1, <2>2, QuietVars, Zenon
  <2>3. CASE task' = [task EXCEPT ![c] = "ended"]
    BY <1>2, <2>1, <2>3, Zenon
  <2> QED BY <1>3, <2>2, <2>3, Zenon DEF HandleSend
<1>4. CASE TaskEnds(c)
  <2>1. /\ UNCHANGED <<slab, key, commands, lazy, client, lazy_task>> /\ task[c] = "running"
        /\ task' = [task EXCEPT ![c] = "ended"]
    BY <1>4, Zenon DEF TaskEnds, lazyVars
  <2> QED BY <1>2, <2>1, Zenon
<1>5. CASE PollNext(c)
  <2>1. UNCHANGED <<slab, key, commands, lazy, client, task, lazy_task>>
    BY <1>5, Zenon DEF PollNext, lazyVars, controllerVars
  <2> QED BY <2>1, QuietVars, Zenon
<1>6. CASE CloseClient(c)
  <2>1. UNCHANGED <<slab, key, commands, lazy, task, lazy_task>> /\ client' = [client EXCEPT ![c] = "closed"]
    BY <1>6, Zenon DEF CloseClient, lazyVars
  <2>2. /\ client' \in [Clients -> {"new", "open", "closed"}]
        /\ \A x \in Clients : client'[x] = "new" => client[x] = "new"
    BY <1>1, <2>1 DEF KeysType
  <2>3. task' \in [Clients -> {"none", "running", "ended", "gone"}] /\ \A x \in Clients : task'[x] = task[x]
    BY <1>1, <2>1, Zenon DEF KeysType
  <2> QED BY <2>1, <2>2, <2>3, Quiet, Zenon
<1> QED BY <1>3, <1>4, <1>5, <1>6, Zenon

\* A task is dropped, after it has ended or before.
LEMMA DroppedKeeps ==
    ASSUME KeysInv, NEW c \in Clients, TaskDropped(c) \/ TaskAborted(c)
    PROVE  KeysInv'
<1>1. /\ unregister_watcher(c) /\ task' = [task EXCEPT ![c] = "gone"]
      /\ UNCHANGED <<lazy, client, key, lazy_task>> /\ task[c] \in {"running", "ended"}
  BY Zenon DEF TaskDropped, TaskAborted
<1> QED BY <1>1, UnregisterKeeps, Zenon

\* The directory changes, and the task of a Lazy lists it or sends an event.
LEMMA DirectoryKeeps ==
    ASSUME KeysInv,
           \/ \E name \in Names : Added(name) \/ Removed(name) \/ Created(name)
           \/ LazyChange \/ LazyDeleted \/ RunListing \/ RunListingFails \/ RunEvent
    PROVE  KeysInv'
<1>1. UNCHANGED <<slab, key, commands, lazy, client, task>>
  BY Zenon DEF Added, Removed, Created, LazyChange, LazyDeleted, RunListing, RunListingFails, RunEvent,
               lazyVars, controllerVars
<1>2. CASE UNCHANGED lazy_task
  BY <1>1, <1>2, QuietVars, Zenon
<1>3. CASE RunListing \/ RunListingFails
  <2>1. lazy_task.at = "listing" /\ (lazy_task' = Loop \/ \E p : lazy_task' = [lazy_task EXCEPT !.pos = p])
    BY <1>3, Zenon DEF RunListing, RunListingFails
  <2>2. lazy_task # Ended
    BY <2>1 DEF Ended
  <2>3. lazy_task' # Ended
    <3>1. CASE lazy_task' = Loop
      BY <3>1 DEF Loop, Ended
    <3>2. CASE \E p : lazy_task' = [lazy_task EXCEPT !.pos = p]
      <4>1. PICK p : lazy_task' = [lazy_task EXCEPT !.pos = p]
        BY <3>2, Zenon
      <4>2. ASSUME lazy_task' = Ended PROVE FALSE
        <5>1. DOMAIN lazy_task = {"at"} /\ lazy_task'.at = "ended"
          BY <4>1, <4>2 DEF Ended
        <5>2. lazy_task'.at = lazy_task.at
          BY <4>1, <5>1
        <5> QED BY <2>1, <5>1, <5>2
      <4> QED BY <4>2, Zenon
    <3> QED BY <2>1, <3>1, <3>2, Zenon
  <2> QED BY <1>1, <2>2, <2>3, QuietVars, Zenon
<1> QED BY <1>2, <1>3, Zenon DEF Added, Removed, Created, LazyChange, LazyDeleted, RunEvent, lazyVars

-----------------------------------------------------------------------------
(* KeysInv is an invariant, and implies KeysAreOwn.                        *)

\* No watcher, no command.
LEMMA KeysInit ==
    ASSUME Init
    PROVE  KeysInv
<1>1. /\ DOMAIN slab = {} /\ DOMAIN commands = {} /\ commands = <<>> /\ commands \in Seq(Commands)
      /\ client \in [Clients -> {"new", "open", "closed"}]
      /\ task \in [Clients -> {"none", "running", "ended", "gone"}]
      /\ key \in [Clients -> Keys \cup {0}]
      /\ \A c \in Clients : task[c] = "none"
      /\ lazy \in BOOLEAN
  BY DEF Init
<1>2. KeysType
  BY <1>1, Zenon DEF KeysType
<1>3. \A c \in Clients : task[c] \notin {"running", "ended"}
  BY <1>1
<1>4. SlabInv
  BY <1>1, <1>3, Zenon DEF SlabInv
<1>5. CommandsInv
  BY <1>1, Zenon DEF CommandsInv
<1>6. LazyInv
  BY <1>1, Zenon DEF LazyInv, Init
<1> QED BY <1>2, <1>4, <1>5, <1>6, Zenon DEF KeysInv

\* Every step of the watchers, their clients and the directory.
LEMMA KeysStep ==
    ASSUME KeysInv, [Next]_vars
    PROVE  KeysInv'
<1>1. CASE UNCHANGED vars
  <2>1. UNCHANGED <<slab, key, commands, lazy, client, task, lazy_task>>
    BY <1>1, Zenon DEF vars, controllerVars, lazyVars
  <2> QED BY <2>1, QuietVars, Zenon
<1>2. ASSUME NEW c \in Clients,
             \/ RegisterSimple(c) \/ RegisterLazy(c) \/ PollNext(c) \/ CloseClient(c)
             \/ WatcherTask(c) \/ TaskAborted(c)
      PROVE  KeysInv'
  BY <1>2, RegisterSimpleKeeps, RegisterLazyKeeps, ClientKeeps, DroppedKeeps, Zenon DEF WatcherTask
<1>3. CASE (\E name \in Names : Added(name) \/ Removed(name) \/ Created(name)) \/ LazyChange \/ LazyDeleted
  BY <1>3, DirectoryKeeps, Zenon
<1>4. CASE LazyTask
  BY <1>4, DirectoryKeeps, RunRegisterKeeps, RunUnregisterKeeps, RunEndsKeeps, Zenon DEF LazyTask
<1> QED BY <1>1, <1>2, <1>3, <1>4, Zenon DEF Next

\* What the invariant says of the keys.
LEMMA KeysInvImplies ==
    ASSUME KeysInv
    PROVE  KeysAreOwn
<1>1. \A c \in Clients : (task[c] \in {"running", "ended"} /\ ~(lazy /\ lazy_task = Ended))
                             => key[c] \in DOMAIN slab /\ slab[key[c]] = c
  BY Zenon DEF KeysInv, SlabInv
<1>2. ASSUME NEW i \in DOMAIN commands, "unregister" \in DOMAIN commands[i]
      PROVE  /\ commands[i].unregister \in DOMAIN slab
             /\ task[slab[commands[i].unregister]] = "gone"
             /\ \A j \in DOMAIN commands : commands[j] = commands[i] => j = i
  <2>1. commands[i] \in Commands
    BY ElementOfSeq, LenProperties DEF KeysInv, KeysType
  <2>2. commands[i] \in Unregisters
    BY <1>2, <2>1, CommandKinds, Zenon
  <2> QED BY <2>2, Zenon DEF KeysInv, CommandsInv
<1> QED BY <1>1, <1>2, Zenon DEF KeysAreOwn

\* However tasks end, are aborted and are dropped, and however late the task of a lazy
\* directory handles their commands, the key that `done` unregisters is that of the
\* watcher's own controller: Slab::remove never meets a vacant key or one that was
\* given to another watcher, for any number of clients and any changes.
THEOREM KeysOfOwnControllers == Spec => []KeysAreOwn
<1>1. Init => KeysInv
  BY KeysInit
<1>2. KeysInv /\ [Next]_vars => KeysInv'
  BY KeysStep
<1>3. KeysInv => KeysAreOwn
  BY KeysInvImplies
<1> QED BY <1>1, <1>2, <1>3, PTL DEF Spec

=============================================================================
