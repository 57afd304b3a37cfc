------------------------- MODULE DirectoriesProofs -------------------------
(***************************************************************************)
(* Proofs about Directories: for any tree, any number of connections and   *)
(* any requests, what clients and watchers see of a directory stays true   *)
(* while others rename, remove and add.                                    *)
(***************************************************************************)
EXTENDS Directories, FiniteSetTheorems, WellFoundedInduction, TLAPS

-----------------------------------------------------------------------------
(***************************************************************************)
(* The inductive invariant.                                                *)
(***************************************************************************)

Sources == {into_string(validate_and_split(src).value) : src \in RenameSources}

\* A rename that has locked the first of two directories, or has one half done.
FromFirst == [step : {"to", "remove"}, from : Nodes, src : Sources, to : Nodes, dst : Names]
ToFirst == [step : {"from"}, from : Nodes, src : Sources, to : Nodes, dst : Names]
Taken == [step : {"insert"}, to : Nodes, dst : Names, entry : Nodes]

IsMap(f) == f = [x \in DOMAIN f |-> f[x]]

TreeTyped ==
    /\ kind \in [Nodes -> {"directory", "file", "new"}]
    /\ entries = [d \in Nodes |-> entries[d]]
    /\ \A d \in Nodes :
        /\ IsMap(entries[d])
        /\ DOMAIN entries[d] \subseteq Names
        /\ \A n \in DOMAIN entries[d] : entries[d][n] \in Nodes /\ kind[entries[d][n]] # "new"

RenamesTyped ==
    /\ rename \in [Movers -> {Idle} \cup FromFirst \cup ToFirst \cup Taken]
    /\ \A t \in Movers :
        /\ rename[t].step \in {"to", "remove"} =>
                Has(rename[t].from, rename[t].src) /\ rename[t].from # rename[t].to
        /\ rename[t].step = "insert" => kind[rename[t].entry] # "new"

\* The mutex of a directory is held exactly by the rename that says so.
Holds(t, d) ==
    \/ rename[t].step \in {"to", "remove"} /\ rename[t].from = d
    \/ rename[t].step \in {"from", "insert"} /\ rename[t].to = d

LocksOwned ==
    /\ lock \in [Nodes -> Movers \cup {Free}]
    /\ \A d \in Nodes, t \in Movers : lock[d] = t <=> Holds(t, d)

\* A node has one place, counting the rename that carries it.
OnePlace ==
    /\ \A d, e \in Nodes : \A n \in DOMAIN entries[d], m \in DOMAIN entries[e] :
            entries[d][n] = entries[e][m] /\ ~Leaving(d, n) /\ ~Leaving(e, m) => d = e /\ n = m
    /\ \A t \in Movers : rename[t].step = "insert" =>
            /\ \A d \in Nodes : \A n \in DOMAIN entries[d] :
                    entries[d][n] = rename[t].entry => Leaving(d, n)
            /\ \A u \in Movers : rename[u].step = "insert" /\ rename[u].entry = rename[t].entry => u = t

EventsSent ==
    /\ told = [d \in Nodes |-> told[d]]
    /\ \A d \in Nodes : told[d] \subseteq DOMAIN entries[d]

\* A path that is being resolved goes on through names a directory may hold.
PathOK(path) ==
    /\ path = [is_dir |-> path.is_dir, rest |-> path.rest]
    /\ path.rest \in Seq(STRING)
    /\ \A i \in DOMAIN path.rest : <<path.rest[i]>> \in Names

\* The rights a connection has, or will have when the POSIX flags are expanded.
RightsOK(flags) ==
    /\ flags \cap FS_RIGHTS \subseteq granted
    /\ "POSIX_WRITABLE" \in flags => "RIGHT_WRITABLE" \in granted
    /\ "POSIX_EXECUTABLE" \in flags => "RIGHT_EXECUTABLE" \in granted
    /\ "POSIX_DEPRECATED" \notin flags

ServingConn(r) ==
    /\ r.step = "serving"
    /\ r = [step |-> "serving", at |-> r.at, flags |-> r.flags, seek |-> r.seek]
    /\ r.at \in Nodes /\ r.seek \in Start..End
    /\ r.flags \cap FS_RIGHTS \subseteq granted

OpeningConn(r) ==
    /\ r.step = "opening"
    /\ r = [step |-> "opening", by |-> r.by, at |-> r.at, path |-> r.path, flags |-> r.flags, mode |-> r.mode]
    /\ r.at \in Nodes /\ PathOK(r.path) /\ RightsOK(r.flags)

ConnsOK ==
    /\ conn = [c \in Movers |-> conn[c]]
    /\ \A c \in Movers : conn[c] = Unused \/ ServingConn(conn[c]) \/ OpeningConn(conn[c])
    /\ tokens \subseteq Nodes

\* What a listing still owes its client lies at or after its position.
ListingsOK ==
    /\ missed = [c \in Movers |-> missed[c]]
    /\ \A c \in Movers : Serving(c) /\ conn[c].seek # Start =>
            /\ missed[c] \subseteq DOMAIN entries[conn[c].at]
            /\ \A i \in 1..Len(NameOrder) : NameOrder[i] \in missed[c] => i >= conn[c].seek

Inv ==
    /\ TreeTyped /\ RenamesTyped /\ LocksOwned /\ OnePlace
    /\ EventsSent /\ ConnsOK /\ ListingsOK

-----------------------------------------------------------------------------
(***************************************************************************)
(* The tree and the renames in it.                                         *)
(***************************************************************************)

DirInv == TreeTyped /\ RenamesTyped /\ LocksOwned /\ OnePlace /\ EventsSent

\* Nobody is in the middle of a rename from or to a directory that is not locked.
LEMMA UnlockedIsQuiet ==
    ASSUME LocksOwned, NEW d \in Nodes, Unlocked(d)
    PROVE  (\A t \in Movers : ~Holds(t, d)) /\ (\A n : ~Leaving(d, n))
  BY DirectoryAssumption DEF LocksOwned, Unlocked, Free, Holds, Leaving

\* Where the tree stays as it is, so does what is said of it.
LEMMA TreeStays ==
    ASSUME DirInv, UNCHANGED <<kind, entries, lock, told, rename>>
    PROVE  DirInv'
  <1>1. /\ \A t, d : Holds(t, d)' <=> Holds(t, d)
        /\ \A d, n : (Leaving(d, n)' <=> Leaving(d, n)) /\ (Has(d, n)' <=> Has(d, n))
    BY Zenon DEF Holds, Leaving, Has
  <1>2. TreeTyped' /\ EventsSent'
    BY Zenon DEF DirInv, TreeTyped, EventsSent
  <1>3. RenamesTyped'
    BY <1>1, Zenon DEF DirInv, RenamesTyped
  <1>4. LocksOwned'
    BY <1>1, Zenon DEF DirInv, LocksOwned
  <1>5. OnePlace'
    BY <1>1 DEF DirInv, OnePlace
  <1>. QED  BY <1>2, <1>3, <1>4, <1>5, Zenon DEF DirInv

\* A tree in which one directory changes is typed if that directory is.
LEMMA TypedTree ==
    ASSUME TreeTyped, NEW d \in Nodes, NEW f, IsMap(f), DOMAIN f \subseteq Names,
           entries' = [entries EXCEPT ![d] = f],
           kind' \in [Nodes -> {"directory", "file", "new"}],
           \A n \in Nodes : kind[n] # "new" => kind'[n] # "new",
           \A n \in DOMAIN f : f[n] \in Nodes /\ kind'[f[n]] # "new"
    PROVE  TreeTyped'
  <1>1. entries' = [e \in Nodes |-> IF e = d THEN f ELSE entries[e]]
    BY Zenon DEF TreeTyped
  <1>2. entries'[d] = f /\ \A e \in Nodes \ {d} : entries'[e] = entries[e]
    BY <1>1, Zenon
  <1>3. entries' = [e \in Nodes |-> entries'[e]]
    BY <1>1, Zenon
  <1>4. ASSUME NEW e \in Nodes
        PROVE  /\ IsMap(entries'[e])
               /\ DOMAIN entries'[e] \subseteq Names
               /\ \A n \in DOMAIN entries'[e] : entries'[e][n] \in Nodes /\ kind'[entries'[e][n]] # "new"
    <2>1. CASE e = d
      BY <1>2, <2>1, Zenon
    <2>2. CASE e # d
      BY <1>2, <2>2, Zenon DEF TreeTyped
    <2>. QED  BY <2>1, <2>2, Zenon
  <1>. QED  BY <1>3, <1>4, Zenon DEF TreeTyped

\* `with` and `without` make maps.
LEMMA Maps ==
    ASSUME NEW f, NEW name, NEW node
    PROVE  IsMap(with(f, name, node)) /\ IsMap(without(f, name))
  BY Zenon DEF with, without, Restrict, IsMap

\* A name that is not there yet gets a node that is nowhere yet.
LEMMA AddKeeps ==
    ASSUME DirInv, NEW d \in Nodes, NEW name \in Names, NEW node \in Nodes,
           Unlocked(d), ~Has(d, name), insert(d, name, node), node \notin Placed \cup Carried,
           UNCHANGED <<lock, rename>>, UNCHANGED told \/ added(d, name),
           kind' \in [Nodes -> {"directory", "file", "new"}], kind'[node] # "new",
           \A n \in Nodes : kind[n] # "new" => kind'[n] # "new"
    PROVE  DirInv'
  <1>. USE DEF DirInv, insert, with
  <1>1. \A e \in Nodes : \A n : n \in DOMAIN entries'[e] <=> n \in DOMAIN entries[e] \/ (e = d /\ n = name)
    BY Zenon DEF TreeTyped
  <1>2. \A e \in Nodes : \A n \in DOMAIN entries[e] : entries'[e][n] = entries[e][n] /\ (e # d \/ n # name)
    BY Zenon DEF TreeTyped, Has
  <1>3. entries'[d][name] = node
    BY Zenon DEF TreeTyped
  <1>4. TreeTyped'
    <2>. DEFINE f == with(entries[d], name, node)
    <2>. HIDE DEF with, DirInv
    <2>0. entries' = [entries EXCEPT ![d] = f]
      BY Zenon
    <2>1. IsMap(f)
      BY Maps, Zenon
    <2>. HIDE DEF f
    <2>2. /\ DOMAIN f \subseteq Names
          /\ \A n \in DOMAIN f : f[n] \in Nodes /\ kind'[f[n]] # "new"
      <3>1. DOMAIN f = DOMAIN entries[d] \cup {name}
        BY Zenon DEF with, f
      <3>2. f[name] = node
        BY Zenon DEF with, f
      <3>3. \A n \in DOMAIN entries[d] : n # name => f[n] = entries[d][n]
        BY Zenon DEF with, f
      <3>. QED  BY <3>1, <3>2, <3>3 DEF DirInv, TreeTyped
    <2>. QED  BY <2>0, <2>1, <2>2, TypedTree, Zenon DEF DirInv
  <1>5. RenamesTyped'
    BY <1>1, <1>4 DEF RenamesTyped, Has, FromFirst, ToFirst, Taken, Idle
  <1>6. LocksOwned'
    BY DEF LocksOwned, Holds
  <1>7. \A e, n : Leaving(e, n)' <=> Leaving(e, n)
    BY Zenon DEF Leaving
  <1>8. \A e \in Nodes : \A n \in DOMAIN entries[e] : entries[e][n] # node
    BY DEF Placed, Range
  <1>9. \A t \in Movers : rename[t].step = "insert" => rename[t].entry # node
    BY Zenon DEF Carried
  <1>10. OnePlace'
    BY <1>1, <1>2, <1>3, <1>7, <1>8, <1>9 DEF OnePlace
  <1>11. EventsSent'
    BY <1>1 DEF EventsSent, added
  <1>. QED  BY <1>4, <1>5, <1>6, <1>10, <1>11, Zenon

\* A name is removed under the mutex.
LEMMA RemoveKeeps ==
    ASSUME DirInv, NEW d \in Nodes, NEW name, NEW must_be_directory,
           remove_entry_impl(d, name, must_be_directory), UNCHANGED <<kind, lock, rename>>
    PROVE  DirInv'
  <1>. USE DEF DirInv, remove_entry_impl, without, Restrict
  <1>1. \A e \in Nodes : \A n : n \in DOMAIN entries'[e] <=> n \in DOMAIN entries[e] /\ ~(e = d /\ n = name)
    BY Zenon DEF TreeTyped
  <1>2. \A e \in Nodes : \A n \in DOMAIN entries'[e] : entries'[e][n] = entries[e][n]
    BY Zenon DEF TreeTyped
  <1>3. TreeTyped'
    <2>. DEFINE f == without(entries[d], name)
    <2>. HIDE DEF without, DirInv
    <2>0. entries' = [entries EXCEPT ![d] = f]
      BY Zenon
    <2>1. IsMap(f)
      BY Maps, Zenon
    <2>. HIDE DEF f
    <2>2. /\ DOMAIN f \subseteq Names /\ kind' \in [Nodes -> {"directory", "file", "new"}]
          /\ \A n \in DOMAIN f : f[n] \in Nodes /\ kind'[f[n]] # "new"
      <3>1. DOMAIN f = DOMAIN entries[d] \ {name} /\ \A n \in DOMAIN entries[d] : n # name => f[n] = entries[d][n]
        BY Zenon DEF without, Restrict, f
      <3>. QED  BY <3>1 DEF DirInv, TreeTyped
    <2>. QED  BY <2>0, <2>1, <2>2, TypedTree, Zenon DEF DirInv
  <1>4. RenamesTyped'
    <2>1. \A t \in Movers : rename[t].step \in {"to", "remove"} => rename[t].from \in Nodes /\ rename[t].from # d
      BY UnlockedIsQuiet DEF RenamesTyped, FromFirst, ToFirst, Taken, Idle, Holds
    <2>. QED  BY <1>1, <2>1, Zenon DEF RenamesTyped, Has
  <1>5. LocksOwned'
    BY DEF LocksOwned, Holds
  <1>6. \A e, n : Leaving(e, n)' <=> Leaving(e, n)
    BY Zenon DEF Leaving
  <1>7. OnePlace'
    BY <1>1, <1>2, <1>6 DEF OnePlace
  <1>8. EventsSent'
    BY <1>1, Zenon DEF EventsSent, removed
  <1>. QED  BY <1>3, <1>4, <1>5, <1>7, <1>8, Zenon

\* A rename within one directory.
LEMMA WithinKeeps ==
    ASSUME DirInv, NEW d \in Nodes, NEW src, NEW dst \in Names, rename_within(d, src, dst), UNCHANGED kind
    PROVE  DirInv'
  <1>1. CASE src = dst
    <2>1. UNCHANGED <<entries, lock, rename, kind>>
      BY <1>1, Zenon DEF rename_within
    <2>2. EventsSent'
      BY <1>1, Zenon DEF DirInv, EventsSent, rename_within, Has
    <2>. QED  BY <2>1, <2>2 DEF DirInv, TreeTyped, RenamesTyped, LocksOwned, OnePlace, Holds, Has, Leaving
  <1>2. CASE src # dst
    <2>. USE DEF DirInv
    <2>0. /\ Unlocked(d) /\ Has(d, src) /\ UNCHANGED <<lock, rename>>
          /\ entries' = [entries EXCEPT ![d] = with(without(@, src), dst, entries[d][src])]
          /\ told' = [told EXCEPT ![d] = (@ \ {src}) \cup {dst}]
      BY <1>2, Zenon DEF rename_within
    <2>1. \A e \in Nodes : \A n : n \in DOMAIN entries'[e] <=>
                \/ n \in DOMAIN entries[e] /\ ~(e = d /\ n = src)
                \/ e = d /\ n = dst
      BY <1>2, <2>0, Zenon DEF TreeTyped, with, without, Restrict
    <2>2. \A e \in Nodes : \A n \in DOMAIN entries'[e] :
                entries'[e][n] = IF e = d /\ n = dst THEN entries[d][src] ELSE entries[e][n]
      BY <1>2, <2>0, Zenon DEF TreeTyped, with, without, Restrict
    <2>3. TreeTyped'
      <3>. DEFINE f == with(without(entries[d], src), dst, entries[d][src])
      <3>. DEFINE g == without(entries[d], src)
      <3>. HIDE DEF g, DirInv
      <3>0. entries' = [entries EXCEPT ![d] = f]
        BY <2>0, Zenon DEF g
      <3>1. IsMap(f)
        BY Maps, Zenon
      <3>2. DOMAIN f = DOMAIN g \cup {dst} /\ f[dst] = entries[d][src]
        BY Zenon DEF with, g
      <3>5. \A n \in DOMAIN g : n # dst => f[n] = g[n]
        BY Zenon DEF with, g
      <3>3. DOMAIN g = DOMAIN entries[d] \ {src} /\ \A n \in DOMAIN entries[d] : n # src => g[n] = entries[d][n]
        BY Zenon DEF without, Restrict, g
      <3>. HIDE DEF f
      <3>4. /\ DOMAIN f \subseteq Names /\ kind' \in [Nodes -> {"directory", "file", "new"}]
            /\ \A n \in DOMAIN f : f[n] \in Nodes /\ kind'[f[n]] # "new"
        BY <2>0, <3>2, <3>3, <3>5 DEF DirInv, TreeTyped, Has
      <3>. QED  BY <3>0, <3>1, <3>4, TypedTree, Zenon DEF DirInv
    <2>4. RenamesTyped'
      <3>1. \A t \in Movers : rename[t].step \in {"to", "remove"} => rename[t].from \in Nodes /\ rename[t].from # d
        BY <2>0, UnlockedIsQuiet DEF RenamesTyped, FromFirst, ToFirst, Taken, Idle, Holds
      <3>. QED  BY <2>0, <2>1, <3>1, Zenon DEF RenamesTyped, Has
    <2>5. LocksOwned'
      BY <2>0, Zenon DEF LocksOwned, Holds
    <2>6. \A e, n : Leaving(e, n)' <=> Leaving(e, n)
      BY <2>0, Zenon DEF Leaving
    <2>7. \A n : ~Leaving(d, n)
      BY <2>0, UnlockedIsQuiet, Zenon
    <2>8. OnePlace'
      BY <1>2, <2>0, <2>1, <2>2, <2>6, <2>7 DEF OnePlace, Has
    <2>9. EventsSent'
      BY <2>0, <2>1, Zenon DEF EventsSent
    <2>. QED  BY <2>3, <2>4, <2>5, <2>8, <2>9, Zenon
  <1>. QED  BY <1>1, <1>2, Zenon

\* The record of a rename, by its step.
LEMMA RenameCases ==
    ASSUME RenamesTyped, NEW t \in Movers
    PROVE  /\ rename[t].step \in {"to", "remove"} => rename[t] \in FromFirst
           /\ rename[t].step = "from" => rename[t] \in ToFirst
           /\ rename[t].step = "insert" => rename[t] \in Taken
           /\ rename[t].step \notin {"to", "remove", "from", "insert"} => rename[t] = Idle
           /\ rename[t] = Idle => rename[t].step = "idle"
  BY DEF RenamesTyped, FromFirst, ToFirst, Taken, Idle

\* The first of the two mutexes.
LEMMA LockFirstKeeps ==
    ASSUME DirInv, NEW t \in Movers, rename[t] = Idle,
           NEW from \in Nodes, NEW to \in Nodes, from # to, NEW src \in Sources, NEW dst \in Names,
           NEW first \in {from, to}, lock_first(t, from, src, to, dst, first), UNCHANGED kind
    PROVE  DirInv'
  <1>. DEFINE r == [step |-> IF first = from THEN "to" ELSE "from",
                    from |-> from, src |-> src, to |-> to, dst |-> dst]
  <1>. USE DEF DirInv
  <1>0. /\ Unlocked(first) /\ (first = from => Has(from, src)) /\ lock' = [lock EXCEPT ![first] = t]
        /\ rename' = [rename EXCEPT ![t] = r] /\ UNCHANGED <<kind, entries, told>>
    BY Zenon DEF lock_first
  <1>1. r \in FromFirst \cup ToFirst /\ r.step = (IF first = from THEN "to" ELSE "from")
    BY Zenon DEF FromFirst, ToFirst
  <1>2. r.from = from /\ r.to = to /\ r.src = src
    BY Zenon
  <1>. HIDE DEF r
  <1>3. rename'[t] = r /\ \A u \in Movers \ {t} : rename'[u] = rename[u]
    BY <1>0, Zenon DEF RenamesTyped
  <1>4. TreeTyped' /\ EventsSent'
    BY <1>0 DEF TreeTyped, EventsSent
  <1>5. RenamesTyped'
    BY <1>0, <1>1, <1>2, <1>3, Zenon DEF RenamesTyped, Has
  <1>6. LocksOwned'
    <2>1. \A d \in Nodes : ~Holds(t, d)
      BY DEF Holds, Idle
    <2>2. \A u \in Movers : ~Holds(u, first)
      BY <1>0, UnlockedIsQuiet, Zenon
    <2>3. \A d \in Nodes : Holds(t, d)' <=> d = first
      BY <1>1, <1>2, <1>3 DEF Holds
    <2>4. \A u \in Movers \ {t}, d \in Nodes : Holds(u, d)' <=> Holds(u, d)
      BY <1>3, Zenon DEF Holds
    <2>. QED  BY <1>0, <2>1, <2>2, <2>3, <2>4 DEF LocksOwned
  <1>7. \A d, n : Leaving(d, n)' <=> Leaving(d, n)
    BY <1>1, <1>3 DEF Leaving, Idle
  <1>8. \A u \in Movers : rename'[u].step = "insert" => u # t
    BY <1>1, <1>3, Zenon
  <1>9. OnePlace'
    BY <1>0, <1>3, <1>7, <1>8 DEF OnePlace
  <1>. QED  BY <1>4, <1>5, <1>6, <1>9, Zenon

\* A rename that ends gives up its mutex.
LEMMA FinishUnlocks ==
    ASSUME RenamesTyped, LocksOwned, NEW t \in Movers, NEW d \in Nodes, Holds(t, d), finish(t, d)
    PROVE  /\ LocksOwned'
           /\ rename'[t] = Idle /\ \A u \in Movers \ {t} : rename'[u] = rename[u]
           /\ rename' \in [Movers -> {Idle} \cup FromFirst \cup ToFirst \cup Taken]
  <1>1. /\ rename'[t] = Idle /\ \A u \in Movers \ {t} : rename'[u] = rename[u]
        /\ rename' \in [Movers -> {Idle} \cup FromFirst \cup ToFirst \cup Taken]
    BY Zenon DEF finish, RenamesTyped
  <1>2. \A e \in Nodes : Holds(t, e) => e = d
    BY Zenon DEF LocksOwned, Holds
  <1>3. \A u \in Movers \ {t}, e \in Nodes : Holds(u, e)' <=> Holds(u, e)
    BY <1>1, Zenon DEF Holds
  <1>4. \A e \in Nodes : ~Holds(t, e)'
    BY <1>1 DEF Holds, Idle
  <1>. QED  BY <1>1, <1>2, <1>3, <1>4, DirectoryAssumption DEF LocksOwned, finish, Free

\* A rename that fails with one mutex held leaves the tree as it was.
LEMMA FailKeeps ==
    ASSUME DirInv, NEW t \in Movers, NEW d \in Nodes, Holds(t, d), finish(t, d),
           rename[t].step \in {"to", "from"}, UNCHANGED <<kind, entries, told>>
    PROVE  DirInv'
  <1>. USE DEF DirInv
  <1>1. /\ LocksOwned' /\ rename'[t] = Idle /\ \A u \in Movers \ {t} : rename'[u] = rename[u]
        /\ rename' \in [Movers -> {Idle} \cup FromFirst \cup ToFirst \cup Taken]
    BY FinishUnlocks, Zenon
  <1>2. TreeTyped' /\ EventsSent'
    BY Zenon DEF TreeTyped, EventsSent
  <1>3. RenamesTyped'
    BY <1>1 DEF RenamesTyped, Has, Idle
  <1>4. \A e, n : Leaving(e, n)' <=> Leaving(e, n)
    BY <1>1 DEF Leaving, Idle
  <1>5. \A u \in Movers : rename'[u].step = "insert" => u # t
    BY <1>1 DEF Idle
  <1>6. OnePlace'
    BY <1>1, <1>4, <1>5 DEF OnePlace
  <1>. QED  BY <1>1, <1>2, <1>3, <1>6, Zenon

\* The entry is added to the destination: its old place, under the mutex that the
\* rename holds, no longer counts.
LEMMA RenameToKeeps ==
    ASSUME DirInv, NEW t \in Movers, RenameTo(t)
    PROVE  DirInv'
  <1>. DEFINE r == rename[t]
              node == entries[r.from][r.src]
              f == with(entries[r.to], r.dst, node)
  <1>. HIDE DEF r, node, f
  <1>. USE DEF DirInv
  <1>1. /\ r \in FromFirst /\ r.step = "to" /\ Holds(t, r.from) /\ Has(r.from, r.src) /\ r.from # r.to
        /\ Unlocked(r.to) /\ UNCHANGED kind
    BY RenameCases, Zenon DEF RenameTo, Holds, RenamesTyped, r
  <1>2. r.from \in Nodes /\ r.to \in Nodes /\ r.dst \in Names /\ r.src \in Sources
    BY <1>1, Zenon DEF FromFirst
  <1>3. CASE finish(t, r.from) /\ UNCHANGED <<entries, told>>
    BY <1>1, <1>2, <1>3, FailKeeps, Zenon DEF r
  <1>4. CASE /\ add_entry_impl(r.to, r.dst, node, TRUE)
             /\ rename' = [rename EXCEPT ![t] = [r EXCEPT !.step = "remove"]]
             /\ UNCHANGED lock
    <2>1. entries' = [entries EXCEPT ![r.to] = f] /\ told' = [told EXCEPT ![r.to] = @ \cup {r.dst}]
      BY <1>4, Zenon DEF add_entry_impl, insert, added, f
    <2>2. DOMAIN f = DOMAIN entries[r.to] \cup {r.dst} /\ f[r.dst] = node
      BY Zenon DEF f, with
    <2>3. \A n \in DOMAIN entries[r.to] : n # r.dst => f[n] = entries[r.to][n]
      BY Zenon DEF f, with
    <2>4. IsMap(f)
      BY Maps, Zenon DEF f
    <2>5. node \in Nodes /\ kind[node] # "new"
      BY <1>1, <1>2, Zenon DEF TreeTyped, Has, node
    <2>6. TreeTyped'
      <3>1. DOMAIN f \subseteq Names /\ \A n \in DOMAIN f : f[n] \in Nodes /\ kind'[f[n]] # "new"
        BY <1>1, <1>2, <2>2, <2>3, <2>5 DEF TreeTyped
      <3>2. kind' \in [Nodes -> {"directory", "file", "new"}]
        BY <1>1, Zenon DEF TreeTyped
      <3>. QED  BY <1>1, <1>2, <2>1, <2>4, <3>1, <3>2, TypedTree, Zenon
    <2>7. entries'[r.to] = f /\ \A d \in Nodes \ {r.to} : entries'[d] = entries[d]
      BY <1>2, <2>1, Zenon DEF TreeTyped
    <2>8. /\ rename'[t] \in FromFirst /\ rename'[t].step = "remove" /\ rename'[t].from = r.from
          /\ rename'[t].src = r.src /\ rename'[t].to = r.to
          /\ \A u \in Movers \ {t} : rename'[u] = rename[u]
          /\ rename' \in [Movers -> {Idle} \cup FromFirst \cup ToFirst \cup Taken]
      BY <1>1, <1>2, <1>4, Zenon DEF FromFirst, RenamesTyped
    <2>9. RenamesTyped'
      <3>1. \A u \in Movers : rename[u].step \in {"to", "remove"} => rename[u].from \in Nodes
        BY RenameCases, Zenon DEF FromFirst
      <3>2. \A d \in Nodes : DOMAIN entries[d] \subseteq DOMAIN entries'[d]
        BY <2>2, <2>7, Zenon
      <3>. QED  BY <1>1, <1>2, <2>8, <3>1, <3>2 DEF RenamesTyped, Has
    <2>10. LocksOwned'
      BY <1>1, <1>4, <2>8 DEF LocksOwned, Holds, r
    <2>11. EventsSent'
      BY <1>2, <2>1, <2>2, <2>7, Zenon DEF EventsSent
    <2>12. \A d, n : Leaving(d, n)' <=> Leaving(d, n) \/ (d = r.from /\ n = r.src)
      BY <1>1, <2>8 DEF Leaving, r
    <2>13. /\ \A n : ~Leaving(r.to, n)
           /\ ~Leaving(r.from, r.src)
      BY <1>1, <1>2, UnlockedIsQuiet DEF LocksOwned, Holds, Leaving, r
    <2>14. ASSUME NEW d \in Nodes, NEW n \in DOMAIN entries'[d], ~Leaving(d, n)', ~(d = r.to /\ n = r.dst)
           PROVE  n \in DOMAIN entries[d] /\ entries'[d][n] = entries[d][n] /\ entries[d][n] # node /\ ~Leaving(d, n)
      <3>1. n \in DOMAIN entries[d] /\ entries'[d][n] = entries[d][n]
        BY <2>2, <2>3, <2>7, <2>14, Zenon
      <3>2. ~Leaving(d, n) /\ ~(d = r.from /\ n = r.src)
        BY <2>12, <2>14, Zenon
      <3>. QED  BY <1>1, <1>2, <2>13, <3>1, <3>2, Zenon DEF OnePlace, Has, node
    <2>15. \A u \in Movers : rename'[u].step = "insert" => rename[u].step = "insert" /\ rename'[u] = rename[u] /\ u # t
      BY <2>8, Zenon
    <2>16. \A u \in Movers : rename[u].step = "insert" => rename[u].entry # node
      BY <1>1, <1>2, <2>13, Zenon DEF OnePlace, Has, node
    <2>17. entries'[r.to][r.dst] = node
      BY <2>2, <2>7, Zenon
    <2>18. OnePlace'
      <3>1. ASSUME NEW d \in Nodes, NEW e \in Nodes, NEW n \in DOMAIN entries'[d], NEW m \in DOMAIN entries'[e],
                   entries'[d][n] = entries'[e][m], ~Leaving(d, n)', ~Leaving(e, m)'
            PROVE  d = e /\ n = m
        BY <2>14, <2>17, <3>1 DEF OnePlace
      <3>2. ASSUME NEW u \in Movers, rename'[u].step = "insert", NEW d \in Nodes, NEW n \in DOMAIN entries'[d],
                   entries'[d][n] = rename'[u].entry
            PROVE  Leaving(d, n)'
        BY <2>14, <2>15, <2>16, <2>17, <3>2 DEF OnePlace
      <3>3. \A u, v \in Movers : rename'[u].step = "insert" /\ rename'[v].step = "insert" /\ rename'[v].entry = rename'[u].entry => v = u
        BY <2>15, Zenon DEF OnePlace
      <3>. QED  BY <3>1, <3>2, <3>3 DEF OnePlace
    <2>. QED  BY <2>6, <2>9, <2>10, <2>11, <2>18, Zenon
  <1>. QED  BY <1>3, <1>4, Zenon DEF RenameTo, r, node

\* The old place goes.
LEMMA RenameRemoveKeeps ==
    ASSUME DirInv, NEW t \in Movers, RenameRemove(t)
    PROVE  DirInv'
  <1>. DEFINE r == rename[t]
              f == without(entries[r.from], r.src)
  <1>. HIDE DEF r, f
  <1>. USE DEF DirInv
  <1>1. /\ r \in FromFirst /\ r.step = "remove" /\ Holds(t, r.from)
        /\ entries' = [entries EXCEPT ![r.from] = f] /\ told' = [told EXCEPT ![r.from] = @ \ {r.src}]
        /\ finish(t, r.from) /\ UNCHANGED kind
    BY RenameCases, Zenon DEF RenameRemove, Holds, removed, r, f
  <1>2. r.from \in Nodes
    BY <1>1, Zenon DEF FromFirst
  <1>3. DOMAIN f = DOMAIN entries[r.from] \ {r.src}
    BY Zenon DEF f, without, Restrict
  <1>4. \A n \in DOMAIN entries[r.from] : n # r.src => f[n] = entries[r.from][n]
    BY Zenon DEF f, without, Restrict
  <1>5. TreeTyped'
    <2>1. IsMap(f)
      BY Maps, Zenon DEF f
    <2>2. /\ DOMAIN f \subseteq Names /\ kind' \in [Nodes -> {"directory", "file", "new"}]
          /\ \A n \in DOMAIN f : f[n] \in Nodes /\ kind'[f[n]] # "new"
      BY <1>1, <1>2, <1>3, <1>4 DEF TreeTyped
    <2>. QED  BY <1>1, <1>2, <2>1, <2>2, TypedTree, Zenon
  <1>6. entries'[r.from] = f /\ \A d \in Nodes \ {r.from} : entries'[d] = entries[d]
    BY <1>1, <1>2, Zenon DEF TreeTyped
  <1>7. /\ LocksOwned' /\ rename'[t] = Idle /\ \A u \in Movers \ {t} : rename'[u] = rename[u]
        /\ rename' \in [Movers -> {Idle} \cup FromFirst \cup ToFirst \cup Taken]
    BY <1>1, <1>2, FinishUnlocks, Zenon
  <1>8. RenamesTyped'
    <2>1. \A u \in Movers \ {t} : rename[u].step \in {"to", "remove"} => rename[u].from \in Nodes \ {r.from}
      BY <1>1, <1>2, RenameCases DEF FromFirst, LocksOwned, Holds
    <2>. QED  BY <1>1, <1>6, <1>7, <2>1 DEF RenamesTyped, Has, Idle
  <1>9. EventsSent'
    BY <1>1, <1>2, <1>3, <1>6, Zenon DEF EventsSent
  <1>10. \A d, n : Leaving(d, n)' \/ (d = r.from /\ n = r.src) <=> Leaving(d, n)
    BY <1>1, <1>7 DEF Leaving, Idle, r
  <1>11. ASSUME NEW d \in Nodes, NEW n \in DOMAIN entries'[d]
         PROVE  n \in DOMAIN entries[d] /\ entries'[d][n] = entries[d][n] /\ (Leaving(d, n)' <=> Leaving(d, n))
    BY <1>3, <1>4, <1>6, <1>10, <1>11, Zenon
  <1>12. \A u \in Movers : rename'[u].step = "insert" => rename[u].step = "insert" /\ rename'[u] = rename[u]
    BY <1>7 DEF Idle
  <1>13. OnePlace'
    BY <1>11, <1>12 DEF OnePlace
  <1>. QED  BY <1>5, <1>7, <1>8, <1>9, <1>13, Zenon

\* The entry is taken from the source: the rename carries it.
LEMMA RenameFromKeeps ==
    ASSUME DirInv, NEW t \in Movers, RenameFrom(t)
    PROVE  DirInv'
  <1>. DEFINE r == rename[t]
              node == entries[r.from][r.src]
              f == without(entries[r.from], r.src)
              taken == [step |-> "insert", to |-> r.to, dst |-> r.dst, entry |-> node]
  <1>. HIDE DEF r, node, f, taken
  <1>. USE DEF DirInv
  <1>1. r \in ToFirst /\ r.step = "from" /\ Holds(t, r.to) /\ Unlocked(r.from) /\ UNCHANGED kind
    BY RenameCases, Zenon DEF RenameFrom, Holds, RenamesTyped, r
  <1>2. r.from \in Nodes /\ r.to \in Nodes /\ r.dst \in Names
    BY <1>1, Zenon DEF ToFirst
  <1>3. CASE finish(t, r.to) /\ UNCHANGED <<entries, told>>
    BY <1>1, <1>2, <1>3, FailKeeps, Zenon DEF r
  <1>4. CASE remove_entry_impl(r.from, r.src, FALSE) /\ rename' = [rename EXCEPT ![t] = taken] /\ UNCHANGED lock
    <2>1. /\ entries' = [entries EXCEPT ![r.from] = f] /\ told' = [told EXCEPT ![r.from] = @ \ {r.src}]
          /\ Has(r.from, r.src)
      BY <1>4, Zenon DEF remove_entry_impl, removed, f
    <2>2. DOMAIN f = DOMAIN entries[r.from] \ {r.src}
      BY Zenon DEF f, without, Restrict
    <2>3. \A n \in DOMAIN entries[r.from] : n # r.src => f[n] = entries[r.from][n]
      BY Zenon DEF f, without, Restrict
    <2>4. node \in Nodes /\ kind[node] # "new"
      BY <1>2, <2>1, Zenon DEF TreeTyped, Has, node
    <2>5. TreeTyped'
      <3>1. IsMap(f)
        BY Maps, Zenon DEF f
      <3>2. /\ DOMAIN f \subseteq Names /\ kind' \in [Nodes -> {"directory", "file", "new"}]
            /\ \A n \in DOMAIN f : f[n] \in Nodes /\ kind'[f[n]] # "new"
        BY <1>1, <1>2, <2>2, <2>3 DEF TreeTyped
      <3>. QED  BY <1>1, <1>2, <2>1, <3>1, <3>2, TypedTree, Zenon
    <2>6. entries'[r.from] = f /\ \A d \in Nodes \ {r.from} : entries'[d] = entries[d]
      BY <1>2, <2>1, Zenon DEF TreeTyped
    <2>7. /\ taken \in Taken /\ taken.step = "insert" /\ taken.to = r.to /\ taken.entry = node
          /\ rename'[t] = taken /\ \A u \in Movers \ {t} : rename'[u] = rename[u]
      BY <1>2, <1>4, <2>4, Zenon DEF Taken, taken, RenamesTyped
    <2>8. rename' \in [Movers -> {Idle} \cup FromFirst \cup ToFirst \cup Taken]
      BY <1>4, <2>7, Zenon DEF RenamesTyped
    <2>9. \A u \in Movers : ~Holds(u, r.from)
      BY <1>1, <1>2, UnlockedIsQuiet, Zenon
    <2>10. RenamesTyped'
      <3>1. \A u \in Movers : rename[u].step \in {"to", "remove"} => rename[u].from \in Nodes \ {r.from}
        BY <2>9, RenameCases, Zenon DEF FromFirst, Holds
      <3>. QED  BY <1>1, <2>4, <2>6, <2>7, <2>8, <3>1 DEF RenamesTyped, Has
    <2>11. LocksOwned'
      BY <1>1, <1>4, <2>7 DEF LocksOwned, Holds, r
    <2>12. EventsSent'
      BY <1>2, <2>1, <2>2, <2>6, Zenon DEF EventsSent
    <2>13. \A d, n : Leaving(d, n)' <=> Leaving(d, n)
      BY <1>1, <2>7, Zenon DEF Leaving, r
    <2>14. ~Leaving(r.from, r.src)
      BY <2>9, Zenon DEF Leaving, Holds
    <2>15. ASSUME NEW d \in Nodes, NEW n \in DOMAIN entries'[d]
           PROVE  n \in DOMAIN entries[d] /\ entries'[d][n] = entries[d][n] /\ ~(d = r.from /\ n = r.src)
      BY <2>2, <2>3, <2>6, <2>15, Zenon
    <2>16. \A d \in Nodes : \A n \in DOMAIN entries'[d] : entries'[d][n] = node => Leaving(d, n)
      BY <1>2, <2>1, <2>14, <2>15 DEF OnePlace, Has, node
    <2>17. \A u \in Movers : rename[u].step = "insert" => rename[u].entry # node
      BY <1>2, <2>1, <2>14, Zenon DEF OnePlace, Has, node
    <2>18. OnePlace'
      BY <2>7, <2>13, <2>15, <2>16, <2>17 DEF OnePlace
    <2>. QED  BY <2>5, <2>10, <2>11, <2>12, <2>18, Zenon
  <1>. QED  BY <1>3, <1>4, Zenon DEF RenameFrom, r, node, taken

\* The entry that the rename carries is put down.
LEMMA RenameInsertKeeps ==
    ASSUME DirInv, NEW t \in Movers, RenameInsert(t)
    PROVE  DirInv'
  <1>. DEFINE r == rename[t]
              f == with(entries[r.to], r.dst, r.entry)
  <1>. HIDE DEF r, f
  <1>. USE DEF DirInv
  <1>1. /\ r \in Taken /\ r.step = "insert" /\ Holds(t, r.to) /\ kind[r.entry] # "new"
        /\ entries' = [entries EXCEPT ![r.to] = f] /\ told' = [told EXCEPT ![r.to] = @ \cup {r.dst}]
        /\ finish(t, r.to) /\ UNCHANGED kind
    BY RenameCases, Zenon DEF RenameInsert, Holds, RenamesTyped, insert, added, r, f
  <1>2. r.to \in Nodes /\ r.dst \in Names /\ r.entry \in Nodes
    BY <1>1, Zenon DEF Taken
  <1>3. DOMAIN f = DOMAIN entries[r.to] \cup {r.dst} /\ f[r.dst] = r.entry
    BY Zenon DEF f, with
  <1>4. \A n \in DOMAIN entries[r.to] : n # r.dst => f[n] = entries[r.to][n]
    BY Zenon DEF f, with
  <1>5. TreeTyped'
    <2>1. IsMap(f)
      BY Maps, Zenon DEF f
    <2>2. /\ DOMAIN f \subseteq Names /\ kind' \in [Nodes -> {"directory", "file", "new"}]
          /\ \A n \in DOMAIN f : f[n] \in Nodes /\ kind'[f[n]] # "new"
      BY <1>1, <1>2, <1>3, <1>4, Zenon DEF TreeTyped
    <2>. QED  BY <1>1, <1>2, <2>1, <2>2, TypedTree, Zenon
  <1>6. entries'[r.to] = f /\ \A d \in Nodes \ {r.to} : entries'[d] = entries[d]
    BY <1>1, <1>2, Zenon DEF TreeTyped
  <1>7. /\ LocksOwned' /\ rename'[t] = Idle /\ \A u \in Movers \ {t} : rename'[u] = rename[u]
        /\ rename' \in [Movers -> {Idle} \cup FromFirst \cup ToFirst \cup Taken]
    BY <1>1, <1>2, FinishUnlocks, Zenon
  <1>8. RenamesTyped'
    <2>1. \A u \in Movers : rename[u].step \in {"to", "remove"} => rename[u].from \in Nodes
      BY RenameCases, Zenon DEF FromFirst
    <2>2. \A d \in Nodes : DOMAIN entries[d] \subseteq DOMAIN entries'[d]
      BY <1>3, <1>6, Zenon
    <2>. QED  BY <1>1, <1>7, <2>1, <2>2 DEF RenamesTyped, Has, Idle
  <1>9. EventsSent'
    BY <1>1, <1>2, <1>3, <1>6, Zenon DEF EventsSent
  <1>10. \A d, n : Leaving(d, n)' <=> Leaving(d, n)
    BY <1>1, <1>7 DEF Leaving, Idle, r
  <1>11. ASSUME NEW d \in Nodes, NEW n \in DOMAIN entries'[d], ~(d = r.to /\ n = r.dst)
         PROVE  n \in DOMAIN entries[d] /\ entries'[d][n] = entries[d][n] /\ (entries[d][n] = r.entry => Leaving(d, n))
    <2>1. n \in DOMAIN entries[d] /\ entries'[d][n] = entries[d][n]
      BY <1>3, <1>4, <1>6, <1>11, Zenon
    <2>. QED  BY <1>1, <2>1, Zenon DEF OnePlace, r
  <1>12. entries'[r.to][r.dst] = r.entry
    BY <1>3, <1>6, Zenon
  <1>13. \A u \in Movers : rename'[u].step = "insert" =>
            rename[u].step = "insert" /\ rename'[u] = rename[u] /\ rename[u].entry # r.entry
    BY <1>1, <1>7 DEF Idle, OnePlace, r
  <1>14. OnePlace'
    <2>1. ASSUME NEW d \in Nodes, NEW e \in Nodes, NEW n \in DOMAIN entries'[d], NEW m \in DOMAIN entries'[e],
                 entries'[d][n] = entries'[e][m], ~Leaving(d, n)', ~Leaving(e, m)'
          PROVE  d = e /\ n = m
      BY <1>10, <1>11, <1>12, <2>1 DEF OnePlace
    <2>2. ASSUME NEW u \in Movers, rename'[u].step = "insert", NEW d \in Nodes, NEW n \in DOMAIN entries'[d],
                 entries'[d][n] = rename'[u].entry
          PROVE  Leaving(d, n)'
      BY <1>10, <1>11, <1>12, <1>13, <2>2 DEF OnePlace
    <2>3. \A u, v \in Movers : rename'[u].step = "insert" /\ rename'[v].step = "insert" /\ rename'[v].entry = rename'[u].entry => v = u
      BY <1>13 DEF OnePlace
    <2>. QED  BY <2>1, <2>2, <2>3 DEF OnePlace
  <1>. QED  BY <1>5, <1>7, <1>8, <1>9, <1>14, Zenon

-----------------------------------------------------------------------------
(***************************************************************************)
(* Connections: their rights, the paths they resolve, and their listings.  *)
(***************************************************************************)

\* handle_open passes on no right that the connection itself does not have, and no
\* POSIX flag that would become one.
LEMMA OpenRights ==
    ASSUME NEW parent_flags, parent_flags \cap FS_RIGHTS \subseteq granted, NEW flags, NEW mode,
           check_child_connection_flags(parent_flags, flags, mode).status = "OK"
    PROVE  RightsOK(check_child_connection_flags(parent_flags, flags, mode).value.flags)
  <1>. DEFINE posix == IF "POSIX_DEPRECATED" \in flags
                       THEN {"POSIX_WRITABLE", "POSIX_EXECUTABLE"} ELSE flags \cap PosixFlags
              soft == {f \in posix :
                          \/ f = "POSIX_WRITABLE" /\ "RIGHT_WRITABLE" \in parent_flags
                          \/ f = "POSIX_EXECUTABLE" /\ "RIGHT_EXECUTABLE" \in parent_flags}
              checked == (flags \ PosixFlags) \cup soft
  <1>1. /\ check_child_connection_flags(parent_flags, flags, mode).value.flags = checked
        /\ flags \cap FS_RIGHTS \subseteq parent_flags
    BY Zenon DEF check_child_connection_flags, Ok, Err, stricter_or_same_rights
  <1>. QED  BY <1>1, Zenon DEF RightsOK, FS_RIGHTS, PosixFlags

\* handle_clone neither.
LEMMA CloneRights ==
    ASSUME NEW parent_flags, parent_flags \cap FS_RIGHTS \subseteq granted, NEW flags,
           inherit_rights_for_clone(parent_flags, flags).status = "OK"
    PROVE  RightsOK(inherit_rights_for_clone(parent_flags, flags).value)
  <1>. DEFINE same == "CLONE_SAME_RIGHTS" \in flags
              kept == flags \cup (parent_flags \cap {"APPEND", "NODE_REFERENCE"})
              inherited == IF same
                     THEN (kept \ {"CLONE_SAME_RIGHTS"}) \cup (parent_flags \cap FS_RIGHTS)
                     ELSE kept
  <1>1. /\ inherit_rights_for_clone(parent_flags, flags).value = inherited \ PosixFlags
        /\ inherited \cap FS_RIGHTS \subseteq parent_flags
    BY Zenon DEF inherit_rights_for_clone, Ok, Err, stricter_or_same_rights
  <1>. HIDE DEF inherited
  <1>. QED  BY <1>1, Zenon DEF RightsOK, FS_RIGHTS, PosixFlags

\* What the POSIX flags are expanded to was checked before.
LEMMA PreparedConn ==
    ASSUME NEW d \in Nodes, NEW flags, RightsOK(flags)
    PROVE  \/ prepare_connection(d, flags) = Unused
           \/ ServingConn(prepare_connection(d, flags)) /\ prepare_connection(d, flags).seek = Start
  <1>. DEFINE masked == IF "NODE_REFERENCE" \in flags
                        THEN flags \cap OPEN_FLAGS_ALLOWED_WITH_NODE_REFERENCE ELSE flags
              posix == masked \cap PosixFlags
              expanded == masked
                    \cup (IF posix \cap {"POSIX_DEPRECATED", "POSIX_EXECUTABLE"} # {}
                          THEN {"RIGHT_EXECUTABLE"} ELSE {})
                    \cup (IF posix \cap {"POSIX_DEPRECATED", "POSIX_WRITABLE"} # {}
                          THEN {"RIGHT_WRITABLE"} ELSE {})
              valid == directory_new_connection_validate_flags(flags)
  <1>1. valid.status = "OK" => valid.value = expanded \ (PosixFlags \cup {"DIRECTORY"})
    BY Zenon DEF directory_new_connection_validate_flags, Ok, Err
  <1>2. masked \subseteq flags
    BY Zenon
  <1>. HIDE DEF masked
  <1>3. expanded \cap FS_RIGHTS \subseteq granted
    BY <1>2, Zenon DEF RightsOK, FS_RIGHTS, PosixFlags
  <1>. HIDE DEF expanded, valid
  <1>4. valid.status = "OK" => valid.value \cap FS_RIGHTS \subseteq granted
    BY <1>1, <1>3, Zenon
  <1>5. Start \in Start..End
    BY DirectoryAssumption DEF Start, End
  <1>. QED  BY <1>4, <1>5, Zenon DEF prepare_connection, ServingConn, valid

\* A text whose components are names, or are refused in a path.
Refused == {"", ".", ".."}
TextOK(text) ==
    /\ text \in Seq(STRING)
    /\ \A i \in DOMAIN text : text[i] \in Refused \/ <<text[i]>> \in Names

\* So is what is left of it without its first or its last component.
LEMMA Shortened ==
    ASSUME NEW text, TextOK(text), text # <<>>
    PROVE  TextOK(Tail(text)) /\ TextOK(SubSeq(text, 1, Len(text) - 1))
  <1>1. TextOK(Tail(text))
    BY DEF TextOK
  <1>2. TextOK(SubSeq(text, 1, Len(text) - 1))
    BY DEF TextOK
  <1>. QED  BY <1>1, <1>2, Zenon

\* The path of an Open has only names in it that a directory may hold.
LEMMA SplitPath ==
    ASSUME NEW text, TextOK(text), text # <<>>, validate_and_split(text).status = "OK"
    PROVE  PathOK(validate_and_split(text).value)
  <1>. DEFINE is_dir == Len(text) > 1 /\ text[Len(text)] = ""
              leading == Len(text) > 1 /\ Head(text) = ""
              from == IF leading THEN Tail(text) ELSE text
              check == IF is_dir THEN SubSeq(from, 1, Len(from) - 1) ELSE from
  <1>0. text \notin LongPaths
    BY DEF validate_and_split
  <1>1. CASE text \in {<<".">>, <<"", "">>}
    <2>1. validate_and_split(text).value = Dot
      BY <1>0, <1>1, Zenon DEF validate_and_split
    <2>. QED  BY <2>1 DEF PathOK, Dot
  <1>2. CASE text \notin {<<".">>, <<"", "">>}
    <2>1. \A i \in DOMAIN check : check[i] \notin Refused
      BY <1>0, <1>2, Zenon DEF validate_and_split, Refused
    <2>2. validate_and_split(text).value = [is_dir |-> is_dir, rest |-> check]
      BY <1>0, <1>2, <2>1, Zenon DEF validate_and_split, Refused
    <2>3. ASSUME NEW b, NEW s, NEW path, path = [is_dir |-> b, rest |-> s]
          PROVE  path.rest = s /\ path = [is_dir |-> path.is_dir, rest |-> path.rest]
      BY <2>3, Zenon
    <2>4. /\ validate_and_split(text).value.rest = check
          /\ validate_and_split(text).value = [is_dir |-> validate_and_split(text).value.is_dir,
                                               rest |-> validate_and_split(text).value.rest]
      <3>. HIDE DEF is_dir, check
      <3>. QED  BY <2>2, <2>3
    <2>5. TextOK(Tail(text))
      BY Shortened, Zenon DEF TextOK
    <2>6. TextOK(from) /\ from # <<>>
      <3>1. leading => Len(text) > 1
        BY Zenon
      <3>. HIDE DEF leading
      <3>2. Len(text) > 1 => Tail(text) # <<>>
        BY DEF TextOK
      <3>. QED  BY <2>5, <3>1, <3>2, Zenon
    <2>. HIDE DEF from
    <2>7. TextOK(SubSeq(from, 1, Len(from) - 1))
      BY <2>6, Shortened, Zenon DEF TextOK
    <2>8. TextOK(check)
      BY <2>6, <2>7, Zenon
    <2>. HIDE DEF check
    <2>. QED  BY <2>1, <2>4, <2>8, Zenon DEF PathOK, TextOK
  <1>. QED  BY <1>1, <1>2, Zenon

\* Going on along a path.
LEMMA NextOnPath ==
    ASSUME NEW path, PathOK(path), ~is_empty(path)
    PROVE  next_component(path) \in Names /\ PathOK(after_next(path))
  <1>1. path.rest \in Seq(STRING) /\ path.rest # <<>>
    BY Zenon DEF PathOK, is_empty
  <1>2. after_next(path) = [is_dir |-> path.is_dir, rest |-> Tail(path.rest)]
    <2>1. PICK b, s : path = [is_dir |-> b, rest |-> s]
      BY Zenon DEF PathOK
    <2>2. ASSUME NEW u PROVE [path EXCEPT !.rest = u] = [is_dir |-> b, rest |-> u]
      BY <2>1
    <2>3. path.is_dir = b
      BY <2>1, Zenon
    <2>. QED  BY <2>2, <2>3, Zenon DEF after_next
  <1>3. ASSUME NEW s \in Seq(STRING), s # <<>>, \A i \in DOMAIN s : <<s[i]>> \in Names
        PROVE  /\ <<Head(s)>> \in Names /\ Tail(s) \in Seq(STRING)
               /\ \A i \in DOMAIN Tail(s) : <<Tail(s)[i]>> \in Names
    <2>1. <<Head(s)>> \in Names
      BY <1>3
    <2>2. Tail(s) \in Seq(STRING)
      BY <1>3
    <2>3. \A i \in DOMAIN Tail(s) : i + 1 \in DOMAIN s /\ Tail(s)[i] = s[i + 1]
      BY <1>3
    <2>. QED  BY <1>3, <2>1, <2>2, <2>3, Zenon
  <1>4. /\ <<Head(path.rest)>> \in Names /\ Tail(path.rest) \in Seq(STRING)
        /\ \A i \in DOMAIN Tail(path.rest) : <<Tail(path.rest)[i]>> \in Names
    BY <1>1, <1>3, Zenon DEF PathOK
  <1>. QED  BY <1>2, <1>4 DEF PathOK, next_component

\* A connection that is in the middle of a listing is not touched.
ConnStays == \A c \in Movers : Serving(c)' /\ conn'[c].seek # Start => conn'[c] = conn[c]

\* A connection is dropped, starts to serve, or goes on along its path.
Becomes(v) == v = Unused \/ (ServingConn(v) /\ v.seek = Start) \/ OpeningConn(v)

\* Either way, the rights of the connections and the listings in progress are kept.
LEMMA BecomesKeeps ==
    ASSUME ConnsOK, UNCHANGED <<granted, tokens>>, NEW c \in Movers, NEW v,
           conn' = [conn EXCEPT ![c] = v], Becomes(v)
    PROVE  ConnsOK' /\ ConnStays
  <1>1. /\ conn' = [b \in Movers |-> conn'[b]] /\ conn'[c] = v
        /\ \A b \in Movers \ {c} : conn'[b] = conn[b]
    BY Zenon DEF ConnsOK
  <1>2. \A r : (ServingConn(r)' <=> ServingConn(r)) /\ (OpeningConn(r)' <=> OpeningConn(r))
    BY Zenon DEF ServingConn, OpeningConn, RightsOK
  <1>3. ConnsOK'
    BY <1>1, <1>2, Zenon DEF ConnsOK, Becomes
  <1>4. ConnStays
    BY <1>1 DEF ConnStays, Serving, Becomes, Unused, OpeningConn
  <1>. QED  BY <1>3, <1>4, Zenon

\* What is known of a connection in a step.
LEMMA ConnCases ==
    ASSUME ConnsOK, NEW c \in Movers
    PROVE  /\ Serving(c) => ServingConn(conn[c])
           /\ conn[c].step = "opening" => OpeningConn(conn[c])
  BY DEF ConnsOK, ServingConn, OpeningConn, Serving, Unused

\* Open and Clone, up to what they do to the directories.
LEMMA OpensKeep ==
    ASSUME Inv, UNCHANGED granted, NEW c \in Movers, NEW new \in Movers,
           OpenHere(c) \/ OpenExisting(c) \/ OpenMissing(c) \/ handle_clone(c, new) \/ handle_open(c, new)
    PROVE  ConnsOK' /\ ConnStays
  <1>. USE DEF Inv
  <1>. DEFINE o == conn[c]
  <1>1. ASSUME NEW node \in Nodes, NEW type, o.step = "opening", ~is_empty(o.path),
               open_entry(c, node, type, after_next(o.path)), UNCHANGED tokens
        PROVE  ConnsOK' /\ ConnStays
    <2>. DEFINE v == IF type = "file" THEN Unused ELSE [o EXCEPT !.at = node, !.path = after_next(o.path)]
    <2>1. conn' = [conn EXCEPT ![c] = v]
      BY <1>1, Zenon DEF open_entry
    <2>2. OpeningConn(o)
      BY <1>1, ConnCases, Zenon
    <2>3. PathOK(after_next(o.path))
      BY <1>1, <2>2, NextOnPath, Zenon DEF OpeningConn
    <2>4. OpeningConn([o EXCEPT !.at = node, !.path = after_next(o.path)])
      <3>. DEFINE p == after_next(o.path)
      <3>. HIDE DEF o, p
      <3>1. [o EXCEPT !.at = node, !.path = p] =
                [step |-> "opening", by |-> o.by, at |-> node, path |-> p, flags |-> o.flags, mode |-> o.mode]
        <4>1. PICK by, at, path, flags, mode :
                 o = [step |-> "opening", by |-> by, at |-> at, path |-> path, flags |-> flags, mode |-> mode]
          BY <2>2, Zenon DEF OpeningConn
        <4>2. [o EXCEPT !.at = node, !.path = p] =
                 [step |-> "opening", by |-> by, at |-> node, path |-> p, flags |-> flags, mode |-> mode]
          <5>1. [o EXCEPT !.at = node, !.path = p] = [[o EXCEPT !.at = node] EXCEPT !.path = p]
            BY Zenon
          <5>2. [o EXCEPT !.at = node] =
                   [step |-> "opening", by |-> by, at |-> node, path |-> path, flags |-> flags, mode |-> mode]
            BY <4>1
          <5>3. ASSUME NEW w, w = [step |-> "opening", by |-> by, at |-> node, path |-> path, flags |-> flags, mode |-> mode]
                PROVE  [w EXCEPT !.path = p] =
                          [step |-> "opening", by |-> by, at |-> node, path |-> p, flags |-> flags, mode |-> mode]
            BY <5>3
          <5>. QED  BY <5>1, <5>2, <5>3, Zenon
        <4>3. o.by = by /\ o.flags = flags /\ o.mode = mode
          BY <4>1, Zenon
        <4>. QED  BY <4>2, <4>3, Zenon
      <3>2. PathOK(p)
        BY <2>3, Zenon DEF p
      <3>. DEFINE w == [step |-> "opening", by |-> o.by, at |-> node, path |-> p, flags |-> o.flags, mode |-> o.mode]
      <3>3. OpeningConn(w)
        BY <2>2, <3>2, Zenon DEF OpeningConn
      <3>. QED  BY <3>1, <3>3, Zenon DEF p
    <2>. HIDE DEF o
    <2>5. Becomes(v)
      BY <2>4, Zenon DEF Becomes
    <2>. HIDE DEF v
    <2>. QED  BY <1>1, <2>1, <2>5, BecomesKeeps, Zenon
  <1>2. CASE OpenHere(c)
    <2>1. /\ o.step = "opening" /\ conn' = [conn EXCEPT ![c] = prepare_connection(o.at, o.flags)]
          /\ UNCHANGED tokens
      BY <1>2, Zenon DEF OpenHere, create_connection
    <2>2. OpeningConn(o)
      BY <2>1, ConnCases, Zenon
    <2>3. Becomes(prepare_connection(o.at, o.flags))
      BY <2>2, PreparedConn, Zenon DEF Becomes, OpeningConn
    <2>. QED  BY <2>1, <2>3, BecomesKeeps, Zenon
  <1>3. CASE OpenExisting(c)
    <2>. DEFINE name == next_component(o.path)
    <2>1. o.step = "opening" /\ ~is_empty(o.path) /\ Has(o.at, name) /\ UNCHANGED tokens
      BY <1>3, Zenon DEF OpenExisting
    <2>2. o.at \in Nodes /\ entries[o.at][name] \in Nodes
      BY <2>1, ConnCases, Zenon DEF OpeningConn, TreeTyped, Has
    <2>3. CASE conn' = [conn EXCEPT ![c] = Unused]
      BY <2>1, <2>3, BecomesKeeps, Zenon DEF Becomes
    <2>. QED  BY <1>1, <1>3, <2>1, <2>2, <2>3, Zenon DEF OpenExisting
  <1>4. CASE OpenMissing(c)
    <2>. DEFINE type == entry_not_found(o.at, o.flags, o.mode, after_next(o.path))
    <2>1. o.step = "opening" /\ ~is_empty(o.path) /\ UNCHANGED tokens
      BY <1>4, Zenon DEF OpenMissing
    <2>2. CASE conn' = [conn EXCEPT ![c] = Unused]
      BY <2>1, <2>2, BecomesKeeps, Zenon DEF Becomes
    <2>3. CASE \E node \in Nodes : open_entry(c, node, type.value, after_next(o.path))
      BY <1>1, <2>1, <2>3, Zenon
    <2>. QED  BY <1>4, <2>2, <2>3, Zenon DEF OpenMissing
  <1>5. CASE handle_clone(c, new)
    <2>1. PICK flags \in CloneRequests :
            /\ inherit_rights_for_clone(o.flags, flags).status = "OK"
            /\ conn' = [conn EXCEPT ![new] = prepare_connection(o.at, inherit_rights_for_clone(o.flags, flags).value)]
      BY <1>5, Zenon DEF handle_clone, create_connection
    <2>2. ServingConn(o) /\ UNCHANGED tokens
      BY <1>5, ConnCases, Zenon DEF handle_clone, Ready
    <2>3. RightsOK(inherit_rights_for_clone(o.flags, flags).value)
      BY <2>1, <2>2, CloneRights, Zenon DEF ServingConn
    <2>4. Becomes(prepare_connection(o.at, inherit_rights_for_clone(o.flags, flags).value))
      BY <2>2, <2>3, PreparedConn, Zenon DEF Becomes, ServingConn
    <2>. QED  BY <2>1, <2>2, <2>4, BecomesKeeps, Zenon
  <1>6. CASE handle_open(c, new)
    <2>. DEFINE path(r) == validate_and_split(r.text)
                asked(r) == r.flags \cup IF path(r).value.is_dir THEN {"DIRECTORY"} ELSE {}
                checked(r) == check_child_connection_flags(o.flags, asked(r), r.mode)
                v(r) == [step |-> "opening", by |-> c, at |-> o.at, path |-> path(r).value,
                         flags |-> checked(r).value.flags, mode |-> checked(r).value.mode]
    <2>1. PICK r \in OpenRequests : path(r).status = "OK" /\ checked(r).status = "OK" /\ conn' = [conn EXCEPT ![new] = v(r)]
      BY <1>6, Zenon DEF handle_open
    <2>2. ServingConn(o) /\ UNCHANGED tokens
      BY <1>6, ConnCases, Zenon DEF handle_open, Ready
    <2>3. RightsOK(checked(r).value.flags)
      <3>. HIDE DEF asked
      <3>. QED  BY <2>1, <2>2, OpenRights, Zenon DEF ServingConn
    <2>4. PathOK(path(r).value)
      <3>1. TextOK(r.text) /\ r.text # <<>>
        BY TreeAssumption, Zenon DEF TextOK, Refused
      <3>. QED  BY <2>1, <3>1, SplitPath, Zenon
    <2>. HIDE DEF path, checked
    <2>5. Becomes(v(r))
      BY <2>2, <2>3, <2>4, Zenon DEF Becomes, OpeningConn, ServingConn
    <2>. HIDE DEF v
    <2>. QED  BY <2>1, <2>2, <2>5, BecomesKeeps, Zenon
  <1>. QED  BY <1>2, <1>3, <1>4, <1>5, <1>6, Zenon

\* The requests that leave the connections as they are, or end one.
LEMMA RequestsKeep ==
    ASSUME Inv, UNCHANGED granted, NEW c \in Movers,
           Rewind(c) \/ CloseConnection(c) \/ MutableRequest(c)
    PROVE  ConnsOK' /\ ConnStays
  <1>. USE DEF Inv
  <1>1. CASE Rewind(c)
    <2>. DEFINE v == [conn[c] EXCEPT !.seek = Start]
    <2>1. conn' = [conn EXCEPT ![c] = v] /\ UNCHANGED tokens /\ ServingConn(conn[c])
      BY <1>1, ConnCases, Zenon DEF Rewind, Ready
    <2>2. Start \in Start..End
      BY DirectoryAssumption DEF Start, End
    <2>3. ServingConn(v) /\ v.seek = Start
      BY <2>1, <2>2 DEF ServingConn
    <2>. HIDE DEF v
    <2>. QED  BY <2>1, <2>3, BecomesKeeps, Zenon DEF Becomes
  <1>2. CASE CloseConnection(c)
    BY <1>2, BecomesKeeps, Zenon DEF CloseConnection, Becomes
  <1>3. CASE MutableRequest(c)
    <2>1. UNCHANGED conn /\ tokens' \subseteq Nodes
      BY <1>3, ConnCases, Zenon DEF MutableRequest, Unlink, GetToken, Rename, Ready, get_token, connVars, ConnsOK, ServingConn
    <2>2. \A r : (ServingConn(r)' <=> ServingConn(r)) /\ (OpeningConn(r)' <=> OpeningConn(r))
      BY Zenon DEF ServingConn, OpeningConn, RightsOK
    <2>. QED  BY <2>1, <2>2, Zenon DEF ConnsOK, ConnStays
  <1>. QED  BY <1>1, <1>2, <1>3, Zenon

\* What the steps of connections do to the directories.
LEMMA TreeKeeps ==
    ASSUME Inv, NEW c \in Movers, ConnectionStep(c)
    PROVE  DirInv'
  <1>. USE DEF Inv
  <1>0. DirInv
    BY Zenon DEF DirInv
  <1>1. CASE UNCHANGED dirVars
    BY <1>0, <1>1, TreeStays, Zenon DEF dirVars
  <1>2. CASE OpenMissing(c) /\ ~UNCHANGED dirVars
    <2>. DEFINE o == conn[c]
                name == next_component(o.path)
                type == entry_not_found(o.at, o.flags, o.mode, after_next(o.path))
    <2>1. /\ o.step = "opening" /\ ~is_empty(o.path) /\ Unlocked(o.at) /\ ~Has(o.at, name)
          /\ type.status = "OK" /\ \E node \in Nodes : kind[node] = "new" /\ get_or_insert(o.at, name, node, type.value)
      BY <1>2, Zenon DEF OpenMissing
    <2>2. PICK node \in Nodes : kind[node] = "new" /\ get_or_insert(o.at, name, node, type.value)
      BY <2>1, Zenon
    <2>3. o.at \in Nodes /\ name \in Names
      BY <2>1, ConnCases, NextOnPath, Zenon DEF OpeningConn
    <2>4. type.value \in {"directory", "file"}
      BY <2>1, Zenon DEF entry_not_found, create_entry, from_flags_and_mode, Ok, Err
    <2>. HIDE DEF o, name, type
    <2>5. node \notin Placed \cup Carried
      BY <2>2 DEF Placed, Carried, TreeTyped, RenamesTyped, Range
    <2>6. /\ kind' \in [Nodes -> {"directory", "file", "new"}] /\ kind'[node] # "new"
          /\ \A n \in Nodes : kind[n] # "new" => kind'[n] # "new"
      BY <2>2, <2>4, Zenon DEF get_or_insert, TreeTyped
    <2>7. insert(o.at, name, node) /\ UNCHANGED <<lock, told, rename>>
      BY <2>2, Zenon DEF get_or_insert
    <2>. QED  BY <1>0, <2>1, <2>2, <2>3, <2>5, <2>6, <2>7, AddKeeps, Zenon
  <1>3. CASE Unlink(c)
    <2>1. conn[c].at \in Nodes
      BY <1>3, ConnCases, Zenon DEF Unlink, Ready, ServingConn
    <2>. QED  BY <1>0, <1>3, <2>1, RemoveKeeps, Zenon DEF Unlink
  <1>4. CASE Rename(c)
    <2>. DEFINE from == conn[c].at
                split(text) == validate_and_split(text)
    <2>1. PICK src \in RenameSources, dst \in RenameTargets, to \in tokens :
            /\ split(src).status = "OK" /\ split(dst).status = "OK"
            /\ is_single_component(split(src).value) /\ is_single_component(split(dst).value)
            /\ rename_call(c, from, into_string(split(src).value), to, into_string(split(dst).value))
      BY <1>4, Zenon DEF Rename
    <2>2. from \in Nodes /\ to \in Nodes
      BY <1>4, ConnCases, Zenon DEF Rename, Ready, ServingConn, ConnsOK
    <2>3. into_string(split(src).value) \in Sources
      BY Zenon DEF Sources
    <2>4. into_string(split(dst).value) \in Names
      BY <2>1, TreeAssumption, Zenon
    <2>5. PICK s \in Sources, d \in Names : rename_call(c, from, s, to, d)
      BY <2>1, <2>3, <2>4, Zenon
    <2>. HIDE DEF from
    <2>6. rename[c] = Idle /\ UNCHANGED kind
      BY <2>5, Zenon DEF rename_call
    <2>7. from \in Nat /\ to \in Nat
      BY <2>2, DirectoryAssumption, Zenon
    <2>8. CASE from # to /\ \E first \in {from, to} : lock_first(c, from, s, to, d, first)
      BY <1>0, <2>2, <2>6, <2>8, LockFirstKeeps, Zenon
    <2>9. CASE from = to /\ rename_within(from, s, d)
      BY <1>0, <2>2, <2>6, <2>9, WithinKeeps, Zenon
    <2>. QED  BY <2>5, <2>7, <2>8, <2>9 DEF rename_call
  <1>. QED
    BY <1>1, <1>2, <1>3, <1>4, Zenon DEF ConnectionStep, BaseRequest, MutableRequest, OpenHere, OpenExisting,
       Rewind, CloseConnection, handle_clone, handle_open, GetToken

\* The steps of renames and of the server.
LEMMA OthersKeepTree ==
    ASSUME Inv, (\E c \in Movers : RenameStep(c)) \/ Server
    PROVE  DirInv'
  <1>0. DirInv
    BY Zenon DEF DirInv, Inv
  <1>1. CASE \E c \in Movers : RenameStep(c)
    BY <1>0, <1>1, RenameToKeeps, RenameRemoveKeeps, RenameFromKeeps, RenameInsertKeeps, Zenon DEF RenameStep
  <1>2. ASSUME NEW d \in ServerDirs, ServerRemove(d) PROVE DirInv'
    <2>1. d \in Nodes
      BY <1>2, DirectoryAssumption, Zenon
    <2>. QED  BY <1>0, <1>2, <2>1, RemoveKeeps, Zenon DEF ServerRemove
  <1>3. ASSUME NEW d \in ServerDirs, ServerAdd(d) PROVE DirInv'
    <2>1. PICK name \in ServerNames, node \in Nodes \ (Placed \cup Carried \cup {Root}) :
            kind[node] # "new" /\ add_entry_impl(d, name, node, FALSE)
      BY <1>3, Zenon DEF ServerAdd
    <2>2. d \in Nodes /\ name \in Names
      BY <1>3, DirectoryAssumption, Zenon DEF Names, Range
    <2>3. /\ Unlocked(d) /\ ~Has(d, name) /\ insert(d, name, node) /\ added(d, name)
          /\ UNCHANGED <<kind, lock, rename>>
      BY <1>3, <2>1, Zenon DEF ServerAdd, add_entry_impl
    <2>4. kind' \in [Nodes -> {"directory", "file", "new"}]
      BY <1>0, <2>3, Zenon DEF DirInv, TreeTyped
    <2>. QED  BY <1>0, <2>1, <2>2, <2>3, <2>4, AddKeeps, Zenon
  <1>. QED  BY <1>1, <1>2, <1>3, Zenon DEF Server

\* A set of numbers that is not empty has a least one.
LEMMA LeastOf ==
    ASSUME NEW S \in SUBSET Nat, S # {}
    PROVE  LET least == CHOOSE i \in S : \A j \in S : i <= j
           IN  least \in S /\ \A j \in S : least <= j
  <1>. DEFINE R == OpToRel(<, Nat)
  <1>1. IsWellFoundedOn(R, Nat)
    BY NatLessThanWellFounded, Zenon
  <1>2. \A i, j \in Nat : j < i => <<j, i>> \in R
    BY Zenon DEF OpToRel
  <1>. HIDE DEF R
  <1>3. PICK i \in S : \A j \in S : ~(<<j, i>> \in R)
    BY <1>1, WFMin, Zenon
  <1>4. ASSUME NEW j \in S PROVE i <= j
    <2>1. i \in Nat /\ j \in Nat
      BY Zenon
    <2>2. ~(j < i)
      BY <1>2, <1>3, <2>1, Zenon
    <2>. QED  BY <2>1, <2>2
  <1>. QED  BY <1>4, Zenon

\* ReadDirents goes on where the sink was full: what it has not returned lies at or
\* after the position it leaves.
LEMMA ReadKeeps ==
    ASSUME Inv, NEW c \in Movers, ReadDirents(c), UNCHANGED granted
    PROVE  ConnsOK' /\ ListingsOK'
  <1>. USE DEF Inv
  <1>. DEFINE d == conn[c].at
              pos == conn[c].seek
              due == IF pos = Start THEN DOMAIN entries[d] ELSE missed[c]
              first == IF pos = Start THEN 1 ELSE pos
              left(fit) == Listed(d, first) \ fit
              next(fit) == IF left(fit) = {} THEN End ELSE CHOOSE i \in left(fit) : \A j \in left(fit) : i <= j
  <1>1. PICK room \in Rooms :
            /\ conn' = [conn EXCEPT ![c].seek = read_dirents(d, pos, room).pos]
            /\ missed' = [missed EXCEPT ![c] = due \ {NameOrder[i] : i \in read_dirents(d, pos, room).seen \ {Start}}]
            /\ UNCHANGED <<dirVars, tokens>>
    BY Zenon DEF ReadDirents
  <1>2. PICK fit : read_dirents(d, pos, room) = [seen |-> fit, pos |-> next(fit)]
    BY Zenon DEF read_dirents
  <1>3. /\ conn' = [conn EXCEPT ![c].seek = next(fit)] /\ UNCHANGED <<dirVars, tokens>>
        /\ missed' = [missed EXCEPT ![c] = due \ {NameOrder[i] : i \in fit \ {Start}}]
    BY <1>1, <1>2
  <1>4. ServingConn(conn[c]) /\ Serving(c)
    BY ConnCases, Zenon DEF ReadDirents, Ready
  <1>5. Len(NameOrder) \in Nat /\ pos \in 0..(Len(NameOrder) + 1)
    <2>1. Len(NameOrder) \in Nat
      BY DirectoryAssumption
    <2>2. pos \in Start..End
      BY <1>4, Zenon DEF ServingConn
    <2> QED BY ONLY <2>1, <2>2 DEF Start, End
  <1>6. due \subseteq DOMAIN entries[d] /\ \A i \in 1..Len(NameOrder) : NameOrder[i] \in due => i >= first
    BY <1>4, <1>5 DEF ListingsOK, Start
  <1>7. \A i \in 1..Len(NameOrder) : NameOrder[i] \in due => i \in left(fit) \/ i \in fit
    BY <1>5, <1>6 DEF Listed, Has, Start
  <1>8. left(fit) \subseteq 1..Len(NameOrder)
    BY <1>5 DEF Listed, Start
  <1>. HIDE DEF left, due, first
  <1>9. next(fit) \in 1..(Len(NameOrder) + 1) /\ \A i \in left(fit) : i >= next(fit)
    <2>1. CASE left(fit) = {}
      BY <1>5, <2>1 DEF End
    <2>2. CASE left(fit) # {}
      <3>1. left(fit) \in SUBSET Nat
        BY <1>8
      <3>2. next(fit) \in left(fit) /\ \A j \in left(fit) : next(fit) <= j
        BY <2>2, <3>1, LeastOf, Zenon
      <3>. HIDE DEF next
      <3>. QED  BY <1>5, <1>8, <3>2
    <2>. QED  BY <2>1, <2>2, Zenon
  <1>. HIDE DEF next
  <1>10. \A i \in 1..Len(NameOrder) : NameOrder[i] \in due \ {NameOrder[j] : j \in fit \ {Start}} => i >= next(fit)
    BY <1>7, <1>9 DEF Start
  <1>. DEFINE v == [conn[c] EXCEPT !.seek = next(fit)]
  <1>11. ServingConn(v) /\ v.at = d /\ v.seek = next(fit)
    <2>1. next(fit) \in Start..End
      BY <1>5, <1>9 DEF Start, End
    <2>. QED  BY <1>4, <2>1 DEF ServingConn
  <1>12. /\ conn' = [b \in Movers |-> conn'[b]] /\ conn'[c] = v
         /\ \A b \in Movers \ {c} : conn'[b] = conn[b]
    BY <1>3, Zenon DEF ConnsOK
  <1>. HIDE DEF v
  <1>13. ConnsOK'
    <2>1. \A r : (ServingConn(r)' <=> ServingConn(r)) /\ (OpeningConn(r)' <=> OpeningConn(r))
      BY Zenon DEF ServingConn, OpeningConn, RightsOK
    <2>. QED  BY <1>3, <1>11, <1>12, <2>1, Zenon DEF ConnsOK
  <1>14. /\ missed' = [b \in Movers |-> missed'[b]]
         /\ missed'[c] = due \ {NameOrder[i] : i \in fit \ {Start}}
         /\ \A b \in Movers \ {c} : missed'[b] = missed[b]
    BY <1>3, Zenon DEF ListingsOK
  <1>15. UNCHANGED entries
    BY <1>3, Zenon DEF dirVars
  <1>16. ASSUME NEW b \in Movers, Serving(b)', conn'[b].seek # Start
         PROVE  /\ missed'[b] \subseteq DOMAIN entries'[conn'[b].at]
                /\ \A i \in 1..Len(NameOrder) : NameOrder[i] \in missed'[b] => i >= conn'[b].seek
    <2>1. CASE b = c
      BY <1>6, <1>10, <1>11, <1>12, <1>14, <1>15, <2>1, Zenon
    <2>2. CASE b # c
      BY <1>12, <1>14, <1>15, <1>16, <2>2, Zenon DEF ListingsOK, Serving
    <2>. QED  BY <2>1, <2>2, Zenon
  <1>17. ListingsOK'
    BY <1>14, <1>16, Zenon DEF ListingsOK
  <1>. QED  BY <1>13, <1>17, Zenon

\* Any other step leaves a listing where it was.
LEMMA ListingKeeps ==
    ASSUME ListingsOK, ConnStays, Listing
    PROVE  ListingsOK'
  <1>1. /\ missed' = [b \in Movers |-> missed'[b]]
        /\ \A b \in Movers : missed'[b] = IF conn'[b].step # "serving" \/ conn'[b].seek = Start THEN {}
                                           ELSE missed[b] \cap DOMAIN entries'[conn[b].at]
    BY Zenon DEF Listing
  <1>2. ASSUME NEW b \in Movers, Serving(b)', conn'[b].seek # Start
        PROVE  /\ missed'[b] \subseteq DOMAIN entries'[conn'[b].at]
               /\ \A i \in 1..Len(NameOrder) : NameOrder[i] \in missed'[b] => i >= conn'[b].seek
    <2>1. conn'[b] = conn[b] /\ Serving(b) /\ conn[b].seek # Start
      BY <1>2, Zenon DEF ConnStays, Serving
    <2>2. missed'[b] = missed[b] \cap DOMAIN entries'[conn[b].at]
      BY <1>1, <1>2, <2>1, Zenon DEF Serving
    <2>. QED  BY <2>1, <2>2, Zenon DEF ListingsOK
  <1>. QED  BY <1>1, <1>2, Zenon DEF ListingsOK

-----------------------------------------------------------------------------
(***************************************************************************)
(* The theorems.                                                           *)
(***************************************************************************)

\* A step keeps the invariant.
LEMMA StepKeepsInv ==
    ASSUME Inv, [Next]_vars
    PROVE  Inv'
  <1>1. CASE UNCHANGED vars
    <2>1. UNCHANGED <<kind, entries, lock, told, rename, conn, tokens, missed, granted>>
      BY <1>1, Zenon DEF vars, dirVars, connVars
    <2>2. DirInv'
      BY <2>1, TreeStays, Zenon DEF Inv, DirInv
    <2>3. \A r : (ServingConn(r)' <=> ServingConn(r)) /\ (OpeningConn(r)' <=> OpeningConn(r))
      BY <2>1, Zenon DEF ServingConn, OpeningConn, RightsOK
    <2>4. ConnsOK'
      BY <2>1, <2>3, Zenon DEF Inv, ConnsOK
    <2>5. ListingsOK'
      BY <2>1, Zenon DEF Inv, ListingsOK, Serving
    <2>. QED  BY <2>2, <2>4, <2>5, Zenon DEF Inv, DirInv
  <1>2. ASSUME NEW c \in Movers, ReadDirents(c), UNCHANGED granted PROVE Inv'
    <2>1. UNCHANGED <<kind, entries, lock, told, rename>>
      BY <1>2, Zenon DEF ReadDirents, dirVars
    <2>2. TreeTyped' /\ RenamesTyped' /\ LocksOwned' /\ OnePlace' /\ EventsSent'
      BY <2>1, TreeStays, Zenon DEF Inv, DirInv
    <2>. QED  BY <1>2, <2>2, ReadKeeps, Zenon DEF Inv
  <1>3. ASSUME NEW c \in Movers, ConnectionStep(c), UNCHANGED granted, Listing PROVE Inv'
    <2>1. ConnsOK' /\ ConnStays
      BY <1>3, OpensKeep, RequestsKeep, Zenon DEF ConnectionStep, BaseRequest
    <2>2. DirInv'
      BY <1>3, TreeKeeps, Zenon
    <2>3. ListingsOK'
      BY <1>3, <2>1, ListingKeeps, Zenon DEF Inv
    <2>. QED  BY <2>1, <2>2, <2>3, Zenon DEF Inv, DirInv
  <1>4. ASSUME (\E c \in Movers : RenameStep(c)) \/ Server, UNCHANGED <<connVars, granted>>, Listing
        PROVE  Inv'
    <2>1. DirInv'
      BY <1>4, OthersKeepTree, Zenon
    <2>2. UNCHANGED <<conn, tokens, granted>>
      BY <1>4, Zenon DEF connVars
    <2>3. ConnsOK' /\ ConnStays
      <3>1. \A r : (ServingConn(r)' <=> ServingConn(r)) /\ (OpeningConn(r)' <=> OpeningConn(r))
        BY <2>2, Zenon DEF ServingConn, OpeningConn, RightsOK
      <3>. QED  BY <2>2, <3>1, Zenon DEF Inv, ConnsOK, ConnStays
    <2>4. ListingsOK'
      BY <1>4, <2>3, ListingKeeps, Zenon DEF Inv
    <2>. QED  BY <2>1, <2>3, <2>4, Zenon DEF Inv, DirInv
  <1>. QED  BY <1>1, <1>2, <1>3, <1>4, Zenon DEF Next, Renaming

\* A tree in which each node is once, and no rename is at work.
LEMMA OneEach ==
    ASSUME \A d, e \in Nodes : \A n \in DOMAIN Tree[d], m \in DOMAIN Tree[e] :
               Tree[d][n] = Tree[e][m] => d = e /\ n = m,
           entries = Tree, \A t \in Movers : rename[t].step = "idle"
    PROVE  OnePlace
  <1>1. \A t \in Movers : rename[t].step # "insert"
    BY Zenon
  <1>. QED  BY <1>1 DEF OnePlace

\* The server starts with the invariant.
LEMMA InitInv == Init => Inv
  <1>. SUFFICES ASSUME Init PROVE Inv
    BY Zenon
  <1>0. /\ Tree \in [Nodes -> UNION {[S -> Nodes] : S \in SUBSET Names}]
        /\ \A d, e \in Nodes : \A n \in DOMAIN Tree[d], m \in DOMAIN Tree[e] :
                Tree[d][n] = Tree[e][m] => d = e /\ n = m
    BY TreeAssumption, Zenon
  <1>. USE DEF Init, DirectoriesInit
  <1>1. /\ entries = Tree /\ Tree = [d \in Nodes |-> Tree[d]]
        /\ \A d \in Nodes : /\ IsMap(Tree[d]) /\ DOMAIN Tree[d] \subseteq Names
                             /\ \A n \in DOMAIN Tree[d] : Tree[d][n] \in Nodes
    <2>1. ASSUME NEW d \in Nodes
          PROVE  /\ IsMap(Tree[d]) /\ DOMAIN Tree[d] \subseteq Names
                 /\ \A n \in DOMAIN Tree[d] : Tree[d][n] \in Nodes
      <3>1. PICK S \in SUBSET Names : Tree[d] \in [S -> Nodes]
        BY <1>0
      <3>. QED  BY <3>1, Zenon DEF IsMap
    <2>. QED  BY <1>0, <2>1, Zenon
  <1>2. \A t \in Movers : rename[t] = Idle /\ rename[t].step = "idle"
    BY Zenon DEF Idle
  <1>3. \A d \in Nodes : \A n \in DOMAIN Tree[d] : kind[Tree[d][n]] # "new"
    <2>1. ASSUME NEW d \in Nodes, NEW n \in DOMAIN Tree[d]
          PROVE  Tree[d][n] \in Nodes /\ Tree[d][n] \in UNION {Range(Tree[e]) : e \in Nodes}
      BY <1>1, <2>1 DEF Range
    <2>. QED  BY <2>1, Zenon
  <1>4. kind \in [Nodes -> {"directory", "file", "new"}]
    BY Zenon
  <1>5. TreeTyped
    BY <1>1, <1>3, <1>4, Zenon DEF TreeTyped
  <1>6. RenamesTyped
    BY <1>2, Zenon DEF RenamesTyped
  <1>7. LocksOwned
    BY <1>2, DirectoryAssumption, Zenon DEF LocksOwned, Holds, Free
  <1>8. OnePlace
    BY <1>0, <1>1, <1>2, OneEach, Zenon
  <1>9. EventsSent
    BY <1>1, Zenon DEF EventsSent
  <1>10. Start \in Start..End /\ Root \in Nodes
    BY DirectoryAssumption DEF Start, End
  <1>11. ConnsOK
    <2>. DEFINE v == [step |-> "serving", at |-> Root, flags |-> granted, seek |-> Start]
    <2>1. conn = [c \in Movers |-> IF c = First THEN v ELSE Unused] /\ tokens = {}
      BY Zenon
    <2>2. ServingConn(v)
      BY <1>10, Zenon DEF ServingConn
    <2>. HIDE DEF v
    <2>. QED  BY <2>1, <2>2, Zenon DEF ConnsOK
  <1>12. ListingsOK
    BY Zenon DEF ListingsOK, Serving, Unused
  <1>. QED  BY <1>5, <1>6, <1>7, <1>8, <1>9, <1>11, <1>12, Zenon DEF Inv

\* The invariant holds in every state of every behaviour, for any tree, any number
\* of connections and any requests.
THEOREM DirectoriesInvariant == Spec => []Inv
  <1>1. Init => Inv
    BY InitInv, Zenon
  <1>2. Inv /\ [Next]_vars => Inv'
    BY StepKeepsInv, Zenon
  <1>. QED  BY <1>1, <1>2, PTL DEF Spec

\* No chain of Open, Clone and POSIX flags gives a connection a right that the first
\* one did not have.
THEOREM RightsDoNotGrowHolds == Spec => []RightsDoNotGrow
  <1>1. Inv => RightsDoNotGrow
    BY DEF Inv, ConnsOK, ServingConn, OpeningConn, RightsOK, RightsDoNotGrow, Unused
  <1>. QED  BY <1>1, DirectoriesInvariant, PTL

\* No state of a rename that others can see has a node under two names.
THEOREM InOnePlaceHolds == Spec => []InOnePlace
  <1>1. ASSUME Inv, NEW node \in Nodes PROVE Cardinality(Places(node)) <= 1
    <2>. USE DEF Inv
    <2>1. ASSUME NEW p \in Places(node), NEW q \in Places(node) PROVE p = q
      <3>. DEFINE Lies(x) == \E d \in Nodes : \E n \in DOMAIN entries[d] :
                                x = <<d, n>> /\ entries[d][n] = node /\ ~Leaving(d, n)
                  Goes(x) == \E t \in Movers : /\ rename[t].step = "insert" /\ rename[t].entry = node
                                               /\ x = <<rename[t].to, rename[t].dst>>
      <3>1. \A x \in Places(node) : Lies(x) \/ Goes(x)
        <4>1. ASSUME NEW x \in Nodes \X Names, Has(x[1], x[2]), entries[x[1]][x[2]] = node, ~Leaving(x[1], x[2])
              PROVE  Lies(x)
          <5>1. PICK d \in Nodes, n \in Names : x = <<d, n>>
            BY <4>1
          <5>2. x[1] = d /\ x[2] = n
            BY <5>1, Zenon
          <5>. QED  BY <4>1, <5>1, <5>2, Zenon DEF Has
        <4>. QED  BY <4>1, Zenon DEF Places
      <3>2. CASE Lies(p) /\ Lies(q)
        <4>1. PICK d, n : d \in Nodes /\ n \in DOMAIN entries[d] /\ p = <<d, n>> /\ entries[d][n] = node /\ ~Leaving(d, n)
          BY <3>2, Zenon
        <4>2. PICK e, m : e \in Nodes /\ m \in DOMAIN entries[e] /\ q = <<e, m>> /\ entries[e][m] = node /\ ~Leaving(e, m)
          BY <3>2, Zenon
        <4>3. d = e /\ n = m
          BY <1>1, <4>1, <4>2 DEF OnePlace
        <4>. QED  BY <4>1, <4>2, <4>3, Zenon
      <3>3. CASE Goes(p) /\ Goes(q)
        <4>1. PICK t \in Movers : rename[t].step = "insert" /\ rename[t].entry = node /\ p = <<rename[t].to, rename[t].dst>>
          BY <3>3, Zenon
        <4>2. PICK u \in Movers : rename[u].step = "insert" /\ rename[u].entry = node /\ q = <<rename[u].to, rename[u].dst>>
          BY <3>3, Zenon
        <4>3. t = u
          BY <1>1, <4>1, <4>2, Zenon DEF OnePlace
        <4>. QED  BY <4>1, <4>2, <4>3, Zenon
      <3>4. \A x, y : ~(Lies(x) /\ Goes(y))
        BY <1>1, Zenon DEF OnePlace
      <3>. QED  BY <2>1, <3>1, <3>2, <3>3, <3>4, Zenon
    <2>2. CASE Places(node) = {}
      BY <2>2, FS_EmptySet
    <2>3. CASE Places(node) # {}
      <3>1. PICK p : Places(node) = {p}
        BY <2>1, <2>3, Zenon
      <3>. QED  BY <3>1, FS_Singleton
    <2>. QED  BY <2>2, <2>3, Zenon
  <1>2. Inv => InOnePlace
    BY <1>1, Zenon DEF InOnePlace
  <1>. QED  BY <1>2, DirectoriesInvariant, PTL

\* No watcher keeps a name that the directory has lost.
THEOREM WatchersNotMisledHolds == Spec => []WatchersNotMisled
  <1>1. Inv => WatchersNotMisled
    BY Zenon DEF Inv, EventsSent, WatchersNotMisled
  <1>. QED  BY <1>1, DirectoriesInvariant, PTL

\* A listing that comes to its end has returned every name that was there all the time.
THEOREM ListingMissesNothingHolds == Spec => []ListingMissesNothing
  <1>1. ASSUME Inv, NEW c \in Movers, Serving(c), conn[c].seek = End PROVE missed[c] = {}
    <2>1. Len(NameOrder) \in Nat /\ conn[c].seek # Start /\ conn[c].at \in Nodes
      <3>1. conn[c].at \in Nodes
        BY <1>1, ConnCases, Zenon DEF Inv, ServingConn
      <3>. QED  BY <1>1, <3>1, DirectoryAssumption DEF Start, End
    <2>2. /\ missed[c] \subseteq DOMAIN entries[conn[c].at]
          /\ \A i \in 1..Len(NameOrder) : NameOrder[i] \in missed[c] => i >= conn[c].seek
      BY <1>1, <2>1, Zenon DEF Inv, ListingsOK
    <2>4. missed[c] \subseteq Names /\ \A i \in 1..Len(NameOrder) : NameOrder[i] \notin missed[c]
      BY <1>1, <2>1, <2>2 DEF Inv, TreeTyped, End
    <2>3. \A n \in Names : \E i \in 1..Len(NameOrder) : n = NameOrder[i]
      <3>1. NameOrder \in Seq(Seq(STRING))
        BY DirectoryAssumption, Zenon
      <3>2. DOMAIN NameOrder = 1..Len(NameOrder)
        BY <3>1
      <3>. QED  BY <3>2, Zenon DEF Names, Range
    <2>. QED  BY <2>3, <2>4
  <1>2. Inv => ListingMissesNothing
    BY <1>1, Zenon DEF ListingMissesNothing
  <1>. QED  BY <1>2, DirectoriesInvariant, PTL

-----------------------------------------------------------------------------
(***************************************************************************)
(* What a rename may not do.                                               *)
(***************************************************************************)

\* Where a node is, without the pairs of Places.
Lies(node, d, n) == d \in Nodes /\ n \in Names /\ Has(d, n) /\ entries[d][n] = node /\ ~Leaving(d, n)
Goes(node, t) == t \in Movers /\ rename[t].step = "insert" /\ rename[t].entry = node

\* What RenameLosesNothing allows when a node leaves the tree.
Accounted(node) ==
    \E place \in Places(node) :
        \/ Has(place[1], place[2])' /\ entries'[place[1]][place[2]] # node
        \/ UNCHANGED rename /\ Unlocked(place[1])

\* The node was somewhere and is nowhere.
Lost(node) ==
    /\ (\E d, n : Lies(node, d, n)) \/ (\E t : Goes(node, t))
    /\ (\A d, n : ~Lies(node, d, n)') /\ (\A t : ~Goes(node, t)')

\* A node whose places are all gone is lost in that sense.
LEMMA LostIs ==
    ASSUME NEW node, Places(node) # {}, Places(node)' = {}
    PROVE  Lost(node)
  <1>1. (\E d, n : Lies(node, d, n)) \/ (\E t : Goes(node, t))
    BY Zenon DEF Places, Lies, Goes
  <1>2. ASSUME NEW d, NEW n, Lies(node, d, n)' PROVE FALSE
    <2>1. <<d, n>> \in Nodes \X Names /\ <<d, n>>[1] = d /\ <<d, n>>[2] = n
      BY <1>2, Zenon DEF Lies
    <2>2. <<d, n>> \in Places(node)'
      BY <1>2, <2>1, Zenon DEF Lies, Places
    <2>. QED  BY <2>2, Zenon
  <1>3. ASSUME NEW t, Goes(node, t)' PROVE FALSE
    <2>1. <<rename'[t].to, rename'[t].dst>> \in Places(node)'
      BY <1>3, Zenon DEF Goes, Places
    <2>. QED  BY <2>1, Zenon
  <1>. QED  BY <1>1, <1>2, <1>3, Zenon DEF Lost

\* A name under which the node was and is no more.
LEMMA OverwrittenIs ==
    ASSUME NEW node, NEW d, NEW n, Lies(node, d, n), Has(d, n)', entries'[d][n] # node
    PROVE  Accounted(node)
  <1>1. <<d, n>> \in Nodes \X Names /\ <<d, n>>[1] = d /\ <<d, n>>[2] = n
    BY Zenon DEF Lies
  <1>2. <<d, n>> \in Places(node)
    BY <1>1, Zenon DEF Lies, Places
  <1>. QED  BY <1>1, <1>2, Zenon DEF Accounted

\* A change of one directory that is not locked.
LEMMA LocalChange ==
    ASSUME NEW node, Lost(node), NEW d \in Nodes, Unlocked(d), UNCHANGED rename,
           \A e \in Nodes \ {d} : entries'[e] = entries[e]
    PROVE  Accounted(node)
  <1>1. \A e, n : Leaving(e, n)' <=> Leaving(e, n)
    BY Zenon DEF Leaving
  <1>2. \A t : ~Goes(node, t)
    BY Zenon DEF Lost, Goes
  <1>3. PICK e, n : Lies(node, e, n)
    BY <1>2, Zenon DEF Lost
  <1>4. e = d
    BY <1>1, <1>3, Zenon DEF Lost, Lies, Has
  <1>5. <<e, n>> \in Nodes \X Names /\ <<e, n>>[1] = e /\ <<e, n>>[2] = n
    BY <1>3, Zenon DEF Lies
  <1>6. <<e, n>> \in Places(node)
    BY <1>3, <1>5, Zenon DEF Lies, Places
  <1>. QED  BY <1>4, <1>5, <1>6, Zenon DEF Accounted

\* A rename that only takes or gives back a mutex.
LEMMA NoChange ==
    ASSUME NEW node, Lost(node), UNCHANGED entries,
           \A u \in Movers : \/ rename'[u] = rename[u]
                             \/ rename[u].step \notin {"remove", "insert"} /\ rename'[u].step \notin {"remove", "insert"}
    PROVE  FALSE
  <1>1. \A e, n : Leaving(e, n)' <=> Leaving(e, n)
    BY Zenon DEF Leaving
  <1>2. \A t : Goes(node, t)' <=> Goes(node, t)
    BY Zenon DEF Goes
  <1>3. \A e, n : Lies(node, e, n)' <=> Lies(node, e, n)
    BY <1>1, Zenon DEF Lies, Has
  <1>. QED  BY <1>2, <1>3, Zenon DEF Lost

\* A lost node lies under no name that is not about to be removed.
LEMMA NowhereNow ==
    ASSUME NEW node, Lost(node), NEW d \in Nodes, NEW n \in Names, n \in DOMAIN entries'[d], entries'[d][n] = node
    PROVE  Leaving(d, n)'
  BY Zenon DEF Lost, Lies, Has

\* Each step of a rename leaves every node a place, except one that is overwritten.
LEMMA RenameStepLosesNothing ==
    ASSUME DirInv, NEW t \in Movers, RenameStep(t), NEW node, Lost(node)
    PROVE  Accounted(node)
  <1>. DEFINE r == rename[t]
  <1>. HIDE DEF r
  <1>. USE DEF DirInv
  <1>0. ASSUME NEW d \in Nodes, finish(t, d), UNCHANGED entries, r.step \in {"to", "from"} PROVE FALSE
    <2>1. \A u \in Movers : rename'[u] = IF u = t THEN Idle ELSE rename[u]
      BY <1>0, Zenon DEF finish, RenamesTyped
    <2>. QED  BY <1>0, <2>1, NoChange DEF Idle, r
  <1>1. CASE RenameTo(t)
    <2>1. r \in FromFirst /\ r.step = "to" /\ Unlocked(r.to) /\ r.from # r.to
      BY <1>1, RenameCases, Zenon DEF RenameTo, RenamesTyped, r
    <2>2. r.from \in Nodes /\ r.to \in Nodes /\ r.dst \in Names
      BY <2>1, Zenon DEF FromFirst
    <2>3. CASE insert(r.to, r.dst, entries[r.from][r.src]) /\ rename' = [rename EXCEPT ![t] = [r EXCEPT !.step = "remove"]]
      <3>1. /\ \A u \in Movers \ {t} : rename'[u] = rename[u]
            /\ rename'[t].step = "remove" /\ rename'[t].from = r.from /\ rename'[t].src = r.src
        BY <2>1, <2>3, Zenon DEF RenamesTyped, FromFirst
      <3>2. \A d, n : Leaving(d, n)' => Leaving(d, n) \/ (d = r.from /\ n = r.src)
        BY <3>1, Zenon DEF Leaving
      <3>3. \A u : Goes(node, u) => Goes(node, u)'
        BY <2>1, <3>1, Zenon DEF Goes, r
      <3>4. PICK d, n : Lies(node, d, n)
        BY <3>3, Zenon DEF Lost
      <3>5. /\ r.dst \in DOMAIN entries'[r.to] /\ entries'[r.to][r.dst] = entries[r.from][r.src]
            /\ \A e \in Nodes : \A m \in DOMAIN entries[e] : ~(e = r.to /\ m = r.dst) => m \in DOMAIN entries'[e] /\ entries'[e][m] = entries[e][m]
        BY <2>2, <2>3, Zenon DEF insert, with, TreeTyped, Has
      <3>6. \A e, m : e = r.to => ~Leaving(e, m)'
        BY <2>1, <2>2, <3>2, UnlockedIsQuiet, Zenon
      <3>10. d \in Nodes /\ n \in DOMAIN entries[d] /\ entries[d][n] = node /\ ~Leaving(d, n) /\ n \in Names
        BY <3>4, Zenon DEF Lies, Has
      <3>11. entries[r.from][r.src] # node
        BY <2>2, <3>5, <3>6, NowhereNow
      <3>7. CASE d = r.to /\ n = r.dst
        BY <3>4, <3>5, <3>7, <3>11, OverwrittenIs, Zenon DEF Has
      <3>8. CASE d = r.from /\ n = r.src
        BY <3>8, <3>10, <3>11, Zenon
      <3>9. CASE ~(d = r.to /\ n = r.dst) /\ ~(d = r.from /\ n = r.src)
        BY <3>2, <3>5, <3>9, <3>10, NowhereNow, Zenon
      <3>. QED  BY <3>7, <3>8, <3>9, Zenon
    <2>. QED  BY <1>0, <1>1, <2>1, <2>2, <2>3, Zenon DEF RenameTo, add_entry_impl, r
  <1>2. CASE RenameRemove(t)
    <2>1. r \in FromFirst /\ r.step = "remove"
      BY <1>2, RenameCases, Zenon DEF RenameRemove, r
    <2>2. r.from \in Nodes
      BY <2>1, Zenon DEF FromFirst
    <2>3. \A u \in Movers : rename'[u] = IF u = t THEN Idle ELSE rename[u]
      BY <1>2, Zenon DEF RenameRemove, finish, RenamesTyped
    <2>4. (\A d, n : Leaving(d, n)' => Leaving(d, n)) /\ \A u : Goes(node, u) => Goes(node, u)'
      BY <2>1, <2>3 DEF Leaving, Goes, Idle, r
    <2>5. PICK d, n : Lies(node, d, n)
      BY <2>4, Zenon DEF Lost
    <2>6. ~(d = r.from /\ n = r.src)
      BY <2>1, <2>5, Zenon DEF Lies, Leaving, r
    <2>7. \A e \in Nodes : \A m \in DOMAIN entries[e] : ~(e = r.from /\ m = r.src) => m \in DOMAIN entries'[e] /\ entries'[e][m] = entries[e][m]
      BY <1>2, <2>2, Zenon DEF RenameRemove, without, Restrict, TreeTyped, Has, r
    <2>. QED  BY <2>4, <2>5, <2>6, <2>7, Zenon DEF Lost, Lies, Has
  <1>3. CASE RenameFrom(t)
    <2>. DEFINE taken == [step |-> "insert", to |-> r.to, dst |-> r.dst, entry |-> entries[r.from][r.src]]
    <2>1. r \in ToFirst /\ r.step = "from"
      BY <1>3, RenameCases, Zenon DEF RenameFrom, r
    <2>2. r.from \in Nodes /\ r.to \in Nodes
      BY <2>1, Zenon DEF ToFirst
    <2>3. CASE remove_entry_impl(r.from, r.src, FALSE) /\ rename' = [rename EXCEPT ![t] = taken]
      <3>1. /\ \A u \in Movers \ {t} : rename'[u] = rename[u]
            /\ rename'[t].step = "insert" /\ rename'[t].entry = entries[r.from][r.src]
        BY <2>3, Zenon DEF RenamesTyped
      <3>2. (\A d, n : Leaving(d, n)' => Leaving(d, n)) /\ \A u : Goes(node, u) => Goes(node, u)'
        BY <2>1, <3>1, Zenon DEF Leaving, Goes, r
      <3>3. PICK d, n : Lies(node, d, n)
        BY <3>2, Zenon DEF Lost
      <3>4. \A e \in Nodes : \A m \in DOMAIN entries[e] : ~(e = r.from /\ m = r.src) => m \in DOMAIN entries'[e] /\ entries'[e][m] = entries[e][m]
        BY <2>2, <2>3, Zenon DEF remove_entry_impl, without, Restrict, TreeTyped, Has
      <3>5. CASE d = r.from /\ n = r.src
        BY <3>1, <3>3, <3>5, Zenon DEF Lost, Goes, Lies
      <3>6. CASE ~(d = r.from /\ n = r.src)
        BY <3>2, <3>3, <3>4, <3>6, Zenon DEF Lost, Lies, Has
      <3>. QED  BY <3>5, <3>6, Zenon
    <2>. QED  BY <1>0, <1>3, <2>1, <2>2, <2>3, Zenon DEF RenameFrom, r
  <1>4. CASE RenameInsert(t)
    <2>1. r \in Taken /\ r.step = "insert"
      BY <1>4, RenameCases, Zenon DEF RenameInsert, r
    <2>2. r.to \in Nodes /\ r.dst \in Names
      BY <2>1, Zenon DEF Taken
    <2>3. \A u \in Movers : rename'[u] = IF u = t THEN Idle ELSE rename[u]
      BY <1>4, Zenon DEF RenameInsert, finish, RenamesTyped
    <2>4. \A d, n : Leaving(d, n)' => Leaving(d, n)
      BY <2>3 DEF Leaving, Idle
    <2>5. \A d, n : d = r.to => ~Leaving(d, n)'
      <3>1. \A u \in Movers : Holds(u, r.to) => u = t
        BY <2>1, <2>2 DEF LocksOwned, Holds, r
      <3>. QED  BY <2>1, <2>4, <3>1 DEF Leaving, Holds, r
    <2>6. /\ r.dst \in DOMAIN entries'[r.to] /\ entries'[r.to][r.dst] = r.entry
          /\ \A e \in Nodes : \A m \in DOMAIN entries[e] : ~(e = r.to /\ m = r.dst) => m \in DOMAIN entries'[e] /\ entries'[e][m] = entries[e][m]
      BY <1>4, <2>2, Zenon DEF RenameInsert, insert, with, TreeTyped, Has, r
    <2>7. node # r.entry
      BY <2>2, <2>5, <2>6, NowhereNow
    <2>8. \A u : Goes(node, u) => Goes(node, u)'
      BY <2>3, <2>7, Zenon DEF Goes, r
    <2>9. PICK d, n : Lies(node, d, n)
      BY <2>8, Zenon DEF Lost
    <2>10. CASE d = r.to /\ n = r.dst
      BY <2>6, <2>7, <2>9, <2>10, OverwrittenIs, Zenon DEF Has
    <2>11. CASE ~(d = r.to /\ n = r.dst)
      <3>1. d \in Nodes /\ n \in DOMAIN entries[d] /\ entries[d][n] = node /\ ~Leaving(d, n) /\ n \in Names
        BY <2>9, Zenon DEF Lies, Has
      <3>. QED  BY <2>4, <2>6, <2>11, <3>1, NowhereNow
    <2>. QED  BY <2>10, <2>11, Zenon
  <1>. QED  BY <1>1, <1>2, <1>3, <1>4, Zenon DEF RenameStep

\* The steps that are not steps of a rename in progress.
LEMMA OthersLoseNothing ==
    ASSUME Inv, NEW node, Lost(node),
           (\E c \in Movers : ReadDirents(c) \/ ConnectionStep(c)) \/ Server
    PROVE  Accounted(node)
  <1>. USE DEF Inv
  <1>1. CASE UNCHANGED <<entries, rename>>
    BY <1>1, NoChange, Zenon
  <1>2. ASSUME NEW d \in Nodes, NEW name, NEW must_be_directory,
               remove_entry_impl(d, name, must_be_directory), UNCHANGED rename
        PROVE  Accounted(node)
    <2>1. Unlocked(d) /\ \A e \in Nodes \ {d} : entries'[e] = entries[e]
      BY <1>2, Zenon DEF remove_entry_impl, TreeTyped
    <2>. QED  BY <1>2, <2>1, LocalChange, Zenon
  <1>3. ASSUME NEW d \in Nodes, NEW name, NEW n, insert(d, name, n), Unlocked(d), UNCHANGED rename
        PROVE  Accounted(node)
    <2>1. \A e \in Nodes \ {d} : entries'[e] = entries[e]
      BY <1>3, Zenon DEF insert, TreeTyped
    <2>. QED  BY <1>3, <2>1, LocalChange, Zenon
  <1>4. ASSUME NEW c \in Movers, OpenMissing(c) PROVE Accounted(node)
    <2>1. conn[c].step = "opening"
      BY <1>4, Zenon DEF OpenMissing
    <2>2. conn[c].at \in Nodes
      BY <2>1, ConnCases, Zenon DEF OpeningConn
    <2>3. CASE UNCHANGED dirVars
      BY <1>1, <2>3, Zenon DEF dirVars
    <2>. QED  BY <1>3, <1>4, <2>2, <2>3, Zenon DEF OpenMissing, get_or_insert
  <1>5. ASSUME NEW c \in Movers, Unlink(c) PROVE Accounted(node)
    <2>1. conn[c].at \in Nodes
      BY <1>5, ConnCases, Zenon DEF Unlink, Ready, ServingConn
    <2>. QED  BY <1>2, <1>5, <2>1, Zenon DEF Unlink
  <1>6. ASSUME NEW c \in Movers, Rename(c) PROVE Accounted(node)
    <2>. DEFINE from == conn[c].at
    <2>1. PICK src, to, dst : to \in tokens /\ rename_call(c, from, src, to, dst)
      BY <1>6, Zenon DEF Rename
    <2>2. from \in Nodes /\ to \in Nodes
      BY <1>6, <2>1, ConnCases, Zenon DEF Rename, Ready, ServingConn, ConnsOK
    <2>. HIDE DEF from
    <2>3. CASE \E first : lock_first(c, from, src, to, dst, first)
      <3>. DEFINE r(first) == [step |-> IF first = from THEN "to" ELSE "from",
                               from |-> from, src |-> src, to |-> to, dst |-> dst]
      <3>1. PICK first : rename' = [rename EXCEPT ![c] = r(first)] /\ UNCHANGED entries
        BY <2>3, Zenon DEF lock_first
      <3>2. r(first).step \in {"to", "from"} /\ rename[c].step = "idle"
        <4>1. rename[c] = Idle
          BY <2>1, Zenon DEF rename_call
        <4>2. rename[c].step = "idle"
          BY <4>1 DEF Idle
        <4>3. r(first).step = IF first = from THEN "to" ELSE "from"
          BY Zenon
        <4>. QED  BY <4>2, <4>3, Zenon
      <3>. HIDE DEF r
      <3>3. rename'[c] = r(first) /\ \A u \in Movers \ {c} : rename'[u] = rename[u]
        BY <3>1, Zenon DEF RenamesTyped
      <3>. QED  BY <3>1, <3>2, <3>3, NoChange, Zenon
    <2>4. CASE from = to /\ rename_within(from, src, dst)
      <3>1. Unlocked(from) /\ UNCHANGED rename /\ \A e \in Nodes \ {from} : entries'[e] = entries[e]
        BY <2>4, Zenon DEF rename_within, TreeTyped
      <3>. QED  BY <2>2, <3>1, LocalChange, Zenon
    <2>. QED  BY <2>1, <2>3, <2>4, Zenon DEF rename_call
  <1>7. ASSUME NEW d \in ServerDirs, ServerAdd(d) \/ ServerRemove(d) PROVE Accounted(node)
    <2>1. d \in Nodes
      BY DirectoryAssumption, Zenon
    <2>. QED  BY <1>2, <1>3, <1>7, <2>1, Zenon DEF ServerAdd, ServerRemove, add_entry_impl
  <1>8. CASE Server
    BY <1>7, <1>8, Zenon DEF Server
  <1>9. ASSUME NEW c \in Movers, ReadDirents(c) \/ ConnectionStep(c) PROVE Accounted(node)
    <2>1. CASE UNCHANGED dirVars
      BY <1>1, <2>1, Zenon DEF dirVars
    <2>. QED
      BY <1>4, <1>5, <1>6, <1>9, <2>1, Zenon DEF ConnectionStep, BaseRequest, MutableRequest, OpenHere, OpenExisting,
         Rewind, CloseConnection, handle_clone, handle_open, GetToken, ReadDirents
  <1>. QED  BY <1>8, <1>9, Zenon

\* A node leaves the tree only when it is overwritten under its own name, or by an
\* unlink, the server or a rename within one directory, under that directory's mutex.
THEOREM RenameLosesNothingHolds == Spec => RenameLosesNothing
  <1>. DEFINE Step == \A node \in Nodes : Places(node) # {} /\ Places(node)' = {} =>
                        \E place \in Places(node) :
                            \/ Has(place[1], place[2])' /\ entries'[place[1]][place[2]] # node
                            \/ UNCHANGED rename /\ Unlocked(place[1])
  <1>1. ASSUME Inv, Next, NEW node \in Nodes, Places(node) # {}, Places(node)' = {}
        PROVE  Accounted(node)
    <2>1. Lost(node)
      BY <1>1, LostIs, Zenon
    <2>2. DirInv
      BY <1>1, Zenon DEF Inv, DirInv
    <2>. QED  BY <1>1, <2>1, <2>2, OthersLoseNothing, RenameStepLosesNothing, Zenon DEF Next, Renaming
  <1>2. Inv /\ [Next]_vars => [Step]_vars
    BY <1>1, Zenon DEF Accounted
  <1>3. Spec => []Inv
    BY DirectoriesInvariant, Zenon
  <1>. QED  BY <1>2, <1>3, PTL DEF Spec, RenameLosesNothing

=============================================================================
