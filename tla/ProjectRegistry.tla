--------------------------- MODULE ProjectRegistry ---------------------------
(***************************************************************************)
(* Which projects the daemon watches: ServerState.projects and .watchers,  *)
(* the FsWatcher the daemon itself owns, the trees it builds, and the      *)
(* projects table they are restored from.                                  *)
(*                                                                         *)
(* The socket handlers watch_project and unwatch_project run concurrently, *)
(* one task per connection, and give way at every lock they await: each    *)
(* such stretch is an action.  The row of the projects table is written by *)
(* a detached blocking task that nobody waits for: such tasks run in any   *)
(* order, whatever the order of the requests that left them.               *)
(*                                                                         *)
(* Entries "agents:<path>" of the projects map (watch_agents) are keys of  *)
(* their own, which no handler here reads; EventLoop has them.             *)
(***************************************************************************)
EXTENDS Naturals, FiniteSets

CONSTANTS
  Paths,     \* canonical directories
  Unsteady,  \* bound: directories that may be removed and made again
  Ids,       \* project ids
  NameOf,    \* [Paths -> Ids], the last component of the path
  Conns,     \* connection tasks
  NoPath,    \* no entry in a map
  Slots,     \* bound: one for each store write that may be pending at once
  CliIds,    \* bound: projects `ambient-fsd watch` / `unwatch` is run for beside the daemon
  Failing    \* bound: projects whose row a write may fail to change (locked, disk full)

ASSUME NamesAssumption == NameOf \in [Paths -> Ids]
ASSUME NoPathAssumption == NoPath \notin Paths
VARIABLES
  phase,      \* the daemon process: down, restoring, serving
  projects,   \* ServerState.projects
  watchers,   \* ServerState.watchers: the path that project's FsWatcher watches
  main,       \* paths the daemon's own FsWatcher watches
  trees,      \* ServerState.trees: the path the project's tree was built from
  stored,     \* the projects table
  restore,    \* rows read at start-up and still to be restored
  exists,     \* directories that are on the disk
  jobs,       \* detached store writes: each slot's, or Free
  req,        \* each connection's request in progress
  raced,      \* history: projects on which two requests were under way at once
  strayed     \* history: projects whose row was not written once by each request

history == <<raced, strayed>>

vars == <<phase, projects, watchers, main, trees, stored, restore, exists, jobs, req, history>>

memory == <<phase, projects, watchers, main, trees, restore>>

Map == [Ids -> Paths \cup {NoPath}]
Empty == [i \in Ids |-> NoPath]

Jobs == [op: {"add"}, id: Ids, path: Paths] \cup [op: {"remove"}, id: Ids, path: {NoPath}]
Free == [op |-> "none"]

Idle == [at |-> "idle"]
WatchRequest == [at: {"hasProject", "getProject", "addProject", "addWatcher"}, path: Paths]
UnwatchRequest == [at: {"removeWatcher", "removeProject"}, id: Ids]

TypeOK ==
  /\ phase \in {"down", "restoring", "serving"}
  /\ projects \in Map /\ watchers \in Map /\ trees \in Map
  /\ stored \in Map /\ restore \in Map
  /\ main \subseteq Paths /\ exists \subseteq Paths
  /\ jobs \in [Slots -> Jobs \cup {Free}]
  /\ req \in [Conns -> {Idle} \cup WatchRequest \cup UnwatchRequest]
  /\ raced \subseteq Ids /\ strayed \subseteq Ids

Init ==
  /\ phase = "down"
  /\ projects = Empty /\ watchers = Empty /\ trees = Empty
  /\ stored = Empty /\ restore = Empty
  /\ main = {}
  /\ exists = Paths
  /\ jobs = [w \in Slots |-> Free]
  /\ req = [c \in Conns |-> Idle]
  /\ raced = {} /\ strayed = {}

At(c, place) == req[c].at = place
Goes(c, r) == req' = [req EXCEPT ![c] = r]

(* A watch or unwatch request of this project. *)
Concerns(c, i) ==
  \/ \E place \in {"hasProject", "getProject", "addProject", "addWatcher"} :
       At(c, place) /\ NameOf[req[c].path] = i
  \/ \E place \in {"removeWatcher", "removeProject"} : At(c, place) /\ req[c].id = i

(* A request of the project begins, perhaps while another is under way. *)
Begins(i) ==
  /\ raced' = IF \E c \in Conns : Concerns(c, i) THEN raced \cup {i} ELSE raced
  /\ UNCHANGED strayed

Strays(ids) == strayed' = strayed \cup ids /\ UNCHANGED raced

Pending(i) == \E w \in Slots : jobs[w] # Free /\ jobs[w].id = i

(* spawn_blocking queues the write and returns at once; its result is      *)
(* dropped.  Two writes of one project that are pending together may come  *)
(* in either order.                                                        *)
Detaches(job) ==
  /\ \E w \in Slots : jobs[w] = Free /\ jobs' = [jobs EXCEPT ![w] = job]
  /\ Strays({i \in {job.id} : Pending(i)})
Ends(w) == jobs' = [jobs EXCEPT ![w] = Free]

-----------------------------------------------------------------------------
(* Seeded faults. *)

ProjectKept(c) ==
  /\ phase = "serving" /\ At(c, "removeProject")
  /\ Detaches([op |-> "remove", id |-> req[c].id, path |-> NoPath])
  /\ Goes(c, Idle)
  /\ UNCHANGED <<phase, projects, watchers, main, trees, stored, restore, exists>>

WritesRemovedRow(c) ==
  /\ phase = "serving" /\ At(c, "removeProject")
  /\ projects' = [projects EXCEPT ![req[c].id] = NoPath]
  /\ Detaches([op |-> "add", id |-> req[c].id, path |-> projects'[req[c].id]])
  /\ Goes(c, Idle)
  /\ UNCHANGED <<phase, watchers, main, trees, stored, restore, exists>>

WatcherForgotten(c) ==
  /\ phase = "serving" /\ At(c, "removeWatcher")
  /\ Goes(c, [at |-> "removeProject", id |-> req[c].id])
  /\ UNCHANGED <<memory, stored, exists, jobs, history>>

RowNotWritten(w) ==
  /\ jobs[w].op = "remove"
  /\ Ends(w)
  /\ UNCHANGED <<memory, stored, exists, req, history>>

StaleRowKept(i) ==
  /\ phase = "restoring" /\ restore[i] # NoPath /\ restore[i] \notin exists
  /\ restore' = [restore EXCEPT ![i] = NoPath]
  /\ UNCHANGED <<phase, projects, watchers, main, trees, stored, exists, jobs, req, history>>

-----------------------------------------------------------------------------
(* handle_watch_project.  A path that is not an existing directory is      *)
(* refused before anything changes.                                        *)
WatchCalled(c, p) ==
  /\ phase = "serving" /\ At(c, "idle") /\ p \in exists
  /\ Goes(c, [at |-> "hasProject", path |-> p])
  /\ Begins(NameOf[p])
  /\ UNCHANGED <<memory, stored, exists, jobs>>

(* FsWatcher::new, start (whose receiver is dropped) and watch.  These may *)
(* fail, and do for a directory that has gone.  The new watcher is local.  *)
Starts(c) ==
  \/ req[c].path \in exists /\ Goes(c, [at |-> "addProject", path |-> req[c].path])
  \/ Goes(c, Idle)

HasNoProject(c) ==
  /\ phase = "serving" /\ At(c, "hasProject")
  /\ projects[NameOf[req[c].path]] = NoPath
  /\ Starts(c)
  /\ UNCHANGED <<memory, stored, exists, jobs, history>>

HasProject(c) ==
  /\ phase = "serving" /\ At(c, "hasProject")
  /\ projects[NameOf[req[c].path]] # NoPath
  /\ Goes(c, [at |-> "getProject", path |-> req[c].path])
  /\ UNCHANGED <<memory, stored, exists, jobs, history>>

AlreadyWatching(c) ==
  /\ phase = "serving" /\ At(c, "getProject")
  /\ projects[NameOf[req[c].path]] = req[c].path
  /\ Goes(c, Idle)
  /\ UNCHANGED <<memory, stored, exists, jobs, history>>

(* Another directory of that name, or none any more: go ahead. *)
NotThisPath(c) ==
  /\ phase = "serving" /\ At(c, "getProject")
  /\ projects[NameOf[req[c].path]] # req[c].path
  /\ Starts(c)
  /\ UNCHANGED <<memory, stored, exists, jobs, history>>

(* In place of another directory of that name, if there is one: its row    *)
(* will stay, and the project strays from it.                              *)
AddsProject(c) ==
  /\ phase = "serving" /\ At(c, "addProject")
  /\ projects' = [projects EXCEPT ![NameOf[req[c].path]] = req[c].path]
  /\ Strays({i \in {NameOf[req[c].path]} : projects[i] # NoPath})
  /\ Goes(c, [at |-> "addWatcher", path |-> req[c].path])
  /\ UNCHANGED <<phase, watchers, main, trees, stored, restore, exists, jobs>>

(* The watcher it replaces is dropped, which stops it; the row is left to  *)
(* a detached task and the client is answered.                             *)
AddsWatcher(c) ==
  /\ phase = "serving" /\ At(c, "addWatcher")
  /\ LET p == req[c].path
         i == NameOf[p]
     IN  /\ watchers' = [watchers EXCEPT ![i] = p]
         /\ Detaches([op |-> "add", id |-> i, path |-> p])
  /\ Goes(c, Idle)
  /\ UNCHANGED <<phase, projects, main, trees, stored, restore, exists>>

-----------------------------------------------------------------------------
(* handle_unwatch_project.  An unknown id is refused. *)
UnwatchCalled(c, i) ==
  /\ phase = "serving" /\ At(c, "idle") /\ projects[i] # NoPath
  /\ Goes(c, [at |-> "removeWatcher", id |-> i])
  /\ Begins(i)
  /\ UNCHANGED <<memory, stored, exists, jobs>>

(* state.remove_watcher, and stop if there was one. *)
RemovesWatcher(c) ==
  /\ phase = "serving" /\ At(c, "removeWatcher")
  /\ watchers' = [watchers EXCEPT ![req[c].id] = NoPath]
  /\ Goes(c, [at |-> "removeProject", id |-> req[c].id])
  /\ UNCHANGED <<phase, projects, main, trees, stored, restore, exists, jobs, history>>

RemovesProject(c) ==
  /\ phase = "serving" /\ At(c, "removeProject")
  /\ projects' = [projects EXCEPT ![req[c].id] = NoPath]
  /\ Detaches([op |-> "remove", id |-> req[c].id, path |-> NoPath])
  /\ Goes(c, Idle)
  /\ UNCHANGED <<phase, watchers, main, trees, stored, restore, exists>>

-----------------------------------------------------------------------------
(* The store.  add_project is INSERT OR IGNORE: a row that is there stays. *)
Inserted(i, p) == [stored EXCEPT ![i] = IF @ = NoPath THEN p ELSE @]

Deleted(i) == [stored EXCEPT ![i] = NoPath]

(* The blocking pool runs detached writes in any order. *)
WritesRow(w) ==
  /\ jobs[w].op = "add"
  /\ stored' = Inserted(jobs[w].id, jobs[w].path)
  /\ Ends(w)
  /\ UNCHANGED <<memory, exists, req, history>>

DeletesRow(w) ==
  /\ jobs[w].op = "remove"
  /\ stored' = Deleted(jobs[w].id)
  /\ Ends(w)
  /\ UNCHANGED <<memory, exists, req, history>>

(* Whatever the error, nobody is told. *)
WriteLost(w) ==
  /\ jobs[w] # Free /\ jobs[w].id \in Failing
  /\ Ends(w)
  /\ Strays({jobs[w].id})
  /\ UNCHANGED <<memory, stored, exists, req>>

(* `ambient-fsd watch` and `unwatch` run DaemonServer::watch_project and   *)
(* unwatch_project in a process of their own: of what these do, only the   *)
(* row outlives the command.                                               *)
CliWatch(p) ==
  /\ NameOf[p] \in CliIds /\ p \in exists
  /\ stored' = Inserted(NameOf[p], p)
  /\ Strays({NameOf[p]})
  /\ UNCHANGED <<memory, exists, jobs, req>>

CliUnwatch(i) ==
  /\ i \in CliIds
  /\ stored' = Deleted(i)
  /\ Strays({i})
  /\ UNCHANGED <<memory, exists, jobs, req>>

-----------------------------------------------------------------------------
(* DaemonServer::run: restore_projects comes before the socket is bound.   *)
Start ==
  /\ phase = "down"
  /\ phase' = "restoring"
  /\ restore' = stored
  /\ strayed' = {} /\ UNCHANGED raced
  /\ UNCHANGED <<projects, watchers, main, trees, stored, exists, jobs, req>>

(* The scan for the tree fails if the directory goes away under it.        *)
Restores(i) ==
  /\ phase = "restoring" /\ restore[i] # NoPath /\ restore[i] \in exists
  /\ main' = main \cup {restore[i]}
  /\ projects' = [projects EXCEPT ![i] = restore[i]]
  /\ \/ trees' = [trees EXCEPT ![i] = restore[i]]
     \/ restore[i] \in Unsteady /\ UNCHANGED trees
  /\ restore' = [restore EXCEPT ![i] = NoPath]
  /\ UNCHANGED <<phase, watchers, stored, exists, jobs, req, history>>

Forgets(i) ==
  \/ stored' = Deleted(i) /\ UNCHANGED history
  \/ i \in Failing /\ Strays({i}) /\ UNCHANGED stored

(* The directory is gone: its row is removed, and waited for. *)
ForgetsStale(i) ==
  /\ phase = "restoring" /\ restore[i] # NoPath /\ restore[i] \notin exists
  /\ Forgets(i)
  /\ restore' = [restore EXCEPT ![i] = NoPath]
  /\ UNCHANGED <<phase, projects, watchers, main, trees, exists, jobs, req>>

(* watcher.watch() fails, as when the inotify limit is reached: the row of *)
(* an existing directory is removed too.                                   *)
ForgetsUnwatchable(i) ==
  /\ phase = "restoring" /\ restore[i] # NoPath /\ restore[i] \in exists
  /\ Forgets(i)
  /\ restore' = [restore EXCEPT ![i] = NoPath]
  /\ UNCHANGED <<phase, projects, watchers, main, trees, exists, jobs, req>>

Serve ==
  /\ phase = "restoring" /\ restore = Empty
  /\ phase' = "serving"
  /\ UNCHANGED <<projects, watchers, main, trees, stored, restore, exists, jobs, req, history>>

(* The process dies: memory, requests and detached writes go with it.      *)
Crash ==
  /\ phase # "down"
  /\ phase' = "down"
  /\ projects' = Empty /\ watchers' = Empty /\ trees' = Empty /\ restore' = Empty
  /\ main' = {}
  /\ jobs' = [w \in Slots |-> Free]
  /\ req' = [c \in Conns |-> Idle]
  /\ raced' = {} /\ UNCHANGED strayed
  /\ UNCHANGED <<stored, exists>>

(* Directories come and go under the daemon. *)
DirectoryChanges(p) ==
  /\ p \in Unsteady
  /\ exists' = IF p \in exists THEN exists \ {p} ELSE exists \cup {p}
  /\ UNCHANGED <<memory, stored, jobs, req, history>>

(* handle_watch_project and the gRPC service's watch_project, which takes  *)
(* the same steps on the same state; so do the two unwatches.              *)
Watch(c) ==
  \/ HasNoProject(c)
  \/ HasProject(c)
  \/ AlreadyWatching(c)
  \/ NotThisPath(c)
  \/ AddsProject(c)
  \/ AddsWatcher(c)

Unwatch(c) == RemovesWatcher(c) \/ RemovesProject(c)

Next ==
  \/ \E c \in Conns :
       \/ Watch(c)
       \/ Unwatch(c)
       \/ \E p \in Paths : WatchCalled(c, p)
       \/ \E i \in Ids : UnwatchCalled(c, i)
  \/ \E w \in Slots : WritesRow(w) \/ DeletesRow(w) \/ WriteLost(w)
  \/ \E p \in Paths : CliWatch(p) \/ DirectoryChanges(p)
  \/ \E i \in Ids :
       CliUnwatch(i) \/ Restores(i) \/ ForgetsStale(i) \/ ForgetsUnwatchable(i)
  \/ Start
  \/ Serve
  \/ Crash

Spec == Init /\ [][Next]_vars

-----------------------------------------------------------------------------
Settled(i) == phase = "serving" /\ \A c \in Conns : ~Concerns(c, i)

(* However watch and unwatch requests of several clients interleave, a     *)
(* project is listed while nothing watches it only during a request that   *)
(* is about to mend that: watch_project enters the project before its      *)
(* watcher and unwatch_project removes them in the opposite order.         *)
NoBlindProject ==
  phase = "serving" =>
    \A i \in Ids :
      projects[i] # NoPath /\ watchers[i] = NoPath /\ projects[i] \notin main =>
        \E c \in Conns :
          \/ At(c, "addWatcher") /\ NameOf[req[c].path] = i
          \/ At(c, "removeProject") /\ req[c].id = i

(* A project of which no request is under way has its own watcher on the   *)
(* project's path, if it has one, and no watcher is left without a         *)
(* project: whatever requests of other projects do meanwhile, unless two   *)
(* requests of this one ran at once since the daemon started.              *)
WatchersAgree ==
  \A i \in Ids \ raced :
    Settled(i) /\ watchers[i] # NoPath => watchers[i] = projects[i]

(* "Project ID -> Watcher mapping (one watcher per project)" (state.rs:24):*)
(* a project of which no request is under way has that watcher.            *)
OneWatcherPerProject ==
  \A i \in Ids : Settled(i) /\ watchers[i] # NoPath => watchers[i] = projects[i]

(* A project of which neither a request nor a write is under way is in the *)
(* table exactly when and as the daemon has it, so a restart changes       *)
(* nothing: however the writes of the other projects are ordered, and      *)
(* unless requests or writes of this one overlapped, a write failed, the   *)
(* command line wrote beside the daemon or a directory of the same name    *)
(* took the project over since the daemon started.                         *)
StoreAgrees ==
  \A i \in Ids \ (raced \cup strayed) :
    Settled(i) /\ ~Pending(i) => stored[i] = projects[i]

(* When the daemon starts serving, it watches itself exactly the projects  *)
(* it lists and has trees of no others, and these are what is left in the  *)
(* projects table: rows it could not restore have been removed             *)
(* (server.rs:119-122), but for what the command line wrote meanwhile and  *)
(* what could not be deleted.                                              *)
RestoreSettles ==
  [][phase = "restoring" /\ phase' = "serving" =>
       /\ \A i \in Ids : trees'[i] \in {projects'[i], NoPath}
       /\ main' = {projects'[i] : i \in Ids} \ {NoPath}
       /\ \A i \in Ids \ strayed' : projects'[i] = stored'[i]]_vars

=============================================================================
