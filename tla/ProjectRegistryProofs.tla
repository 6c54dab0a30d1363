------------------------ MODULE ProjectRegistryProofs ------------------------
(***************************************************************************)
(* For any directories, names, connections and number of store writes that *)
(* are pending at once, for a command line beside the daemon and a store   *)
(* that fails: what the daemon lists, watches, has trees of and stores     *)
(* agree, but for the projects in raced and strayed.                       *)
(***************************************************************************)
EXTENDS ProjectRegistry, TLAPS


-----------------------------------------------------------------------------
(* Types. *)

Request == {Idle} \cup WatchRequest \cup UnwatchRequest

(* The stages of a request, and what each carries along. *)
LEMMA RequestStages ==
  ASSUME TypeOK, NEW c \in Conns
  PROVE  /\ req[c] \in Request
         /\ At(c, "idle") <=> req[c] = Idle
         /\ At(c, "hasProject") \/ At(c, "getProject") \/ At(c, "addProject") \/ At(c, "addWatcher")
              => /\ req[c].path \in Paths /\ NameOf[req[c].path] \in Ids
         /\ At(c, "removeWatcher") \/ At(c, "removeProject") => req[c].id \in Ids
  BY NamesAssumption DEF TypeOK, Request, Idle, WatchRequest, UnwatchRequest, At

(* A request in progress goes on with a request of its kind. *)
LEMMA GoesOn ==
  ASSUME TypeOK, NEW c \in Conns, NEW r \in Request, Goes(c, r)
  PROVE  /\ req' \in [Conns -> Request]
         /\ req'[c] = r
         /\ \A d \in Conns \ {c} : req'[d] = req[d]
  BY DEF TypeOK, Request, Goes

(* The places a watch or unwatch request passes. *)
LEMMA RequestTypes ==
  /\ Idle \in Request
  /\ \A place \in {"hasProject", "getProject", "addProject", "addWatcher"}, p \in Paths :
       [at |-> place, path |-> p] \in Request
  /\ \A place \in {"removeWatcher", "removeProject"}, i \in Ids : [at |-> place, id |-> i] \in Request
  BY DEF Request, WatchRequest, UnwatchRequest

(* A pending write is one of a project's row. *)
LEMMA JobOfSlot ==
  ASSUME TypeOK, NEW w \in Slots
  PROVE  /\ jobs[w] = Free \/ jobs[w] \in Jobs
         /\ jobs[w].op = "add" => jobs[w].id \in Ids /\ jobs[w].path \in Paths /\ jobs[w] \in Jobs
         /\ jobs[w].op = "remove" => jobs[w].id \in Ids /\ jobs[w] \in Jobs
  BY DEF TypeOK, Jobs, Free

(* Handing a write over, or ending it, changes one slot. *)
LEMMA SlotStep ==
  ASSUME TypeOK
  PROVE  /\ \A job \in Jobs : Detaches(job) => jobs' \in [Slots -> Jobs \cup {Free}]
         /\ \A w \in Slots : Ends(w) => jobs' \in [Slots -> Jobs \cup {Free}]
  BY DEF TypeOK, Detaches, Ends

(* The history marks projects only. *)
LEMMA HistoryTypes ==
  ASSUME TypeOK
  PROVE  /\ UNCHANGED history => raced' \subseteq Ids /\ strayed' \subseteq Ids
         /\ \A i \in Ids : Begins(i) => raced' \subseteq Ids /\ strayed' \subseteq Ids
         /\ \A ids \in SUBSET Ids : Strays(ids) => raced' \subseteq Ids /\ strayed' \subseteq Ids
         /\ \A job \in Jobs : Detaches(job) => raced' \subseteq Ids /\ strayed' \subseteq Ids
         /\ \A i \in Ids : Forgets(i) => raced' \subseteq Ids /\ strayed' \subseteq Ids
<1>1. \A job \in Jobs : {i \in {job.id} : Pending(i)} \subseteq Ids
  BY DEF Jobs
<1> QED
  BY <1>1 DEF TypeOK, history, Begins, Strays, Detaches, Forgets

(* The empty daemon. *)
LEMMA TypesInit == Init => TypeOK
  BY DEF Init, TypeOK, Map, Empty

(* Every step of a handler, of the command line, of restore and crash      *)
(* keeps the types.                                                        *)
LEMMA TypesStep == TypeOK /\ [Next]_vars => TypeOK'
<1> SUFFICES ASSUME TypeOK, [Next]_vars PROVE TypeOK'
  OBVIOUS
<1>1. ASSUME req' \in [Conns -> Request], raced' \subseteq Ids, strayed' \subseteq Ids,
             UNCHANGED <<phase, projects, watchers, main, trees, restore, stored, exists, jobs>>
      PROVE  TypeOK'
  BY <1>1 DEF TypeOK, Request
<1>2. ASSUME NEW c \in Conns, Watch(c) PROVE TypeOK'
  <2>1. CASE HasNoProject(c) \/ NotThisPath(c)
    <3>1. req[c].path \in Paths
      BY <2>1, RequestStages DEF HasNoProject, NotThisPath
    <3>2. req' \in [Conns -> Request]
      BY <2>1, <3>1, RequestTypes, GoesOn DEF HasNoProject, NotThisPath, Starts
    <3>3. UNCHANGED <<memory, stored, exists, jobs, history>>
      BY <2>1 DEF HasNoProject, NotThisPath
    <3> QED
      BY <1>1, <3>2, <3>3, HistoryTypes DEF memory
  <2>2. CASE HasProject(c) \/ AlreadyWatching(c)
    <3>1. req[c].path \in Paths
      BY <2>2, RequestStages DEF HasProject, AlreadyWatching
    <3>2. req' \in [Conns -> Request]
      BY <2>2, <3>1, RequestTypes, GoesOn DEF HasProject, AlreadyWatching
    <3>3. UNCHANGED <<memory, stored, exists, jobs, history>>
      BY <2>2 DEF HasProject, AlreadyWatching
    <3> QED
      BY <1>1, <3>2, <3>3, HistoryTypes DEF memory
  <2>3. CASE AddsProject(c)
    <3>1. req[c].path \in Paths /\ NameOf[req[c].path] \in Ids
      BY <2>3, RequestStages DEF AddsProject
    <3>2. req' \in [Conns -> Request]
      BY <2>3, <3>1, RequestTypes, GoesOn DEF AddsProject
    <3>3. raced' \subseteq Ids /\ strayed' \subseteq Ids
      BY <2>3, <3>1, HistoryTypes DEF AddsProject
    <3> QED
      BY <2>3, <3>1, <3>2, <3>3 DEF AddsProject, TypeOK, Map, Request
  <2>4. CASE AddsWatcher(c)
    <3>1. req[c].path \in Paths /\ NameOf[req[c].path] \in Ids
      BY <2>4, RequestStages DEF AddsWatcher
    <3>2. req' \in [Conns -> Request]
      BY <2>4, RequestTypes, GoesOn DEF AddsWatcher
    <3>3. [op |-> "add", id |-> NameOf[req[c].path], path |-> req[c].path] \in Jobs
      BY <3>1 DEF Jobs
    <3>4. jobs' \in [Slots -> Jobs \cup {Free}] /\ raced' \subseteq Ids /\ strayed' \subseteq Ids
      BY <2>4, <3>3, SlotStep, HistoryTypes DEF AddsWatcher
    <3> QED
      BY <2>4, <3>1, <3>2, <3>4 DEF AddsWatcher, TypeOK, Map, Request
  <2> QED
    BY <1>2, <2>1, <2>2, <2>3, <2>4 DEF Watch
<1>3. ASSUME NEW c \in Conns, Unwatch(c) PROVE TypeOK'
  <2>1. req[c].id \in Ids
    BY <1>3, RequestStages DEF Unwatch, RemovesWatcher, RemovesProject
  <2>2. req' \in [Conns -> Request]
    BY <1>3, <2>1, RequestTypes, GoesOn DEF Unwatch, RemovesWatcher, RemovesProject
  <2>3. [op |-> "remove", id |-> req[c].id, path |-> NoPath] \in Jobs
    BY <2>1 DEF Jobs
  <2>4. CASE RemovesWatcher(c)
    <3>1. raced' \subseteq Ids /\ strayed' \subseteq Ids
      BY <2>4, HistoryTypes DEF RemovesWatcher
    <3> QED
      BY <2>1, <2>2, <2>4, <3>1 DEF RemovesWatcher, TypeOK, Map, Request
  <2>5. CASE RemovesProject(c)
    <3>1. jobs' \in [Slots -> Jobs \cup {Free}] /\ raced' \subseteq Ids /\ strayed' \subseteq Ids
      BY <2>3, <2>5, SlotStep, HistoryTypes DEF RemovesProject
    <3> QED
      BY <2>1, <2>2, <2>5, <3>1 DEF RemovesProject, TypeOK, Map, Request
  <2> QED
    BY <1>3, <2>4, <2>5 DEF Unwatch
<1>4. ASSUME NEW c \in Conns, NEW p \in Paths, WatchCalled(c, p) PROVE TypeOK'
  <2>1. req' \in [Conns -> Request]
    BY <1>4, RequestTypes, GoesOn DEF WatchCalled
  <2>2. raced' \subseteq Ids /\ strayed' \subseteq Ids
    BY <1>4, HistoryTypes, NamesAssumption DEF WatchCalled
  <2> QED
    BY <1>1, <1>4, <2>1, <2>2 DEF WatchCalled, memory
<1>5. ASSUME NEW c \in Conns, NEW i \in Ids, UnwatchCalled(c, i) PROVE TypeOK'
  <2>1. req' \in [Conns -> Request]
    BY <1>5, RequestTypes, GoesOn DEF UnwatchCalled
  <2>2. raced' \subseteq Ids /\ strayed' \subseteq Ids
    BY <1>5, HistoryTypes DEF UnwatchCalled
  <2> QED
    BY <1>1, <1>5, <2>1, <2>2 DEF UnwatchCalled, memory
<1>6. ASSUME NEW w \in Slots, WritesRow(w) \/ DeletesRow(w) \/ WriteLost(w) PROVE TypeOK'
  <2>1. jobs' \in [Slots -> Jobs \cup {Free}]
    BY <1>6, SlotStep DEF WritesRow, DeletesRow, WriteLost
  <2>2. stored' \in Map
    BY <1>6, JobOfSlot DEF WritesRow, DeletesRow, WriteLost, Inserted, Deleted, TypeOK, Map
  <2>3. WriteLost(w) => jobs[w].id \in Ids
    BY JobOfSlot DEF WriteLost, Jobs
  <2>4. raced' \subseteq Ids /\ strayed' \subseteq Ids
    BY <1>6, <2>3, HistoryTypes DEF WritesRow, DeletesRow, WriteLost
  <2> QED
    BY <1>6, <2>1, <2>2, <2>4 DEF WritesRow, DeletesRow, WriteLost, TypeOK, memory
<1>7. ASSUME NEW p \in Paths, CliWatch(p) \/ DirectoryChanges(p) PROVE TypeOK'
  <2>1. stored' \in Map /\ exists' \subseteq Paths
    BY <1>7, NamesAssumption DEF CliWatch, DirectoryChanges, Inserted, TypeOK, Map
  <2>2. raced' \subseteq Ids /\ strayed' \subseteq Ids
    BY <1>7, HistoryTypes, NamesAssumption DEF CliWatch, DirectoryChanges
  <2> QED
    BY <1>7, <2>1, <2>2 DEF CliWatch, DirectoryChanges, TypeOK, memory
<1>8. ASSUME NEW i \in Ids, CliUnwatch(i) \/ Restores(i) \/ ForgetsStale(i) \/ ForgetsUnwatchable(i)
      PROVE  TypeOK'
  <2>0. raced' \subseteq Ids /\ strayed' \subseteq Ids
    BY <1>8, HistoryTypes DEF CliUnwatch, Restores, ForgetsStale, ForgetsUnwatchable
  <2>1. CASE CliUnwatch(i) \/ ForgetsStale(i) \/ ForgetsUnwatchable(i)
    <3>1. stored' \in Map /\ restore' \in Map
      BY <2>1 DEF CliUnwatch, ForgetsStale, ForgetsUnwatchable, Forgets, Deleted, TypeOK, Map, memory
    <3> QED
      BY <2>0, <2>1, <3>1 DEF CliUnwatch, ForgetsStale, ForgetsUnwatchable, TypeOK, memory
  <2>2. CASE Restores(i)
    <3>1. restore[i] \in Paths
      BY <2>2 DEF Restores, TypeOK
    <3> QED
      BY <2>0, <2>2, <3>1 DEF Restores, TypeOK, Map
  <2> QED
    BY <1>8, <2>1, <2>2
<1>9. CASE Start \/ Serve
  <2>1. raced' \subseteq Ids /\ strayed' \subseteq Ids
    BY <1>9 DEF Start, Serve, TypeOK, history
  <2> QED
    BY <1>9, <2>1 DEF Start, Serve, TypeOK
<1>10. CASE Crash
  BY <1>10 DEF Crash, TypeOK, Map, Empty
<1>11. CASE UNCHANGED vars
  BY <1>11 DEF vars, history, TypeOK
<1> QED
  BY <1>2, <1>3, <1>4, <1>5, <1>6, <1>7, <1>8, <1>9, <1>10, <1>11 DEF Next

(* The maps, the rows, the writes and the requests keep their shapes: no     *)
(* handler, detached write or restore leaves half an entry behind.         *)
THEOREM Types == Spec => []TypeOK
  BY TypesInit, TypesStep, PTL DEF Spec

-----------------------------------------------------------------------------
(* No project is listed without a watcher for long. *)

(* A request is about to give the project a watcher or to take its entry.  *)
Mends(c, i) ==
  \/ At(c, "addWatcher") /\ NameOf[req[c].path] = i
  \/ At(c, "removeProject") /\ req[c].id = i

Watched(i) == projects[i] # NoPath => watchers[i] # NoPath \/ projects[i] \in main

(* Before it serves, the daemon lists nothing that its own watcher does    *)
(* not have; no watcher is dropped while a project is restored.            *)
BlindInv ==
  /\ phase = "down" => projects = Empty
  /\ phase = "restoring" => \A i \in Ids : projects[i] # NoPath => projects[i] \in main
  /\ phase = "serving" => \A i \in Ids : Watched(i) \/ \E c \in Conns : Mends(c, i)

(* A daemon that has not restored lists nothing. *)
LEMMA BlindInit == Init => BlindInv
  BY DEF Init, BlindInv

(* Each step keeps it: who lists a project, request or restore, goes on to *)
(* watch it.                                                               *)
LEMMA BlindStep == TypeOK /\ BlindInv /\ [Next]_vars => BlindInv'
<1> SUFFICES ASSUME TypeOK, BlindInv, [Next]_vars PROVE BlindInv'
  OBVIOUS
<1>1. ASSUME UNCHANGED <<phase, projects, watchers, main, req>> PROVE BlindInv'
  BY <1>1 DEF BlindInv, Watched, Mends, At
<1>2. ASSUME NEW c \in Conns, NEW r \in Request, Goes(c, r),
             UNCHANGED <<phase, projects, watchers, main>>,
             ~At(c, "addWatcher"), ~At(c, "removeProject")
      PROVE  BlindInv'
  <2>1. \A d \in Conns, i \in Ids : Mends(d, i) => Mends(d, i)'
    BY <1>2, GoesOn DEF Mends, At
  <2> QED
    BY <1>2, <2>1 DEF BlindInv, Watched
<1>3. ASSUME NEW c \in Conns, Watch(c) PROVE BlindInv'
  <2>1. CASE HasNoProject(c) \/ NotThisPath(c)
    <3>1. PICK r \in Request : Goes(c, r)
      BY <2>1, RequestStages, RequestTypes DEF HasNoProject, NotThisPath, Starts
    <3> QED
      BY <1>2, <2>1, <3>1 DEF HasNoProject, NotThisPath, memory, At
  <2>2. CASE HasProject(c) \/ AlreadyWatching(c)
    <3>1. PICK r \in Request : Goes(c, r)
      BY <2>2, RequestStages, RequestTypes DEF HasProject, AlreadyWatching
    <3> QED
      BY <1>2, <2>2, <3>1 DEF HasProject, AlreadyWatching, memory, At
  <2>3. CASE AddsProject(c)
    <3>0. PICK p \in Paths : p = req[c].path /\ NameOf[p] \in Ids
      BY <2>3, RequestStages DEF AddsProject
    <3>1. p = req[c].path /\ NameOf[p] \in Ids
      BY <3>0
    <3>2. req'[c] = [at |-> "addWatcher", path |-> p] /\ \A d \in Conns \ {c} : req'[d] = req[d]
      BY <2>3, <3>1, RequestTypes, GoesOn DEF AddsProject
    <3>3. Mends(c, NameOf[p])'
      BY <3>2 DEF Mends, At
    <3>4. \A d \in Conns, i \in Ids : Mends(d, i) => Mends(d, i)'
      BY <2>3, <3>2 DEF Mends, At, AddsProject
    <3>5. \A i \in Ids \ {NameOf[p]} : projects'[i] = projects[i]
      BY <2>3, <3>1 DEF AddsProject, TypeOK, Map
    <3>6. \A i \in Ids \ {NameOf[p]} : Watched(i)' <=> Watched(i)
      BY <2>3, <3>5 DEF Watched, AddsProject
    <3>7. phase = "serving" /\ phase' = "serving"
      BY <2>3 DEF AddsProject
    <3> QED
      BY <3>1, <3>3, <3>4, <3>6, <3>7 DEF BlindInv
  <2>4. CASE AddsWatcher(c)
    <3>0. PICK p \in Paths : p = req[c].path /\ NameOf[p] \in Ids
      BY <2>4, RequestStages DEF AddsWatcher
    <3>1. p = req[c].path /\ NameOf[p] \in Ids
      BY <3>0
    <3>2. \A d \in Conns \ {c} : req'[d] = req[d]
      BY <2>4, RequestTypes, GoesOn DEF AddsWatcher
    <3>3. At(c, "addWatcher") /\ phase = "serving" /\ phase' = "serving" /\ UNCHANGED <<projects, main>>
      BY <2>4 DEF AddsWatcher
    <3>4. \A d \in Conns, i \in Ids \ {NameOf[p]} : Mends(d, i) => Mends(d, i)'
      BY <3>1, <3>2, <3>3 DEF Mends, At
    <3>5. watchers'[NameOf[p]] = p /\ \A i \in Ids \ {NameOf[p]} : watchers'[i] = watchers[i]
      BY <2>4, <3>1 DEF AddsWatcher, TypeOK, Map
    <3>6. Watched(NameOf[p])' /\ \A i \in Ids \ {NameOf[p]} : Watched(i)' <=> Watched(i)
      BY <3>1, <3>3, <3>5, NoPathAssumption DEF Watched
    <3> QED
      BY <3>3, <3>4, <3>6 DEF BlindInv
  <2> QED
    BY <1>3, <2>1, <2>2, <2>3, <2>4 DEF Watch
<1>4. ASSUME NEW c \in Conns, Unwatch(c) PROVE BlindInv'
  <2>1. PICK o \in Ids : o = req[c].id
    BY <1>4, RequestStages DEF Unwatch, RemovesWatcher, RemovesProject
  <2>2. \A d \in Conns \ {c} : req'[d] = req[d]
    BY <1>4, <2>1, RequestTypes, GoesOn DEF Unwatch, RemovesWatcher, RemovesProject
  <2>3. CASE RemovesWatcher(c)
    <3>1. Mends(c, o)'
      BY <2>1, <2>3, RequestTypes, GoesOn DEF RemovesWatcher, Mends, At
    <3>2. \A d \in Conns, i \in Ids : Mends(d, i) => Mends(d, i)'
      BY <2>2, <2>3 DEF Mends, At, RemovesWatcher
    <3>3. \A i \in Ids \ {o} : Watched(i)' <=> Watched(i)
      BY <2>1, <2>3 DEF Watched, RemovesWatcher, TypeOK, Map
    <3> QED
      BY <2>1, <2>3, <3>1, <3>2, <3>3 DEF BlindInv, RemovesWatcher
  <2>4. CASE RemovesProject(c)
    <3>1. \A d \in Conns, i \in Ids \ {o} : Mends(d, i) => Mends(d, i)'
      BY <2>1, <2>2, <2>4 DEF Mends, At, RemovesProject
    <3>2. Watched(o)' /\ \A i \in Ids \ {o} : Watched(i)' <=> Watched(i)
      BY <2>1, <2>4 DEF Watched, RemovesProject, TypeOK, Map
    <3> QED
      BY <2>1, <2>4, <3>1, <3>2 DEF BlindInv, RemovesProject
  <2> QED
    BY <1>4, <2>3, <2>4 DEF Unwatch
<1>5. ASSUME NEW c \in Conns, NEW p \in Paths, WatchCalled(c, p) PROVE BlindInv'
  <2>1. ~At(c, "addWatcher") /\ ~At(c, "removeProject")
    BY <1>5 DEF WatchCalled, At
  <2> QED
    BY <1>2, <1>5, <2>1, RequestTypes DEF WatchCalled, memory
<1>6. ASSUME NEW c \in Conns, NEW i \in Ids, UnwatchCalled(c, i) PROVE BlindInv'
  <2>1. ~At(c, "addWatcher") /\ ~At(c, "removeProject")
    BY <1>6 DEF UnwatchCalled, At
  <2> QED
    BY <1>2, <1>6, <2>1, RequestTypes DEF UnwatchCalled, memory
<1>7. ASSUME NEW i \in Ids, Restores(i) PROVE BlindInv'
  <2>1. restore[i] \in main' /\ main \subseteq main'
    BY <1>7 DEF Restores
  <2>2. \A o \in Ids : projects'[o] = IF o = i THEN restore[i] ELSE projects[o]
    BY <1>7 DEF Restores, TypeOK, Map
  <2> QED
    BY <1>7, <2>1, <2>2 DEF BlindInv, Restores
<1>8. CASE Start
  BY <1>8 DEF Start, BlindInv, Empty
<1>9. CASE Serve
  BY <1>9 DEF Serve, BlindInv, Watched
<1>10. CASE Crash
  BY <1>10 DEF Crash, BlindInv
<1>11. ASSUME \/ \E w \in Slots : WritesRow(w) \/ DeletesRow(w) \/ WriteLost(w)
              \/ \E p \in Paths : CliWatch(p) \/ DirectoryChanges(p)
              \/ \E i \in Ids : CliUnwatch(i) \/ ForgetsStale(i) \/ ForgetsUnwatchable(i)
              \/ UNCHANGED vars
       PROVE  BlindInv'
  <2>1. UNCHANGED <<phase, projects, watchers, main, req>>
    BY <1>11 DEF WritesRow, DeletesRow, WriteLost, CliWatch, DirectoryChanges, CliUnwatch,
                 ForgetsStale, ForgetsUnwatchable, vars, memory
  <2> QED
    BY <1>1, <2>1
<1> QED
  BY <1>3, <1>4, <1>5, <1>6, <1>7, <1>8, <1>9, <1>10, <1>11 DEF Next

(* However watch and unwatch requests of any number of clients interleave, *)
(* also over directories of one name, with the command line, crashes and   *)
(* failing writes: a project is listed without a watcher only while a      *)
(* request that mends it is under way.                                     *)
THEOREM NoProjectStaysBlind == Spec => []NoBlindProject
<1>1. BlindInv => NoBlindProject
  BY DEF BlindInv, NoBlindProject, Watched, Mends
<1> QED
  BY <1>1, TypesInit, TypesStep, BlindInit, BlindStep, PTL DEF Spec

-----------------------------------------------------------------------------
(* A restart settles the table and the memory on one another.              *)

(* Nothing is under way before the daemon serves. *)
Still == (\A w \in Slots : jobs[w] = Free) /\ (\A c \in Conns : req[c] = Idle)

(* A row is still to be restored, or it has been: then the map says the    *)
(* same of the project, unless the row strayed, and a tree is of it.       *)
Reconciled(i) ==
  /\ restore[i] # NoPath => projects[i] = NoPath
  /\ trees[i] \in {projects[i], NoPath}
  /\ i \notin strayed => stored[i] = IF restore[i] # NoPath THEN restore[i] ELSE projects[i]

RestoreInv ==
  /\ phase # "serving" => Still
  /\ phase = "down" => projects = Empty /\ trees = Empty /\ main = {}
  /\ phase = "restoring" =>
       /\ \A i \in Ids : Reconciled(i)
       /\ main = {projects[i] : i \in Ids} \ {NoPath}

(* Nothing is listed before the restore. *)
LEMMA RestoreInit == Init => RestoreInv
  BY DEF Init, RestoreInv, Still

(* Each step keeps it: restore reads the table once and then works it off. *)
LEMMA RestoreStep ==
  ASSUME TypeOK, RestoreInv, [Next]_vars
  PROVE  /\ RestoreInv'
         /\ phase = "restoring" /\ phase' = "serving" =>
              /\ \A i \in Ids : trees'[i] \in {projects'[i], NoPath}
              /\ main' = {projects'[i] : i \in Ids} \ {NoPath}
              /\ \A i \in Ids \ strayed' : projects'[i] = stored'[i]
<1>1. CASE UNCHANGED <<phase, projects, main, trees, stored, restore, jobs, req, strayed>>
  BY <1>1 DEF RestoreInv, Still, Reconciled
<1>2. CASE phase = "serving" /\ phase' = "serving"
  BY <1>2 DEF RestoreInv
<1>3. ASSUME NEW c \in Conns,
             \/ Watch(c) \/ Unwatch(c)
             \/ \E p \in Paths : WatchCalled(c, p)
             \/ \E i \in Ids : UnwatchCalled(c, i)
      PROVE  phase = "serving" /\ phase' = "serving"
  BY <1>3 DEF Watch, HasNoProject, HasProject, AlreadyWatching, NotThisPath, AddsProject, AddsWatcher,
              Unwatch, RemovesWatcher, RemovesProject, WatchCalled, UnwatchCalled, memory
<1>4. ASSUME NEW w \in Slots, WritesRow(w) \/ DeletesRow(w) \/ WriteLost(w)
      PROVE  phase = "serving" /\ phase' = "serving"
  <2>1. jobs[w] # Free /\ UNCHANGED phase
    BY <1>4 DEF WritesRow, DeletesRow, WriteLost, Free, memory
  <2> QED
    BY <2>1 DEF RestoreInv, Still, TypeOK
<1>5. ASSUME NEW p \in Paths, DirectoryChanges(p)
      PROVE  UNCHANGED <<phase, projects, main, trees, stored, restore, jobs, req, strayed>>
  BY <1>5 DEF DirectoryChanges, memory, history
<1>6. ASSUME NEW i \in Ids, \A o \in Ids \ {i} : stored'[o] = stored[o], Strays({i}),
             UNCHANGED <<memory, jobs, req>>
      PROVE  RestoreInv' /\ phase' = phase
  <2>1. \A o \in Ids : Reconciled(o) => Reconciled(o)'
    BY <1>6 DEF Reconciled, Strays, memory
  <2> QED
    BY <1>6, <2>1 DEF RestoreInv, Still, memory
<1>7. ASSUME NEW p \in Paths, CliWatch(p) PROVE RestoreInv' /\ phase' = phase
  <2>1. NameOf[p] \in Ids /\ \A o \in Ids \ {NameOf[p]} : stored'[o] = stored[o]
    BY <1>7, NamesAssumption DEF CliWatch, Inserted, TypeOK, Map
  <2> QED
    BY <1>6, <1>7, <2>1 DEF CliWatch
<1>8. ASSUME NEW i \in Ids, CliUnwatch(i) PROVE RestoreInv' /\ phase' = phase
  <2>1. \A o \in Ids \ {i} : stored'[o] = stored[o]
    BY <1>8 DEF CliUnwatch, Deleted, TypeOK, Map
  <2> QED
    BY <1>6, <1>8, <2>1 DEF CliUnwatch
<1>9. ASSUME NEW i \in Ids, Restores(i)
      PROVE  RestoreInv' /\ phase' = "restoring"
  <2>1. phase = "restoring" /\ phase' = "restoring" /\ Reconciled(i) /\ restore[i] # NoPath
    BY <1>9 DEF Restores, RestoreInv
  <2>2. /\ \A o \in Ids : projects'[o] = IF o = i THEN restore[i] ELSE projects[o]
        /\ \A o \in Ids : trees'[o] = trees[o] \/ (o = i /\ trees'[i] = restore[i])
        /\ \A o \in Ids : restore'[o] = IF o = i THEN NoPath ELSE restore[o]
        /\ stored' = stored /\ strayed' = strayed /\ main' = main \cup {restore[i]}
        /\ UNCHANGED <<jobs, req>>
    BY <1>9 DEF Restores, TypeOK, Map, history
  <2>3. \A o \in Ids : Reconciled(o)'
    <3>1. Reconciled(i)'
      BY <2>1, <2>2 DEF Reconciled
    <3>2. ASSUME NEW o \in Ids \ {i} PROVE Reconciled(o)'
      BY <2>1, <2>2 DEF Reconciled, RestoreInv
    <3> QED
      BY <3>1, <3>2
  <2>4. main' = {projects'[o] : o \in Ids} \ {NoPath}
    <3>1. main = {projects[o] : o \in Ids} \ {NoPath} /\ projects[i] = NoPath
      BY <2>1 DEF RestoreInv, Reconciled
    <3>2. {projects'[o] : o \in Ids} \ {NoPath} = ({projects[o] : o \in Ids} \ {NoPath}) \cup {restore[i]}
      BY <2>1, <2>2, <3>1
    <3> QED
      BY <2>2, <3>1, <3>2
  <2>5. Still'
    BY <2>1, <2>2 DEF Still, RestoreInv
  <2> QED
    BY <2>1, <2>3, <2>4, <2>5 DEF RestoreInv
<1>10. ASSUME NEW i \in Ids, ForgetsStale(i) \/ ForgetsUnwatchable(i)
       PROVE  RestoreInv' /\ phase' = "restoring"
  <2>1. phase = "restoring" /\ phase' = "restoring" /\ Reconciled(i) /\ restore[i] # NoPath
    BY <1>10 DEF ForgetsStale, ForgetsUnwatchable, RestoreInv
  <2>2. /\ \A o \in Ids \ {i} : stored'[o] = stored[o]
        /\ stored'[i] = NoPath \/ i \in strayed'
        /\ strayed \subseteq strayed' /\ strayed' \subseteq strayed \cup {i}
    BY <1>10 DEF ForgetsStale, ForgetsUnwatchable, Forgets, Deleted, Strays, history, TypeOK, Map
  <2>3. /\ \A o \in Ids : restore'[o] = IF o = i THEN NoPath ELSE restore[o]
        /\ UNCHANGED <<projects, trees, main, jobs, req>>
    BY <1>10 DEF ForgetsStale, ForgetsUnwatchable, TypeOK, Map
  <2>4. \A o \in Ids : Reconciled(o)'
    <3>1. Reconciled(i)'
      BY <2>1, <2>2, <2>3 DEF Reconciled
    <3>2. ASSUME NEW o \in Ids \ {i} PROVE Reconciled(o)'
      BY <2>1, <2>2, <2>3 DEF Reconciled, RestoreInv
    <3> QED
      BY <3>1, <3>2
  <2> QED
    BY <2>1, <2>3, <2>4 DEF RestoreInv, Still
<1>11. CASE Start
  BY <1>11 DEF Start, RestoreInv, Reconciled, Still, Empty, TypeOK, Map
<1>12. CASE Serve
  <2>1. \A i \in Ids : trees[i] \in {projects[i], NoPath} /\ (i \notin strayed => projects[i] = stored[i])
    BY <1>12 DEF Serve, RestoreInv, Reconciled, Empty
  <2> QED
    BY <1>12, <2>1 DEF Serve, RestoreInv, history
<1>13. CASE Crash
  BY <1>13 DEF Crash, RestoreInv, Still
<1>14. CASE UNCHANGED vars
  BY <1>1, <1>14 DEF vars, history
<1> QED
  BY <1>1, <1>2, <1>3, <1>4, <1>5, <1>7, <1>8, <1>9, <1>10, <1>11, <1>12, <1>13, <1>14
     DEF Next, RestoreInv

(* When the daemon starts to serve it watches itself exactly the projects  *)
(* it lists, has trees of no others, and these are what is left in the        *)
(* projects table: what it could not restore is gone from there            *)
(* (server.rs:119-122), unless the delete failed or the command line wrote *)
(* the row during the restore.                                             *)
THEOREM RestoreIsExact == Spec => RestoreSettles
<1>1. Init => TypeOK /\ RestoreInv
  BY TypesInit, RestoreInit
<1>2. TypeOK /\ RestoreInv /\ [Next]_vars => TypeOK' /\ RestoreInv'
  BY TypesStep, RestoreStep
<1>3. TypeOK /\ RestoreInv /\ [Next]_vars =>
        [phase = "restoring" /\ phase' = "serving" =>
           /\ \A i \in Ids : trees'[i] \in {projects'[i], NoPath}
           /\ main' = {projects'[i] : i \in Ids} \ {NoPath}
           /\ \A i \in Ids \ strayed' : projects'[i] = stored'[i]]_vars
  BY RestoreStep
<1> QED
  BY <1>1, <1>2, <1>3, PTL DEF Spec, RestoreSettles

-----------------------------------------------------------------------------
(* Projects whose requests come one at a time, among any other requests.   *)

(* The project has been entered and its watcher has not. *)
Entering(i) == \E c \in Conns : At(c, "addWatcher") /\ NameOf[req[c].path] = i

(* Between the two steps of a request the map and the watchers differ in   *)
(* the way that the second step repairs.                                   *)
Alone(i) ==
  /\ \A c, d \in Conns : Concerns(c, i) /\ Concerns(d, i) => c = d
  /\ \A c \in Conns : At(c, "addWatcher") /\ NameOf[req[c].path] = i => projects[i] = req[c].path
  /\ \A c \in Conns : At(c, "removeProject") /\ req[c].id = i => watchers[i] = NoPath
  /\ watchers[i] # NoPath => watchers[i] = projects[i] \/ Entering(i)

AloneInv ==
  /\ phase # "serving" => watchers = Empty /\ \A c \in Conns : req[c] = Idle
  /\ \A i \in Ids \ raced : Alone(i)

(* The project a request is of. *)
LEMMA RequestConcerns ==
  ASSUME NEW c \in Conns
  PROVE  /\ \A place \in {"hasProject", "getProject", "addProject", "addWatcher"} :
              At(c, place) => \A i \in Ids : Concerns(c, i) <=> NameOf[req[c].path] = i
         /\ \A place \in {"removeWatcher", "removeProject"} :
              At(c, place) => \A i \in Ids : Concerns(c, i) <=> req[c].id = i
         /\ At(c, "idle") => \A i \in Ids : ~Concerns(c, i)
  BY DEF Concerns, At

(* The same of the request as it goes on. *)
LEMMA NextConcerns ==
  ASSUME NEW c \in Conns
  PROVE  /\ \A place \in {"hasProject", "getProject", "addProject", "addWatcher"}, p \in Paths :
              req'[c] = [at |-> place, path |-> p] =>
                \A i \in Ids : Concerns(c, i)' <=> NameOf[p] = i
         /\ \A place \in {"removeWatcher", "removeProject"}, o \in Ids :
              req'[c] = [at |-> place, id |-> o] => \A i \in Ids : Concerns(c, i)' <=> o = i
         /\ req'[c] = Idle => \A i \in Ids : ~Concerns(c, i)'
  BY DEF Concerns, At, Idle

(* A step of one request leaves the other projects as they are.            *)
LEMMA OneRequest ==
  ASSUME TypeOK, AloneInv, NEW c \in Conns, NEW o \in Ids, NEW r \in Request, Goes(c, r),
         phase' = "serving", raced \subseteq raced',
         \A i \in Ids \ {o} : /\ ~Concerns(c, i) /\ ~Concerns(c, i)'
                              /\ projects'[i] = projects[i] /\ watchers'[i] = watchers[i],
         o \notin raced' => Alone(o)'
  PROVE  AloneInv'
<1>1. \A d \in Conns \ {c} : req'[d] = req[d]
  BY GoesOn
<1>2. ASSUME NEW i \in Ids \ raced', i # o PROVE Alone(i)'
  <2>1. Alone(i)
    BY <1>2 DEF AloneInv
  <2>2. \A d \in Conns : Concerns(d, i)' <=> Concerns(d, i)
    BY <1>1, <1>2 DEF Concerns, At
  <2>3. \A d \in Conns : /\ At(d, "addWatcher") /\ NameOf[req[d].path] = i => Concerns(d, i)
                         /\ At(d, "removeProject") /\ req[d].id = i => Concerns(d, i)
    BY DEF Concerns
  <2>4. \A d \in Conns : /\ At(d, "addWatcher")' /\ NameOf[req'[d].path] = i => Concerns(d, i)'
                         /\ At(d, "removeProject")' /\ req'[d].id = i => Concerns(d, i)'
    BY DEF Concerns
  <2>5. Entering(i) => Entering(i)'
    BY <1>1, <1>2, <2>3 DEF Entering, At
  <2>6. projects'[i] = projects[i] /\ watchers'[i] = watchers[i] /\ ~Concerns(c, i)'
    BY <1>2
  <2>7. \A d \in Conns : /\ At(d, "addWatcher")' /\ NameOf[req'[d].path] = i => projects'[i] = req'[d].path
                         /\ At(d, "removeProject")' /\ req'[d].id = i => watchers'[i] = NoPath
    BY <1>1, <2>1, <2>4, <2>6 DEF Alone, At
  <2> QED
    BY <2>1, <2>2, <2>5, <2>6, <2>7 DEF Alone
<1> QED
  BY <1>2 DEF AloneInv

(* No request has been made. *)
LEMMA AloneInit == Init => AloneInv
  BY DEF Init, AloneInv, Alone, Entering, Concerns, Empty, At, Idle

(* Each step keeps it: a project's only request accounts for every         *)
(* difference.                                                             *)
LEMMA AloneStep ==
  ASSUME TypeOK, AloneInv, [Next]_vars
  PROVE  AloneInv'
<1>1. ASSUME UNCHANGED <<phase, projects, watchers, req, raced>> PROVE AloneInv'
  BY <1>1 DEF AloneInv, Alone, Entering, Concerns, At
<1>2. ASSUME NEW c \in Conns, NEW o \in Ids, NEW r \in Request, Goes(c, r), Concerns(c, o),
             phase = "serving", UNCHANGED <<phase, projects, watchers, raced>>,
             ~At(c, "addWatcher"), r.at \notin {"addWatcher", "removeProject"},
             \A i \in Ids \ {o} : ~Concerns(c, i) /\ ~Concerns(c, i)'
      PROVE  AloneInv'
  <2>1. req'[c] = r /\ \A d \in Conns \ {c} : req'[d] = req[d]
    BY <1>2, GoesOn
  <2>2. ASSUME o \notin raced' PROVE Alone(o)'
    <3>1. Alone(o)
      BY <1>2, <2>2 DEF AloneInv
    <3>2. \A d \in Conns \ {c} : ~Concerns(d, o) /\ ~Concerns(d, o)'
      BY <1>2, <2>1, <3>1 DEF Alone, Concerns, At
    <3>3. ~Entering(o) /\ \A d \in Conns : ~(At(d, "addWatcher") /\ NameOf[req[d].path] = o)'
      BY <1>2, <2>1, <3>2 DEF Entering, Concerns, At
    <3>4. \A d \in Conns : ~(At(d, "removeProject") /\ req[d].id = o)'
      BY <1>2, <2>1, <3>2 DEF Concerns, At
    <3> QED
      BY <1>2, <3>1, <3>2, <3>3, <3>4 DEF Alone
  <2> QED
    BY <1>2, <2>2, OneRequest
<1>3. ASSUME NEW c \in Conns, Watch(c) PROVE AloneInv'
  <2>1. PICK p \in Paths : p = req[c].path /\ NameOf[p] \in Ids
    BY <1>3, RequestStages DEF Watch, HasNoProject, HasProject, AlreadyWatching, NotThisPath, AddsProject, AddsWatcher
  <2> DEFINE o == NameOf[p]
  <2>2. phase = "serving" /\ \A i \in Ids : Concerns(c, i) <=> i = o
    BY <1>3, <2>1, RequestConcerns DEF Watch, HasNoProject, HasProject, AlreadyWatching, NotThisPath, AddsProject, AddsWatcher
  <2>3. CASE HasNoProject(c) \/ NotThisPath(c) \/ HasProject(c) \/ AlreadyWatching(c)
    <3>1. UNCHANGED <<phase, projects, watchers, raced>> /\ ~At(c, "addWatcher")
      BY <2>3 DEF HasNoProject, NotThisPath, HasProject, AlreadyWatching, memory, history, At
    <3>2. PICK r \in Request : /\ Goes(c, r)
                               /\ r = Idle \/ \E place \in {"getProject", "addProject"} : r = [at |-> place, path |-> p]
      BY <2>1, <2>3, RequestTypes DEF HasNoProject, NotThisPath, HasProject, AlreadyWatching, Starts
    <3>3. req'[c] = r
      BY <3>2, GoesOn
    <3>4. r.at \notin {"addWatcher", "removeProject"}
      BY <3>2 DEF Idle
    <3>5. \A i \in Ids \ {o} : ~Concerns(c, i) /\ ~Concerns(c, i)'
      BY <2>2, <3>2, <3>3, NextConcerns
    <3> QED
      BY <1>2, <2>1, <2>2, <3>1, <3>2, <3>4, <3>5
  <2>4. CASE AddsProject(c)
    <3>1. Goes(c, [at |-> "addWatcher", path |-> p]) /\ [at |-> "addWatcher", path |-> p] \in Request
      BY <2>1, <2>4, RequestTypes DEF AddsProject
    <3>2. /\ req'[c] = [at |-> "addWatcher", path |-> p]
          /\ \A d \in Conns \ {c} : req'[d] = req[d]
      BY <3>1, GoesOn
    <3>3. \A i \in Ids : projects'[i] = IF i = o THEN p ELSE projects[i]
      BY <2>1, <2>4 DEF AddsProject, TypeOK, Map
    <3>4. \A i \in Ids : Concerns(c, i)' <=> i = o
      BY <2>1, <3>2, NextConcerns
    <3>5. UNCHANGED <<phase, watchers, raced>>
      BY <2>4 DEF AddsProject, Strays
    <3>6. ASSUME o \notin raced' PROVE Alone(o)'
      <4>1. Alone(o)
        BY <2>1, <3>5, <3>6 DEF AloneInv
      <4>2. \A d \in Conns \ {c} : ~Concerns(d, o) /\ ~Concerns(d, o)'
        BY <2>1, <2>2, <3>2, <4>1 DEF Alone, Concerns, At
      <4>3. Entering(o)' /\ projects'[o] = p
        BY <2>1, <3>2, <3>3 DEF Entering, At
      <4>4. \A d \in Conns : (At(d, "addWatcher") /\ NameOf[req[d].path] = o)' => d = c
        BY <4>2 DEF Concerns
      <4>5. \A d \in Conns : ~(At(d, "removeProject") /\ req[d].id = o)'
        BY <3>2, <4>2 DEF Concerns, At
      <4>6. \A d, e \in Conns : Concerns(d, o)' /\ Concerns(e, o)' => d = e
        BY <4>2
      <4> QED
        BY <3>2, <4>3, <4>4, <4>5, <4>6 DEF Alone
    <3> QED
      BY <2>1, <2>2, <3>1, <3>3, <3>4, <3>5, <3>6, OneRequest
  <2>5. CASE AddsWatcher(c)
    <3>1. Goes(c, Idle) /\ Idle \in Request
      BY <2>5, RequestTypes DEF AddsWatcher
    <3>2. req'[c] = Idle /\ \A d \in Conns \ {c} : req'[d] = req[d]
      BY <3>1, GoesOn
    <3>3. \A i \in Ids : watchers'[i] = IF i = o THEN p ELSE watchers[i]
      BY <2>1, <2>5 DEF AddsWatcher, TypeOK, Map
    <3>4. \A i \in Ids : ~Concerns(c, i)'
      BY <3>2, NextConcerns
    <3>5. UNCHANGED <<phase, projects, raced>>
      BY <2>5 DEF AddsWatcher, Detaches, Strays
    <3>6. ASSUME o \notin raced' PROVE Alone(o)'
      <4>1. Alone(o)
        BY <2>1, <3>5, <3>6 DEF AloneInv
      <4>2. projects[o] = p
        BY <2>1, <2>5, <4>1 DEF Alone, AddsWatcher
      <4>3. \A d \in Conns : ~Concerns(d, o)'
        BY <2>1, <2>2, <3>2, <3>4, <4>1 DEF Alone, Concerns, At
      <4>4. \A d \in Conns : /\ ~(At(d, "addWatcher") /\ NameOf[req[d].path] = o)'
                             /\ ~(At(d, "removeProject") /\ req[d].id = o)'
        BY <4>3 DEF Concerns
      <4>5. watchers'[o] = projects'[o]
        BY <2>1, <3>3, <3>5, <4>2
      <4> QED
        BY <4>3, <4>4, <4>5 DEF Alone
    <3> QED
      BY <2>1, <2>2, <3>1, <3>3, <3>4, <3>5, <3>6, OneRequest
  <2> QED
    BY <1>3, <2>3, <2>4, <2>5 DEF Watch
<1>4. ASSUME NEW c \in Conns, Unwatch(c) PROVE AloneInv'
  <2>1. PICK o \in Ids : o = req[c].id
    BY <1>4, RequestStages DEF Unwatch, RemovesWatcher, RemovesProject
  <2>2. phase = "serving" /\ \A i \in Ids : Concerns(c, i) <=> i = o
    BY <1>4, <2>1, RequestConcerns DEF Unwatch, RemovesWatcher, RemovesProject
  <2>3. UNCHANGED <<phase, raced>>
    BY <1>4 DEF Unwatch, RemovesWatcher, RemovesProject, Detaches, Strays, history
  <2>4. CASE RemovesWatcher(c)
    <3>1. /\ Goes(c, [at |-> "removeProject", id |-> o])
          /\ [at |-> "removeProject", id |-> o] \in Request
      BY <2>1, <2>4, RequestTypes DEF RemovesWatcher
    <3>2. /\ req'[c] = [at |-> "removeProject", id |-> o]
          /\ \A d \in Conns \ {c} : req'[d] = req[d]
      BY <3>1, GoesOn
    <3>3. \A i \in Ids : watchers'[i] = IF i = o THEN NoPath ELSE watchers[i]
      BY <2>1, <2>4 DEF RemovesWatcher, TypeOK, Map
    <3>4. projects' = projects /\ \A i \in Ids : Concerns(c, i)' <=> i = o
      BY <2>4, <3>2, NextConcerns DEF RemovesWatcher
    <3>5. ASSUME o \notin raced' PROVE Alone(o)'
      <4>1. Alone(o)
        BY <2>3, <3>5 DEF AloneInv
      <4>2. \A d \in Conns \ {c} : ~Concerns(d, o)'
        BY <2>2, <3>2, <4>1 DEF Alone, Concerns, At
      <4>3. \A d \in Conns : ~(At(d, "addWatcher") /\ NameOf[req[d].path] = o)'
        BY <3>2, <4>2 DEF Concerns, At
      <4>4. \A d, e \in Conns : Concerns(d, o)' /\ Concerns(e, o)' => d = e
        BY <4>2
      <4> QED
        BY <3>3, <4>3, <4>4 DEF Alone
    <3> QED
      BY <2>2, <2>3, <3>1, <3>3, <3>4, <3>5, OneRequest
  <2>5. CASE RemovesProject(c)
    <3>1. Goes(c, Idle) /\ Idle \in Request
      BY <2>5, RequestTypes DEF RemovesProject
    <3>2. req'[c] = Idle /\ \A d \in Conns \ {c} : req'[d] = req[d]
      BY <3>1, GoesOn
    <3>3. \A i \in Ids : projects'[i] = IF i = o THEN NoPath ELSE projects[i]
      BY <2>1, <2>5 DEF RemovesProject, TypeOK, Map
    <3>4. watchers' = watchers /\ \A i \in Ids : ~Concerns(c, i)'
      BY <2>5, <3>2, NextConcerns DEF RemovesProject
    <3>5. ASSUME o \notin raced' PROVE Alone(o)'
      <4>1. Alone(o)
        BY <2>3, <3>5 DEF AloneInv
      <4>2. \A d \in Conns : ~Concerns(d, o)'
        BY <2>2, <3>2, <3>4, <4>1 DEF Alone, Concerns, At
      <4>3. \A d \in Conns : /\ ~(At(d, "addWatcher") /\ NameOf[req[d].path] = o)'
                             /\ ~(At(d, "removeProject") /\ req[d].id = o)'
        BY <4>2 DEF Concerns
      <4>4. watchers'[o] = NoPath
        BY <2>1, <2>5, <3>4, <4>1 DEF Alone, RemovesProject
      <4> QED
        BY <4>2, <4>3, <4>4 DEF Alone
    <3> QED
      BY <2>2, <2>3, <3>1, <3>3, <3>4, <3>5, OneRequest
  <2> QED
    BY <1>4, <2>4, <2>5 DEF Unwatch
<1>5. ASSUME NEW c \in Conns, NEW o \in Ids, NEW r \in Request, Goes(c, r), Begins(o),
             phase = "serving", UNCHANGED <<phase, projects, watchers>>, At(c, "idle"),
             r.at \notin {"addWatcher", "removeProject"},
             \A i \in Ids \ {o} : ~Concerns(c, i)'
      PROVE  AloneInv'
  <2>1. req'[c] = r /\ \A d \in Conns \ {c} : req'[d] = req[d]
    BY <1>5, GoesOn
  <2>2. raced \subseteq raced' /\ \A i \in Ids : ~Concerns(c, i)
    BY <1>5, RequestConcerns DEF Begins
  <2>3. ASSUME o \notin raced' PROVE Alone(o)'
    <3>1. Alone(o) /\ \A d \in Conns : ~Concerns(d, o)
      BY <1>5, <2>2, <2>3 DEF AloneInv, Begins
    <3>2. \A d \in Conns \ {c} : ~Concerns(d, o)'
      BY <2>1, <3>1 DEF Concerns, At
    <3>3. \A d \in Conns : /\ ~(At(d, "addWatcher") /\ NameOf[req[d].path] = o)'
                           /\ ~(At(d, "removeProject") /\ req[d].id = o)'
      BY <1>5, <2>1, <3>2 DEF Concerns, At
    <3>4. ~Entering(o)
      BY <3>1 DEF Entering, Concerns
    <3> QED
      BY <1>5, <3>1, <3>2, <3>3, <3>4 DEF Alone
  <2> QED
    BY <1>5, <2>2, <2>3, OneRequest
<1>6. ASSUME NEW c \in Conns, NEW p \in Paths, WatchCalled(c, p) PROVE AloneInv'
  <2>1. /\ Goes(c, [at |-> "hasProject", path |-> p]) /\ [at |-> "hasProject", path |-> p] \in Request
        /\ NameOf[p] \in Ids
    BY <1>6, RequestTypes, NamesAssumption DEF WatchCalled
  <2>2. \A i \in Ids \ {NameOf[p]} : ~Concerns(c, i)'
    BY <2>1, GoesOn, NextConcerns
  <2> QED
    BY <1>5, <1>6, <2>1, <2>2 DEF WatchCalled, memory
<1>7. ASSUME NEW c \in Conns, NEW i \in Ids, UnwatchCalled(c, i) PROVE AloneInv'
  <2>1. Goes(c, [at |-> "removeWatcher", id |-> i]) /\ [at |-> "removeWatcher", id |-> i] \in Request
    BY <1>7, RequestTypes DEF UnwatchCalled
  <2>2. \A o \in Ids \ {i} : ~Concerns(c, o)'
    BY <2>1, GoesOn, NextConcerns
  <2> QED
    BY <1>5, <1>7, <2>1, <2>2 DEF UnwatchCalled, memory
<1>8. ASSUME NEW i \in Ids, Restores(i) PROVE AloneInv'
  <2>1. phase' # "serving" /\ phase # "serving" /\ UNCHANGED <<watchers, req>>
    BY <1>8 DEF Restores
  <2>2. \A o \in Ids : watchers'[o] = NoPath /\ \A c \in Conns : req'[c] = Idle
    BY <2>1 DEF AloneInv, Empty
  <2> QED
    BY <2>1, <2>2 DEF AloneInv, Alone, Concerns, Empty, At, Idle
<1>9. CASE Start \/ Serve
  <2>1. phase # "serving" /\ UNCHANGED <<projects, watchers, req, raced>>
    BY <1>9 DEF Start, Serve, history
  <2> QED
    BY <2>1 DEF AloneInv, Alone, Entering, Concerns, At
<1>10. CASE Crash
  <2>1. /\ \A o \in Ids : watchers'[o] = NoPath
        /\ watchers' = Empty /\ \A c \in Conns : req'[c] = Idle
    BY <1>10 DEF Crash, Empty
  <2> QED
    BY <2>1 DEF AloneInv, Alone, Concerns, At, Idle
<1>11. ASSUME \/ \E w \in Slots : WritesRow(w) \/ DeletesRow(w) \/ WriteLost(w)
              \/ \E p \in Paths : CliWatch(p) \/ DirectoryChanges(p)
              \/ \E i \in Ids : CliUnwatch(i) \/ ForgetsStale(i) \/ ForgetsUnwatchable(i)
              \/ UNCHANGED vars
       PROVE  AloneInv'
  <2>1. UNCHANGED <<phase, projects, watchers, req, raced>>
    BY <1>11 DEF WritesRow, DeletesRow, WriteLost, CliWatch, DirectoryChanges, CliUnwatch,
                 ForgetsStale, ForgetsUnwatchable, Forgets, Strays, vars, memory, history
  <2> QED
    BY <1>1, <2>1
<1> QED
  BY <1>3, <1>4, <1>6, <1>7, <1>8, <1>9, <1>10, <1>11 DEF Next

(* However the requests of other projects interleave, over directories of  *)
(* one name or not, beside a command line, with a failing store and        *)
(* crashes: unless two requests of a project were under way at once, its   *)
(* own watcher watches the project's path between requests and none is     *)
(* left without its project.                                               *)
THEOREM WatchersFollowProjects == Spec => []WatchersAgree
<1>1. AloneInv => WatchersAgree
  BY DEF AloneInv, Alone, WatchersAgree, Settled, Entering, Concerns
<1>2. TypeOK /\ AloneInv /\ [Next]_vars => TypeOK' /\ AloneInv'
  BY TypesStep, AloneStep
<1> QED
  BY <1>1, <1>2, TypesInit, AloneInit, PTL DEF Spec

-----------------------------------------------------------------------------
(* The table follows the memory, project by project.                       *)

Writing(w, i, op) == jobs[w].op = op /\ jobs[w].id = i

(* Of the writes of a project at most one is pending.  An insert finds no  *)
(* row; what a delete or nothing leaves is what the project is now, or the *)
(* empty row that the request under way will fill.                         *)
Row(i) ==
  /\ \A v, w \in Slots :
       jobs[v] # Free /\ jobs[v].id = i /\ jobs[w] # Free /\ jobs[w].id = i => v = w
  /\ \A w \in Slots : Writing(w, i, "add") =>
       stored[i] = NoPath /\ jobs[w].path = projects[i] /\ ~Entering(i)
  /\ \A w \in Slots : Writing(w, i, "remove") => projects[i] = NoPath \/ Entering(i)
  /\ ~Pending(i) => stored[i] = IF Entering(i) THEN NoPath ELSE projects[i]

StoreInv == phase = "serving" => \A i \in Ids \ (raced \cup strayed) : Row(i)

(* Steps about other projects keep a project's row as it is. *)
LEMMA OtherRow ==
  ASSUME NEW i \in Ids, Row(i), projects'[i] = projects[i], stored'[i] = stored[i],
         Entering(i)' <=> Entering(i),
         \A w \in Slots : \/ jobs'[w] = jobs[w]
                          \/ /\ jobs[w] = Free \/ jobs[w].id # i
                             /\ jobs'[w] = Free \/ jobs'[w].id # i
  PROVE  Row(i)'
<1>1. Pending(i)' <=> Pending(i)
  BY DEF Pending
<1>2. \A w \in Slots : jobs'[w] # Free /\ jobs'[w].id = i => jobs'[w] = jobs[w]
  OBVIOUS
<1>3. \A w \in Slots, op \in {"add", "remove"} : Writing(w, i, op)' => Writing(w, i, op) /\ jobs'[w] = jobs[w]
  BY <1>2 DEF Writing, Free
<1> QED
  BY <1>1, <1>2, <1>3 DEF Row

(* Whether a project is being entered is up to its own requests. *)
LEMMA OtherEntering ==
  ASSUME NEW c \in Conns, NEW i \in Ids, ~Concerns(c, i), ~Concerns(c, i)',
         \A d \in Conns \ {c} : req'[d] = req[d]
  PROVE  Entering(i)' <=> Entering(i)
  BY DEF Entering, Concerns, At

(* A daemon that does not serve has no request under way. *)
LEMMA StoreInit == Init => StoreInv
  BY DEF Init, StoreInv

(* Each step keeps it: a write that is the only one of its project reaches *)
(* the table as its request left the project.                              *)
LEMMA StoreStep ==
  ASSUME TypeOK, AloneInv, RestoreInv, StoreInv, [Next]_vars
  PROVE  StoreInv'
<1>1. ASSUME UNCHANGED <<phase, projects, stored, jobs, req>>, raced \subseteq raced', strayed \subseteq strayed'
      PROVE  StoreInv'
  BY <1>1 DEF StoreInv, Row, Writing, Pending, Entering, At
<1>2. ASSUME NEW c \in Conns, NEW r \in Request, Goes(c, r), ~At(c, "addWatcher"), r.at # "addWatcher",
             UNCHANGED <<phase, projects, stored, jobs>>, raced \subseteq raced', strayed \subseteq strayed'
      PROVE  StoreInv'
  <2>1. \A i \in Ids : Entering(i)' <=> Entering(i)
    BY <1>2, GoesOn DEF Entering, At
  <2> QED
    BY <1>2, <2>1, OtherRow DEF StoreInv
<1>3. ASSUME NEW c \in Conns, Watch(c) PROVE StoreInv'
  <2>1. PICK p \in Paths : p = req[c].path /\ NameOf[p] \in Ids
    BY <1>3, RequestStages DEF Watch, HasNoProject, HasProject, AlreadyWatching, NotThisPath, AddsProject, AddsWatcher
  <2> DEFINE o == NameOf[p]
  <2>2. phase = "serving" /\ \A i \in Ids : Concerns(c, i) <=> i = o
    BY <1>3, <2>1, RequestConcerns DEF Watch, HasNoProject, HasProject, AlreadyWatching, NotThisPath, AddsProject, AddsWatcher
  <2>3. CASE HasNoProject(c) \/ NotThisPath(c) \/ HasProject(c) \/ AlreadyWatching(c)
    <3>1. UNCHANGED <<phase, projects, stored, jobs, raced, strayed>> /\ ~At(c, "addWatcher")
      BY <2>3 DEF HasNoProject, NotThisPath, HasProject, AlreadyWatching, memory, history, At
    <3>2. PICK r \in Request : Goes(c, r) /\ r.at # "addWatcher"
      BY <2>1, <2>3, RequestTypes DEF HasNoProject, NotThisPath, HasProject, AlreadyWatching, Starts, Idle
    <3> QED
      BY <1>2, <3>1, <3>2
  <2>4. CASE AddsProject(c)
    <3>1. Goes(c, [at |-> "addWatcher", path |-> p]) /\ [at |-> "addWatcher", path |-> p] \in Request
      BY <2>1, <2>4, RequestTypes DEF AddsProject
    <3>2. /\ req'[c] = [at |-> "addWatcher", path |-> p]
          /\ \A d \in Conns \ {c} : req'[d] = req[d]
      BY <3>1, GoesOn
    <3>3. \A i \in Ids : projects'[i] = IF i = o THEN p ELSE projects[i]
      BY <2>1, <2>4 DEF AddsProject, TypeOK, Map
    <3>4. /\ \A i \in Ids : Concerns(c, i)' <=> i = o
          /\ Entering(o)'
      BY <2>1, <3>2, NextConcerns DEF Entering, At
    <3>5. /\ UNCHANGED <<phase, stored, jobs, raced>>
          /\ strayed' = strayed \cup {i \in {o} : projects[i] # NoPath}
      BY <2>1, <2>4 DEF AddsProject, Strays
    <3>6. ASSUME NEW i \in Ids \ (raced' \cup strayed'), i # o PROVE Row(i)'
      BY <2>2, <3>2, <3>3, <3>4, <3>5, <3>6, OtherRow, OtherEntering DEF StoreInv
    <3>7. ASSUME o \notin raced' \cup strayed' PROVE Row(o)'
      <4>1. Row(o) /\ Alone(o) /\ projects[o] = NoPath
        BY <2>1, <2>2, <3>5, <3>7 DEF StoreInv, AloneInv
      <4>2. \A d \in Conns : Concerns(d, o) => d = c
        BY <2>1, <2>2, <4>1 DEF Alone
      <4>3. ~Entering(o)
        BY <2>4, <4>2 DEF Entering, Concerns, At, AddsProject
      <4>4. \A w \in Slots : ~Writing(w, o, "add")
        BY <4>1, JobOfSlot, NoPathAssumption DEF Row, Writing
      <4>5. \A w \in Slots, op \in {"add", "remove"} : Writing(w, o, op)' <=> Writing(w, o, op)
        BY <3>5 DEF Writing
      <4>6. Pending(o)' <=> Pending(o)
        BY <3>5 DEF Pending
      <4>7. ~Pending(o)' => stored'[o] = NoPath
        BY <3>5, <4>1, <4>3, <4>6 DEF Row
      <4> QED
        BY <3>4, <3>5, <4>1, <4>4, <4>5, <4>7 DEF Row
    <3> QED
      BY <3>6, <3>7 DEF StoreInv
  <2>5. CASE AddsWatcher(c)
    <3>1. Goes(c, Idle) /\ Idle \in Request
      BY <2>5, RequestTypes DEF AddsWatcher
    <3>2. req'[c] = Idle /\ \A d \in Conns \ {c} : req'[d] = req[d]
      BY <3>1, GoesOn
    <3>3. \A i \in Ids : ~Concerns(c, i)'
      BY <3>2, NextConcerns
    <3> DEFINE job == [op |-> "add", id |-> o, path |-> p]
    <3>4. PICK w \in Slots : jobs[w] = Free /\ jobs' = [jobs EXCEPT ![w] = job]
      BY <2>1, <2>5 DEF AddsWatcher, Detaches
    <3>5. jobs'[w] = job /\ \A v \in Slots \ {w} : jobs'[v] = jobs[v]
      BY <3>4 DEF TypeOK
    <3>6. /\ UNCHANGED <<phase, projects, stored, raced>>
          /\ strayed' = strayed \cup {i \in {o} : Pending(i)}
      BY <2>1, <2>5 DEF AddsWatcher, Detaches, Strays
    <3>7. ASSUME NEW i \in Ids \ (raced' \cup strayed'), i # o PROVE Row(i)'
      <4>1. Row(i) /\ (Entering(i)' <=> Entering(i))
        BY <2>2, <3>2, <3>3, <3>6, <3>7, OtherEntering DEF StoreInv
      <4> QED
        BY <3>4, <3>5, <3>6, <3>7, <4>1, OtherRow
    <3>8. ASSUME o \notin raced' \cup strayed' PROVE Row(o)'
      <4>1. Row(o) /\ Alone(o) /\ ~Pending(o)
        BY <2>1, <2>2, <3>6, <3>8 DEF StoreInv, AloneInv
      <4>2. Entering(o) /\ projects[o] = p
        BY <2>1, <2>5, <4>1 DEF Entering, Alone, AddsWatcher
      <4>3. stored[o] = NoPath
        BY <4>1, <4>2 DEF Row
      <4>4. ~Entering(o)'
        BY <2>1, <2>2, <3>2, <3>3, <4>1 DEF Entering, Alone, Concerns, At
      <4>5. \A v \in Slots : jobs'[v] # Free /\ jobs'[v].id = o => v = w
        BY <3>5, <4>1 DEF Pending
      <4>6. \A v \in Slots, op \in {"add", "remove"} : Writing(v, o, op)' => v = w /\ op = "add"
        BY <3>5, <4>5 DEF Writing, Free
      <4>7. Pending(o)'
        BY <3>5 DEF Pending, Free
      <4> QED
        BY <3>5, <3>6, <4>2, <4>3, <4>4, <4>5, <4>6, <4>7 DEF Row
    <3> QED
      BY <3>7, <3>8 DEF StoreInv
  <2> QED
    BY <1>3, <2>3, <2>4, <2>5 DEF Watch
<1>4. ASSUME NEW c \in Conns, Unwatch(c) PROVE StoreInv'
  <2>1. PICK o \in Ids : o = req[c].id
    BY <1>4, RequestStages DEF Unwatch, RemovesWatcher, RemovesProject
  <2>2. phase = "serving" /\ \A i \in Ids : Concerns(c, i) <=> i = o
    BY <1>4, <2>1, RequestConcerns DEF Unwatch, RemovesWatcher, RemovesProject
  <2>3. CASE RemovesWatcher(c)
    <3>1. /\ Goes(c, [at |-> "removeProject", id |-> o])
          /\ [at |-> "removeProject", id |-> o] \in Request
      BY <2>1, <2>3, RequestTypes DEF RemovesWatcher
    <3>2. UNCHANGED <<phase, projects, stored, jobs, raced, strayed>> /\ ~At(c, "addWatcher")
      BY <2>3 DEF RemovesWatcher, history, At
    <3> QED
      BY <1>2, <3>1, <3>2
  <2>4. CASE RemovesProject(c)
    <3>1. Goes(c, Idle) /\ Idle \in Request
      BY <2>4, RequestTypes DEF RemovesProject
    <3>2. req'[c] = Idle /\ \A d \in Conns \ {c} : req'[d] = req[d]
      BY <3>1, GoesOn
    <3>3. \A i \in Ids : ~Concerns(c, i)'
      BY <3>2, NextConcerns
    <3> DEFINE job == [op |-> "remove", id |-> o, path |-> NoPath]
    <3>4. PICK w \in Slots : jobs[w] = Free /\ jobs' = [jobs EXCEPT ![w] = job]
      BY <2>1, <2>4 DEF RemovesProject, Detaches
    <3>5. jobs'[w] = job /\ \A v \in Slots \ {w} : jobs'[v] = jobs[v]
      BY <3>4 DEF TypeOK
    <3>6. /\ UNCHANGED <<phase, stored, raced>>
          /\ strayed' = strayed \cup {i \in {o} : Pending(i)}
      BY <2>1, <2>4 DEF RemovesProject, Detaches, Strays
    <3>7. \A i \in Ids : projects'[i] = IF i = o THEN NoPath ELSE projects[i]
      BY <2>1, <2>4 DEF RemovesProject, TypeOK, Map
    <3>8. ASSUME NEW i \in Ids \ (raced' \cup strayed'), i # o PROVE Row(i)'
      <4>1. Row(i) /\ (Entering(i)' <=> Entering(i))
        BY <2>2, <3>2, <3>3, <3>6, <3>8, OtherEntering DEF StoreInv
      <4> QED
        BY <3>4, <3>5, <3>6, <3>7, <3>8, <4>1, OtherRow
    <3>9. ASSUME o \notin raced' \cup strayed' PROVE Row(o)'
      <4>1. ~Pending(o)
        BY <3>6, <3>9
      <4>2. \A v \in Slots : jobs'[v] # Free /\ jobs'[v].id = o => v = w
        BY <3>5, <4>1 DEF Pending
      <4>3. \A v \in Slots, op \in {"add", "remove"} : Writing(v, o, op)' => op = "remove"
        BY <3>5, <4>2 DEF Writing, Free
      <4>4. Pending(o)'
        BY <3>5 DEF Pending, Free
      <4> QED
        BY <3>7, <4>2, <4>3, <4>4 DEF Row
    <3> QED
      BY <3>8, <3>9 DEF StoreInv
  <2> QED
    BY <1>4, <2>3, <2>4 DEF Unwatch
<1>5. ASSUME NEW c \in Conns, NEW p \in Paths, WatchCalled(c, p) PROVE StoreInv'
  <2>1. /\ raced \subseteq raced' /\ UNCHANGED <<phase, projects, stored, jobs, strayed>>
        /\ ~At(c, "addWatcher")
    BY <1>5 DEF WatchCalled, Begins, memory, At
  <2>2. /\ Goes(c, [at |-> "hasProject", path |-> p])
        /\ [at |-> "hasProject", path |-> p] \in Request
    BY <1>5, RequestTypes DEF WatchCalled
  <2> QED
    BY <1>2, <2>1, <2>2
<1>6. ASSUME NEW c \in Conns, NEW i \in Ids, UnwatchCalled(c, i) PROVE StoreInv'
  <2>1. /\ raced \subseteq raced' /\ UNCHANGED <<phase, projects, stored, jobs, strayed>>
        /\ ~At(c, "addWatcher")
    BY <1>6 DEF UnwatchCalled, Begins, memory, At
  <2>2. /\ Goes(c, [at |-> "removeWatcher", id |-> i])
        /\ [at |-> "removeWatcher", id |-> i] \in Request
    BY <1>6, RequestTypes DEF UnwatchCalled
  <2> QED
    BY <1>2, <2>1, <2>2
<1>7. ASSUME NEW w \in Slots, WritesRow(w) \/ DeletesRow(w) \/ WriteLost(w) PROVE StoreInv'
  <2>1. PICK o \in Ids : o = jobs[w].id
    BY <1>7, JobOfSlot DEF WritesRow, DeletesRow, WriteLost, Jobs
  <2>2. jobs'[w] = Free /\ \A v \in Slots \ {w} : jobs'[v] = jobs[v]
    BY <1>7 DEF WritesRow, DeletesRow, WriteLost, Ends, TypeOK
  <2>3. /\ UNCHANGED <<phase, projects, req>> /\ raced' = raced /\ strayed \subseteq strayed'
        /\ WriteLost(w) => o \in strayed'
    BY <1>7, <2>1 DEF WritesRow, DeletesRow, WriteLost, Strays, memory, history
  <2>4. \A i \in Ids : Entering(i)' <=> Entering(i)
    BY <2>3 DEF Entering, At
  <2>5. \A i \in Ids \ {o} : stored'[i] = stored[i]
    BY <1>7, <2>1 DEF WritesRow, DeletesRow, WriteLost, Inserted, Deleted, TypeOK, Map
  <2>6. ASSUME phase' = "serving", NEW i \in Ids \ (raced' \cup strayed'), i # o PROVE Row(i)'
    <3>1. Row(i)
      BY <2>3, <2>6 DEF StoreInv
    <3> QED
      BY <2>1, <2>2, <2>3, <2>4, <2>5, <2>6, <3>1, OtherRow
  <2>7. ASSUME phase' = "serving", o \notin raced' \cup strayed' PROVE Row(o)'
    <3>1. Row(o) /\ ~WriteLost(w) /\ jobs[w] # Free
      BY <1>7, <2>3, <2>7 DEF StoreInv, WritesRow, DeletesRow, Free
    <3>2. \A v \in Slots : jobs'[v] = Free \/ jobs'[v].id # o
      BY <2>1, <2>2, <3>1 DEF Row
    <3>3. ~Pending(o)' /\ \A v \in Slots : ~Writing(v, o, "add")' /\ ~Writing(v, o, "remove")'
      BY <3>2 DEF Pending, Writing, Free
    <3>4. CASE WritesRow(w)
      <4>1. Writing(w, o, "add") /\ stored[o] = NoPath /\ jobs[w].path = projects[o] /\ ~Entering(o)
        BY <2>1, <3>1, <3>4 DEF WritesRow, Writing, Row
      <4>2. stored'[o] = projects[o]
        BY <2>1, <3>4, <4>1 DEF WritesRow, Inserted, TypeOK, Map
      <4> QED
        BY <2>3, <2>4, <3>2, <3>3, <4>1, <4>2 DEF Row
    <3>5. CASE DeletesRow(w)
      <4>1. Writing(w, o, "remove") /\ (projects[o] = NoPath \/ Entering(o))
        BY <2>1, <3>1, <3>5 DEF DeletesRow, Writing, Row
      <4>2. stored'[o] = NoPath
        BY <2>1, <3>5 DEF DeletesRow, Deleted, TypeOK, Map
      <4> QED
        BY <2>3, <2>4, <3>2, <3>3, <4>1, <4>2 DEF Row
    <3> QED
      BY <1>7, <3>1, <3>4, <3>5
  <2> QED
    BY <2>6, <2>7 DEF StoreInv
<1>8. ASSUME NEW o \in Ids, \A i \in Ids \ {o} : stored'[i] = stored[i], Strays({o}),
             UNCHANGED <<memory, jobs, req>>
      PROVE  StoreInv'
  <2>1. \A i \in Ids : Entering(i)' <=> Entering(i)
    BY <1>8 DEF Entering, At
  <2>2. ASSUME phase' = "serving", NEW i \in Ids \ (raced' \cup strayed') PROVE Row(i)'
    <3>1. Row(i) /\ i # o
      BY <1>8, <2>2 DEF StoreInv, Strays, memory
    <3> QED
      BY <1>8, <2>1, <2>2, <3>1, OtherRow DEF memory
  <2> QED
    BY <2>2 DEF StoreInv
<1>9. ASSUME NEW p \in Paths, CliWatch(p) PROVE StoreInv'
  <2>1. NameOf[p] \in Ids /\ \A i \in Ids \ {NameOf[p]} : stored'[i] = stored[i]
    BY <1>9, NamesAssumption DEF CliWatch, Inserted, TypeOK, Map
  <2> QED
    BY <1>8, <1>9, <2>1 DEF CliWatch
<1>10. ASSUME NEW i \in Ids, CliUnwatch(i) PROVE StoreInv'
  <2>1. \A o \in Ids \ {i} : stored'[o] = stored[o]
    BY <1>10 DEF CliUnwatch, Deleted, TypeOK, Map
  <2> QED
    BY <1>8, <1>10, <2>1 DEF CliUnwatch
<1>11. CASE Serve
  <2>1. /\ \A w \in Slots : jobs'[w] = Free
        /\ \A c \in Conns : req'[c] = Idle
        /\ \A i \in Ids \ strayed' : projects'[i] = stored'[i]
    BY <1>11, RestoreStep DEF Serve, RestoreInv, Still
  <2>2. \A i \in Ids : ~Entering(i)' /\ ~Pending(i)' /\
                       \A w \in Slots : ~Writing(w, i, "add")' /\ ~Writing(w, i, "remove")'
    BY <2>1 DEF Entering, Pending, Writing, At, Idle, Free
  <2> QED
    BY <2>1, <2>2 DEF StoreInv, Row
<1>12. ASSUME \/ Start \/ Crash
              \/ \E i \in Ids : Restores(i) \/ ForgetsStale(i) \/ ForgetsUnwatchable(i)
       PROVE  StoreInv'
  BY <1>12 DEF Start, Crash, Restores, ForgetsStale, ForgetsUnwatchable, StoreInv
<1>13. ASSUME \/ \E p \in Paths : DirectoryChanges(p)
              \/ UNCHANGED vars
       PROVE  StoreInv'
  BY <1>1, <1>13 DEF DirectoryChanges, vars, memory, history
<1> QED
  BY <1>3, <1>4, <1>5, <1>6, <1>7, <1>9, <1>10, <1>11, <1>12, <1>13 DEF Next

(* However the requests of a project's neighbours interleave and however   *)
(* their detached writes are ordered, through crashes at any step: the row *)
(* of a project that is not in raced or strayed is what the daemon has of  *)
(* it once its own writes are done, so a restart changes nothing.          *)
THEOREM TableFollowsProjects == Spec => []StoreAgrees
<1>1. TypeOK /\ StoreInv => StoreAgrees
  <2>1. ASSUME TypeOK, StoreInv, NEW i \in Ids \ (raced \cup strayed), Settled(i), ~Pending(i)
        PROVE  stored[i] = projects[i]
    <3>1. Row(i) /\ ~Entering(i)
      BY <2>1 DEF StoreInv, Settled, Entering, Concerns
    <3> QED
      BY <2>1, <3>1 DEF Row
  <2> QED
    BY <2>1 DEF StoreAgrees
<1>2. Init => TypeOK /\ AloneInv /\ RestoreInv /\ StoreInv
  BY TypesInit, AloneInit, RestoreInit, StoreInit
<1>3. TypeOK /\ AloneInv /\ RestoreInv /\ StoreInv /\ [Next]_vars
        => (TypeOK /\ AloneInv /\ RestoreInv /\ StoreInv)'
  BY TypesStep, AloneStep, RestoreStep, StoreStep
<1> QED
  BY <1>1, <1>2, <1>3, PTL DEF Spec

=============================================================================
