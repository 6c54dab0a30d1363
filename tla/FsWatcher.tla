----------------------------- MODULE FsWatcher -----------------------------
(***************************************************************************)
(* One FsWatcher: the paths it lists as watched beside what the operating  *)
(* system watches for it, and the callback that turns what notify reports  *)
(* into events with a source and a content hash.                           *)
(*                                                                         *)
(* The two differ: a start forgets the watches and keeps the list, a       *)
(* recursive registration can fail half-way and leave watches of a path    *)
(* that is not listed, and a directory that goes takes its watches with    *)
(* it.                                                                     *)
(*                                                                         *)
(* Changes reach the callback later, in order.  The callback looks at the  *)
(* disk as it is then: at the file for its hash, at .git/index for the     *)
(* source.  A content stands for its own hash.                             *)
(***************************************************************************)
EXTENDS Naturals, Sequences

CONSTANTS
  Roots,       \* directories watched
  WFiles,      \* files
  RootOf,      \* [WFiles -> Roots]
  Filtered,    \* files whose absolute path has an ignored component
  BuildFiles,  \* files whose path BuildPatterns matches
  Hashes,      \* contents up to max_size_bytes
  Big, Gone,   \* a larger content, no file
  MaxReports,  \* bound: changes notify has not reported yet
  MaxIndex     \* bound: writes of .git/index

ASSUME RootsAssumption == RootOf \in [WFiles -> Roots]
ASSUME HashesAssumption == Big \notin Hashes /\ Gone \notin Hashes /\ Big # Gone
ASSUME WatcherBounds == MaxReports \in Nat /\ MaxIndex \in Nat

VARIABLES
  watched,    \* FsWatcher.watched
  running,    \* whether FsWatcher.watcher is there
  registered, \* the roots that notify watcher has a watch of
  observed,   \* the files in directories it has a watch of
  present,    \* the roots that are on the disk
  content,    \* the disk
  reports,    \* changes on their way to the callback
  index,      \* mtime of .git/index, 0 when there is none, and its age
  lastIndex,  \* EventAttributor.last_git_index_mtime, 0 for None
  lastEvent,  \* of each file, the last event that was sent
  missed      \* history: files that changed unseen since they were last reported

watcherVars ==
  <<watched, running, registered, observed, present, content, reports, index,
    lastIndex, lastEvent, missed>>

FilesUnder(r) == {f \in WFiles : RootOf[f] = r}

Kinds == {"created", "modified", "deleted"}
NoHash == "none"
NoEvent == [kind |-> "none"]
SentEvents ==
  [kind: Kinds, source: {"git", "build", "user"}, hash: Hashes \cup {NoHash}]

WatcherTypeOK ==
  /\ watched \subseteq Roots /\ registered \subseteq Roots /\ present \subseteq Roots
  /\ observed \subseteq WFiles /\ \A f \in observed : RootOf[f] \in registered
  /\ \A f \in WFiles : content[f] # Gone => RootOf[f] \in present
  /\ running \in BOOLEAN /\ (registered # {} => running)
  /\ content \in [WFiles -> Hashes \cup {Big, Gone}]
  /\ reports \in Seq([kind: Kinds, file: WFiles]) /\ Len(reports) <= MaxReports
  /\ index \in [mtime: 0..MaxIndex, recent: BOOLEAN]
  /\ lastIndex \in 0..MaxIndex
  /\ lastEvent \in [WFiles -> SentEvents \cup {NoEvent}]
  /\ missed \subseteq WFiles

WatcherInit ==
  /\ watched = {} /\ registered = {} /\ observed = {} /\ running = FALSE
  /\ present = Roots
  /\ content = [f \in WFiles |-> Gone]
  /\ reports = <<>>
  /\ index = [mtime |-> 0, recent |-> FALSE] /\ lastIndex = 0
  /\ lastEvent = [f \in WFiles |-> NoEvent]
  /\ missed = {}

filesystem == <<present, content, index>>
calls == <<watched, running, registered, observed>>
FilesOf(queue) == {queue[i].file : i \in DOMAIN queue}
Reported == FilesOf(reports)

-----------------------------------------------------------------------------
(* start: a new channel and a new notify watcher, which watches nothing;   *)
(* the old one goes with what it had not reported.  `watched` stays.       *)
Start ==
  /\ running' = TRUE /\ registered' = {} /\ observed' = {} /\ reports' = <<>>
  /\ missed' = missed \cup Reported
  /\ UNCHANGED <<filesystem, watched, lastIndex, lastEvent>>

(* No notify watcher can be made: the old one stays, if there is one, and  *)
(* its callback goes on sending to the channel it was made with.           *)
StartFails == UNCHANGED watcherVars

(* watch.  A path already listed is refused, whatever the notify watcher   *)
(* watches, and one that does not exist; before start it is only listed.   *)
Watch(r) ==
  /\ r \in present \ watched
  /\ watched' = watched \cup {r}
  /\ IF running THEN registered' = registered \cup {r} /\ observed' = observed \cup FilesUnder(r)
     ELSE UNCHANGED <<registered, observed>>
  /\ UNCHANGED <<filesystem, running, reports, lastIndex, lastEvent, missed>>

WatchRefused(r) ==
  /\ r \in watched \/ r \notin present \/ running
  /\ UNCHANGED watcherVars

(* The registration of the directory and those in it fails half-way: the   *)
(* path is not listed, the watches made stay.                              *)
WatchHalfDone(r, part) ==
  /\ r \in present \ watched /\ running
  /\ registered' = registered \cup {r} /\ observed' = observed \cup part
  /\ UNCHANGED <<filesystem, watched, running, reports, lastIndex, lastEvent, missed>>

(* unwatch.  When the notify watcher refuses, having no such watch, the    *)
(* path stays listed.                                                      *)
Unwatch(r) ==
  /\ r \in watched /\ (running => r \in registered)
  /\ watched' = watched \ {r}
  /\ registered' = registered \ {r} /\ observed' = observed \ FilesUnder(r)
  /\ UNCHANGED <<filesystem, running, reports, lastIndex, lastEvent, missed>>

Stop ==
  /\ running' = FALSE /\ watched' = {} /\ registered' = {} /\ observed' = {} /\ reports' = <<>>
  /\ missed' = missed \cup Reported
  /\ UNCHANGED <<filesystem, lastIndex, lastEvent>>

-----------------------------------------------------------------------------
(* The disk.  notify reports a rename as a modification of both names.     *)

(* What of a change reaches the queue. *)
Queued(r) == IF r.file \in observed THEN <<r>> ELSE <<>>

Reports(seen, files) ==
  /\ Len(reports) + Len(seen) <= MaxReports
  /\ reports' = reports \o seen
  /\ missed' = missed \cup (files \ observed)

Changes(f, new) ==
  /\ RootOf[f] \in present
  /\ content' = [content EXCEPT ![f] = new] /\ content' # content
  /\ Reports(Queued([file |-> f, kind |-> CASE new = Gone -> "deleted"
                                             [] content[f] = Gone /\ new # Gone -> "created"
                                             [] OTHER -> "modified"]), {f})
  /\ UNCHANGED <<calls, present, index, lastIndex, lastEvent>>

Moves(f, g) ==
  /\ f # g /\ content[f] # Gone /\ RootOf[g] \in present
  /\ content' = [content EXCEPT ![f] = Gone, ![g] = content[f]]
  /\ Reports(Queued([kind |-> "modified", file |-> f]) \o Queued([kind |-> "modified", file |-> g]),
             {f, g})
  /\ UNCHANGED <<calls, present, index, lastIndex, lastEvent>>

(* A root goes with what is in it, moved away or its deletion unseen.  Its *)
(* files are not observed any more; notify still has a watch of the path   *)
(* when it followed a move.  (What it then reports of the new place under  *)
(* the old path is left out.)                                              *)
RootGoes(r) ==
  /\ r \in present
  /\ present' = present \ {r}
  /\ content' = [f \in WFiles |-> IF RootOf[f] = r THEN Gone ELSE content[f]]
  /\ observed' = observed \ FilesUnder(r)
  /\ registered' \in {registered, registered \ {r}}
  /\ missed' = missed \cup {f \in FilesUnder(r) : content[f] # Gone}
  /\ UNCHANGED <<watched, running, reports, index, lastIndex, lastEvent>>

(* A directory of that path is made again; nothing watches it. *)
RootComes(r) ==
  /\ r \notin present
  /\ present' = present \cup {r}
  /\ UNCHANGED <<calls, content, reports, index, lastIndex, lastEvent, missed>>

IndexWritten ==
  /\ index.mtime < MaxIndex
  /\ index' = [mtime |-> index.mtime + 1, recent |-> TRUE]
  /\ UNCHANGED <<calls, present, content, reports, lastIndex, lastEvent, missed>>

(* Five seconds later. *)
IndexAges ==
  /\ index.recent
  /\ index' = [index EXCEPT !.recent = FALSE]
  /\ UNCHANGED <<calls, present, content, reports, lastIndex, lastEvent, missed>>

-----------------------------------------------------------------------------
(* is_git_active: the index was written since the last look, and not five  *)
(* seconds ago; the first look only remembers.  So one event of those a    *)
(* git command causes is git's, whichever comes first.                     *)
IsGitActive == lastIndex # 0 /\ index.recent /\ index.mtime > lastIndex

(* BuildPatterns::matches: a directory or an ending builds leave behind. *)
MatchesBuild(f) == f \in BuildFiles

DetectSource(f) ==
  CASE IsGitActive -> "git"
    [] ~IsGitActive /\ MatchesBuild(f) -> "build"
    [] OTHER -> "user"

(* Seeded fault: only new files are hashed. *)
HashOfCreated(r) ==
  IF r.kind = "created" /\ content[r.file] \in Hashes THEN content[r.file] ELSE NoHash

(* hash_file, of the file as it is now: no hash of one that is too large,  *)
(* or no longer there, and none is asked for a deleted one.                *)
HashFor(r) ==
  IF r.kind # "deleted" /\ content[r.file] \in Hashes THEN content[r.file] ELSE NoHash

(* The callback of the notify watcher, for one path of its event. *)
Handles(r) ==
  IF r.file \in Filtered
  THEN UNCHANGED <<lastIndex, lastEvent>>
  ELSE /\ lastIndex' = index.mtime
       /\ lastEvent' = [lastEvent EXCEPT ![r.file] =
                          [kind |-> r.kind, source |-> DetectSource(r.file), hash |-> HashFor(r)]]

Callback ==
  /\ reports # <<>>
  /\ Handles(Head(reports))
  /\ reports' = Tail(reports)
  /\ missed' = IF Head(reports).kind = "deleted" \/ Head(reports).file \in FilesOf(Tail(reports))
               THEN missed ELSE missed \ {Head(reports).file}
  /\ UNCHANGED <<filesystem, calls>>

WatcherNext ==
  \/ Start \/ StartFails \/ Stop \/ Callback \/ IndexWritten \/ IndexAges
  \/ \E r \in Roots : Watch(r) \/ WatchRefused(r) \/ Unwatch(r) \/ RootGoes(r) \/ RootComes(r)
  \/ \E r \in Roots : \E part \in SUBSET FilesUnder(r) : WatchHalfDone(r, part)
  \/ \E f \in WFiles : \E new \in Hashes \cup {Big, Gone} : Changes(f, new)
  \/ \E f, g \in WFiles : Moves(f, g)

WatcherSpec == WatcherInit /\ [][WatcherNext]_watcherVars

-----------------------------------------------------------------------------
(* When nothing of a file is on its way, and nothing of it went unseen,    *)
(* its last event carries the hash of what the file holds: each event      *)
(* hashes the file at its own, later time, and the last of them looks last. *)
LastHashIsCurrent ==
  \A f \in WFiles \ (Filtered \cup Reported \cup missed) :
    lastEvent[f] # NoEvent /\ content[f] \in Hashes => lastEvent[f].hash = content[f]

=============================================================================
