---------------------------- MODULE TreesProofs ----------------------------
(***************************************************************************)
(* Proofs about the live trees (TreeState) and the watcher (FsWatcher),    *)
(* for any names, paths, roots and files.                                  *)
(***************************************************************************)
EXTENDS MCTrees, SequenceTheorems, FiniteSetTheorems, TLAPS

-----------------------------------------------------------------------------
(* The replica of a client.                                                *)
(*                                                                         *)
(* What a client can know of a tree is its set of paths, and the client's  *)
(* reading of each patch is what the operation does to that set.           *)

(* add_node leaves the paths there were, the new one and all above it. *)
LEMMA AddPaths ==
  ASSUME NEW t, NEW p, NEW isDir
  PROVE  DOMAIN AddNode(t, p, isDir) = DOMAIN t \cup Down(p)
<1>1. CASE Down(p) \ DOMAIN t = {}
  BY <1>1 DEF AddNode
<1>2. CASE Down(p) \ DOMAIN t # {}
  <2> DEFINE new == Down(p) \ DOMAIN t
  <2>1. DOMAIN AddNode(t, p, isDir) = DOMAIN t \cup new
    BY <1>2 DEF AddNode
  <2> QED BY <2>1
<1> QED BY <1>1, <1>2

(* remove_node leaves the paths that are not at or below the one removed. *)
LEMMA RemovePaths ==
  ASSUME NEW t, NEW p, RemoveNode(t, p) # t
  PROVE  DOMAIN RemoveNode(t, p) = {q \in DOMAIN t : ~Under(p, q)}
BY DEF RemoveNode

(* An event or a rename: the patch it yields does to the client's paths    *)
(* what the event did to the tree's.                                       *)
LEMMA ReplicaStep ==
  ASSUME ReplicaFollows, [TreeNext]_treeVars
  PROVE  ReplicaFollows'
<1>1. ASSUME NEW p \in Paths, Created(p) PROVE ReplicaFollows'
  <2>1. DOMAIN tree' = DOMAIN tree \cup Down(p)
    BY <1>1, AddPaths DEF Created
  <2>2. <<>> \notin Down(p)
    BY DEF Down
  <2>3. CASE tree' = tree
    BY <1>1, <2>3 DEF Created, ReplicaFollows
  <2>4. CASE tree' # tree
    BY <1>1, <2>1, <2>2, <2>4 DEF Created, ReplicaFollows, PatchedAdd
  <2> QED BY <2>3, <2>4
<1>2. ASSUME NEW p \in Paths, Deleted(p) PROVE ReplicaFollows'
  <2>1. CASE tree' = tree
    BY <1>2, <2>1 DEF Deleted, ReplicaFollows
  <2>2. CASE tree' # tree
    <3>1. DOMAIN tree' = {q \in DOMAIN tree : ~Under(p, q)}
      BY <1>2, <2>2, RemovePaths DEF Deleted
    <3> QED BY <1>2, <2>2, <3>1 DEF Deleted, ReplicaFollows, PatchedRemove
  <2> QED BY <2>1, <2>2
<1>3. ASSUME NEW old \in Paths, NEW new \in Paths, Renamed(old, new) PROVE ReplicaFollows'
  <2> DEFINE removed == RemoveNode(tree, old)
  <2> HIDE DEF removed
  <2>1. /\ tree' = IF removed = tree THEN tree ELSE AddNode(removed, new, FALSE)
        /\ replica' = IF removed # tree /\ new \notin DOMAIN removed
                      THEN PatchedAdd(PatchedRemove(replica, old), new) ELSE replica
        /\ clobbered' = (clobbered \/ (removed # tree /\ new \in DOMAIN removed))
        /\ scanning' = scanning
    BY <1>3 DEF Renamed, RenameNode, Has, removed
  <2>2. CASE removed = tree
    BY <2>1, <2>2 DEF ReplicaFollows
  <2>3. CASE removed # tree /\ new \in DOMAIN removed
    BY <2>1, <2>3 DEF ReplicaFollows
  <2>4. CASE removed # tree /\ new \notin DOMAIN removed
    <3>1. DOMAIN removed = {q \in DOMAIN tree : ~Under(old, q)}
      BY <2>4, RemovePaths DEF removed
    <3>2. DOMAIN tree' = DOMAIN removed \cup Down(new)
      BY <2>1, <2>4, AddPaths
    <3>3. <<>> \notin Down(new)
      BY DEF Down
    <3>4. (~clobbered' => ~clobbered) /\ (~scanning' => ~scanning)
      BY <2>1, <2>4
    <3>5. replica' = {q \in replica : ~Under(old, q)} \cup Down(new)
      BY <2>1, <2>4 DEF PatchedAdd, PatchedRemove
    <3> QED BY <3>1, <3>2, <3>3, <3>4, <3>5 DEF ReplicaFollows
  <2> QED BY <2>2, <2>3, <2>4
<1>4. CASE UNCHANGED treeVars
  BY <1>4 DEF treeVars, ReplicaFollows
<1>5. CASE ScanEnds
  BY <1>5 DEF ScanEnds, ReplicaFollows
<1>6. ASSUME scanning, NEW p \in Visible(disk), ScansEntry(p) PROVE ReplicaFollows'
  BY <1>6 DEF ScansEntry, ReplicaFollows
<1> QED BY <1>1, <1>2, <1>3, <1>4, <1>5, <1>6 DEF TreeNext

(* A client that was given the tree and replays every patch of add_node,   *)
(* remove_node and apply_rename has the daemon's paths, whatever the tree, *)
(* the paths and their order, unless a rename onto an existing node lost   *)
(* one without a patch.                                                    *)
THEOREM ReplayingFollows == TreeSpec => []ReplicaFollows
<1>1. TreeInit => ReplicaFollows
  BY DEF TreeInit, ReplicaFollows
<1>2. ReplicaFollows /\ [TreeNext]_treeVars => ReplicaFollows'
  BY ReplicaStep
<1> QED BY <1>1, <1>2, PTL DEF TreeSpec

-----------------------------------------------------------------------------
(* The watcher.                                                            *)

(* What one change, and the two of a rename, may queue. *)
Report == [kind: Kinds, file: WFiles]

(* A change reaches the queue once when notify watches the file's          *)
(* directory, and not at all otherwise.                                    *)
LEMMA QueuedOne ==
  ASSUME NEW r \in Report
  PROVE  /\ Queued(r) \in Seq(Report)
         /\ r.file \in observed => Len(Queued(r)) = 1 /\ Queued(r)[1] = r
         /\ r.file \notin observed => Queued(r) = <<>> /\ Len(Queued(r)) = 0
<1>1. CASE r.file \in observed
  BY <1>1 DEF Queued
<1>2. CASE r.file \notin observed
  BY <1>2, EmptySeq DEF Queued
<1> QED BY <1>1, <1>2

(* Every change finds the queue typed and leaves it typed and bounded. *)
LEMMA ReportsTyped ==
  ASSUME NEW seen \in Seq(Report), NEW files \in SUBSET WFiles,
         reports \in Seq(Report), missed \subseteq WFiles, Reports(seen, files)
  PROVE  /\ reports' \in Seq(Report) /\ Len(reports') <= MaxReports
         /\ Len(reports') = Len(reports) + Len(seen)
         /\ missed' \subseteq WFiles
<1>1. reports' = reports \o seen /\ Len(reports) + Len(seen) <= MaxReports
  BY DEF Reports
<1>2. reports \o seen \in Seq(Report) /\ Len(reports \o seen) = Len(reports) + Len(seen)
  BY ConcatProperties
<1>3. missed' \subseteq WFiles
  BY DEF Reports
<1> QED BY <1>1, <1>2, <1>3

(* What Changes queues of one file. *)
ChangeOf(f, new) ==
  [file |-> f, kind |-> CASE new = Gone -> "deleted"
                          [] content[f] = Gone /\ new # Gone -> "created"
                          [] OTHER -> "modified"]

(* A change of one file is announced as one of the three kinds, as deleted *)
(* only when the file is gone.                                             *)
LEMMA ChangeTyped ==
  ASSUME NEW f \in WFiles, NEW new
  PROVE  /\ ChangeOf(f, new) \in Report /\ ChangeOf(f, new).file = f
         /\ ChangeOf(f, new).kind = "deleted" => new = Gone
<1>1. CASE new = Gone
  BY <1>1 DEF ChangeOf, Report, Kinds
<1>2. CASE new # Gone /\ content[f] = Gone
  BY <1>2 DEF ChangeOf, Report, Kinds
<1>3. CASE new # Gone /\ content[f] # Gone
  BY <1>3 DEF ChangeOf, Report, Kinds
<1> QED BY <1>1, <1>2, <1>3

(* detect_source and hash_file answer what an event may carry. *)
LEMMA SentTyped ==
  ASSUME NEW r \in Report, content \in [WFiles -> Hashes \cup {Big, Gone}]
  PROVE  [kind |-> r.kind, source |-> DetectSource(r.file), hash |-> HashFor(r)] \in SentEvents
<1>1. DetectSource(r.file) \in {"git", "build", "user"}
  <2>1. CASE IsGitActive
    BY <2>1 DEF DetectSource
  <2>2. CASE ~IsGitActive /\ MatchesBuild(r.file)
    BY <2>2 DEF DetectSource
  <2>3. CASE ~IsGitActive /\ ~MatchesBuild(r.file)
    BY <2>3 DEF DetectSource
  <2> QED BY <2>1, <2>2, <2>3
<1>2. HashFor(r) \in Hashes \cup {NoHash}
  BY DEF HashFor
<1>3. r.kind \in Kinds
  BY DEF Report
<1> QED BY <1>1, <1>2, <1>3 DEF SentEvents

(* Every call on the watcher, every change of the disk and every run of    *)
(* the callback keeps the types.                                           *)
LEMMA WatcherTypesStep ==
  ASSUME WatcherTypeOK, [WatcherNext]_watcherVars
  PROVE  WatcherTypeOK'
<1> USE DEF WatcherTypeOK
<1>t. reports \in Seq(Report) /\ Len(reports) \in Nat
  BY LenProperties DEF Report
<1>r. \A q \in SUBSET WFiles : missed \cup q \subseteq WFiles
  OBVIOUS
<1>q. Reported \subseteq WFiles
  <2>1. \A i \in DOMAIN reports : reports[i] \in Report
    BY <1>t, LenProperties, ElementOfSeq
  <2> QED BY <2>1 DEF Reported, FilesOf, Report
<1>e. <<>> \in Seq([kind: Kinds, file: WFiles]) /\ Len(<<>>) = 0 /\ 0 <= MaxReports
  BY EmptySeq, WatcherBounds
<1>1. CASE Start
  BY <1>1, <1>q, <1>e DEF Start, filesystem
<1>2. CASE Stop
  BY <1>2, <1>q, <1>e DEF Stop, filesystem
<1>3. CASE Callback
  <2>1. PICK r \in Report : r = Head(reports)
    BY <1>3, <1>t, HeadTailProperties DEF Callback
  <2>2. Tail(reports) \in Seq(Report) /\ Len(Tail(reports)) = Len(reports) - 1
    BY <1>3, <1>t, HeadTailProperties DEF Callback
  <2>3. reports' \in Seq([kind: Kinds, file: WFiles]) /\ Len(reports') <= MaxReports
    BY <1>3, <1>t, <2>2, WatcherBounds DEF Callback, Report
  <2>4. lastIndex' \in 0..MaxIndex /\ lastEvent' \in [WFiles -> SentEvents \cup {NoEvent}]
    <3>1. Handles(r)
      BY <1>3, <2>1 DEF Callback
    <3>2. CASE r.file \in Filtered
      BY <3>1, <3>2 DEF Handles
    <3>3. CASE r.file \notin Filtered
      <4>1. [kind |-> r.kind, source |-> DetectSource(r.file), hash |-> HashFor(r)] \in SentEvents
        BY SentTyped
      <4> QED BY <3>1, <3>3, <4>1 DEF Handles
    <3> QED BY <3>2, <3>3
  <2>5. missed' \subseteq WFiles
    BY <1>3 DEF Callback
  <2>6. UNCHANGED <<present, content, index, watched, running, registered, observed>>
    BY <1>3 DEF Callback, filesystem, calls
  <2> QED BY <2>3, <2>4, <2>5, <2>6
<1>4. CASE IndexWritten
  <2>1. index.mtime + 1 \in 0..MaxIndex
    BY <1>4, WatcherBounds DEF IndexWritten
  <2>2. index' \in [mtime: 0..MaxIndex, recent: BOOLEAN]
    BY <1>4, <2>1 DEF IndexWritten
  <2> QED BY <1>4, <2>2 DEF IndexWritten, calls
<1>5. CASE IndexAges
  BY <1>5 DEF IndexAges, calls
<1>6. ASSUME NEW r \in Roots, Watch(r) PROVE WatcherTypeOK'
  BY <1>6 DEF Watch, filesystem, FilesUnder
<1>7. ASSUME NEW r \in Roots, WatchRefused(r) PROVE WatcherTypeOK'
  BY <1>7 DEF WatchRefused, watcherVars
<1>8. ASSUME NEW r \in Roots, Unwatch(r) PROVE WatcherTypeOK'
  BY <1>8 DEF Unwatch, filesystem, FilesUnder
<1>9. ASSUME NEW f \in WFiles, NEW new \in Hashes \cup {Big, Gone}, Changes(f, new)
      PROVE  WatcherTypeOK'
  <2>1. Reports(Queued(ChangeOf(f, new)), {f}) /\ Queued(ChangeOf(f, new)) \in Seq(Report)
    BY <1>9, ChangeTyped, QueuedOne DEF Changes, ChangeOf
  <2>2. reports' \in Seq(Report) /\ Len(reports') <= MaxReports /\ missed' \subseteq WFiles
    BY <1>t, <2>1, ReportsTyped
  <2>3. \A h \in WFiles : content'[h] # Gone => RootOf[h] \in present'
    BY <1>9 DEF Changes
  <2> QED BY <1>9, <2>2, <2>3 DEF Changes, Report, calls
<1>10. ASSUME NEW f \in WFiles, NEW g \in WFiles, Moves(f, g)
       PROVE  WatcherTypeOK'
  <2> DEFINE of(h) == [kind |-> "modified", file |-> h]
  <2>1. Queued(of(f)) \in Seq(Report) /\ Queued(of(g)) \in Seq(Report)
    BY QueuedOne DEF Report, Kinds
  <2>2. Queued(of(f)) \o Queued(of(g)) \in Seq(Report)
    BY <2>1, ConcatProperties
  <2>3. reports' \in Seq(Report) /\ Len(reports') <= MaxReports /\ missed' \subseteq WFiles
    <3>1. Reports(Queued(of(f)) \o Queued(of(g)), {f, g})
      BY <1>10 DEF Moves
    <3>2. {f, g} \in SUBSET WFiles
      OBVIOUS
    <3> HIDE DEF of
    <3> QED BY <1>t, <2>2, <3>1, <3>2, ReportsTyped
  <2>4. \A h \in WFiles : content'[h] # Gone => RootOf[h] \in present'
    BY <1>10 DEF Moves
  <2> QED BY <1>10, <2>3, <2>4 DEF Moves, Report, calls
<1>11. ASSUME NEW r \in Roots, NEW half \in SUBSET FilesUnder(r), WatchHalfDone(r, half)
       PROVE  WatcherTypeOK'
  BY <1>11 DEF WatchHalfDone, filesystem, FilesUnder
<1>12. ASSUME NEW r \in Roots, RootGoes(r) PROVE WatcherTypeOK'
  <2>1. content' \in [WFiles -> Hashes \cup {Big, Gone}]
    BY <1>12 DEF RootGoes
  <2>2. \A f \in WFiles : content'[f] # Gone => RootOf[f] \in present'
    BY <1>12 DEF RootGoes
  <2>3. missed' \subseteq WFiles /\ present' \subseteq Roots
    BY <1>12 DEF RootGoes, FilesUnder
  <2>4. /\ registered' \subseteq Roots /\ (registered' # {} => running')
        /\ observed' \subseteq WFiles /\ \A f \in observed' : RootOf[f] \in registered'
    BY <1>12 DEF RootGoes, FilesUnder
  <2> QED BY <1>12, <2>1, <2>2, <2>3, <2>4 DEF RootGoes
<1>13. ASSUME NEW r \in Roots, RootComes(r) PROVE WatcherTypeOK'
  BY <1>13 DEF RootComes, calls
<1>14. CASE StartFails \/ UNCHANGED watcherVars
  BY <1>14 DEF StartFails, watcherVars
<1> QED
  BY <1>1, <1>2, <1>3, <1>4, <1>5, <1>6, <1>7, <1>8, <1>9, <1>10, <1>11, <1>12, <1>13,
     <1>14 DEF WatcherNext

(* The variables of a new watcher have their types. *)
LEMMA WatcherTypesInit == WatcherInit => WatcherTypeOK
<1> SUFFICES ASSUME WatcherInit PROVE WatcherTypeOK
  OBVIOUS
<1>1. reports \in Seq([kind: Kinds, file: WFiles]) /\ Len(reports) <= MaxReports
  BY EmptySeq, WatcherBounds DEF WatcherInit
<1>2. /\ running \in BOOLEAN /\ (registered # {} => running) /\ present \subseteq Roots
      /\ observed \subseteq WFiles /\ \A f \in observed : RootOf[f] \in registered
      /\ \A f \in WFiles : content[f] # Gone => RootOf[f] \in present
  BY DEF WatcherInit
<1>3. /\ watched \subseteq Roots /\ registered \subseteq Roots /\ missed \subseteq WFiles
      /\ content \in [WFiles -> Hashes \cup {Big, Gone}]
      /\ lastEvent \in [WFiles -> SentEvents \cup {NoEvent}]
  BY DEF WatcherInit
<1>4. index \in [mtime: 0..MaxIndex, recent: BOOLEAN] /\ lastIndex \in 0..MaxIndex
  BY WatcherBounds DEF WatcherInit
<1> QED BY <1>1, <1>2, <1>3, <1>4 DEF WatcherTypeOK

-----------------------------------------------------------------------------
(* Hashes.                                                                 *)

(* The i-th change on its way is the last of its file. *)
LastOfFile(i) ==
  \A j \in DOMAIN reports : i < j => reports[j].file # reports[i].file

(* The callback asks for no hash of a deleted file, which must not matter: *)
(* when the last change of a file on its way is its deletion, and nothing  *)
(* of the file went unseen, no hash could be had.                          *)
DeletedIsGone ==
  \A i \in DOMAIN reports :
    LastOfFile(i) /\ reports[i].kind = "deleted" /\ reports[i].file \notin missed
      => content[reports[i].file] \notin Hashes

HashInv == WatcherTypeOK /\ DeletedIsGone /\ LastHashIsCurrent

(* The files with something on its way, by position in the queue. *)
LEMMA ReportedByPosition ==
  ASSUME reports \in Seq(Report)
  PROVE  /\ DOMAIN reports = 1..Len(reports) /\ Len(reports) \in Nat
         /\ \A i \in DOMAIN reports : reports[i] \in Report /\ reports[i].file \in Reported
         /\ \A f \in Reported : \E i \in DOMAIN reports : reports[i].file = f
<1>1. DOMAIN reports = 1..Len(reports) /\ Len(reports) \in Nat
  BY LenProperties
<1>2. \A i \in DOMAIN reports : reports[i] \in Report
  BY <1>1, ElementOfSeq
<1> QED BY <1>1, <1>2 DEF Reported, FilesOf

(* A change of the disk: each file that changes is announced behind all    *)
(* that is on its way, or has changed unseen.                              *)
LEMMA ChangesKeepHashes ==
  ASSUME HashInv, NEW seen \in Seq(Report), NEW files \in SUBSET WFiles,
         Reports(seen, files), UNCHANGED lastEvent,
         \A h \in WFiles \ files : content'[h] = content[h],
         \A h \in files : h \in observed => \E k \in 1..Len(seen) : seen[k].file = h,
         \A k \in 1..Len(seen) : seen[k].kind = "deleted" => content'[seen[k].file] \notin Hashes
  PROVE  DeletedIsGone' /\ LastHashIsCurrent'
<1>q. reports \in Seq(Report) /\ missed \subseteq WFiles
  BY DEF HashInv, WatcherTypeOK, Report
<1>n. DOMAIN reports = 1..Len(reports) /\ Len(reports) \in Nat
  BY <1>q, ReportedByPosition
<1>s. Len(seen) \in Nat /\ \A k \in 1..Len(seen) : seen[k] \in Report
  BY LenProperties, ElementOfSeq
<1>1. /\ reports' = reports \o seen /\ reports' \in Seq(Report)
      /\ DOMAIN reports' = 1..(Len(reports) + Len(seen))
      /\ \A i \in 1..Len(reports) : reports'[i] = reports[i]
      /\ \A k \in 1..Len(seen) : reports'[Len(reports) + k] = seen[k]
  <2>1. reports' = reports \o seen
    BY DEF Reports
  <2>2. /\ reports \o seen \in Seq(Report) /\ Len(reports \o seen) = Len(reports) + Len(seen)
        /\ \A i \in 1..(Len(reports) + Len(seen)) : (reports \o seen)[i] =
              IF i <= Len(reports) THEN reports[i] ELSE seen[i - Len(reports)]
    BY <1>q, ConcatProperties
  <2>3. DOMAIN (reports \o seen) = 1..(Len(reports) + Len(seen))
    BY <2>2, LenProperties
  <2>4. \A k \in 1..Len(seen) : reports'[Len(reports) + k] = seen[k]
    <3> TAKE k \in 1..Len(seen)
    <3>1. Len(reports) + k \in 1..(Len(reports) + Len(seen)) /\ ~(Len(reports) + k <= Len(reports))
      BY <1>n, <1>s
    <3>2. (Len(reports) + k) - Len(reports) = k
      BY <1>n, <1>s
    <3> QED BY <2>1, <2>2, <3>1, <3>2
  <2>5. \A i \in 1..Len(reports) : reports'[i] = reports[i]
    BY <1>n, <1>s, <2>1, <2>2
  <2> QED BY <2>1, <2>2, <2>3, <2>4, <2>5
<1>2. missed' = missed \cup (files \ observed)
  BY DEF Reports
<1>3. \A h \in files : h \in observed =>
        \E j \in DOMAIN reports' : j > Len(reports) /\ reports'[j].file = h
  <2> SUFFICES ASSUME NEW h \in files, h \in observed
               PROVE  \E j \in DOMAIN reports' : j > Len(reports) /\ reports'[j].file = h
    OBVIOUS
  <2>1. PICK k \in 1..Len(seen) : seen[k].file = h
    OBVIOUS
  <2>2. Len(reports) + k \in DOMAIN reports' /\ Len(reports) + k > Len(reports)
    BY <1>n, <1>s, <1>1
  <2> QED BY <1>1, <2>1, <2>2
<1>4. DeletedIsGone'
  <2> SUFFICES ASSUME NEW i \in DOMAIN reports', LastOfFile(i)',
                      reports'[i].kind = "deleted", reports'[i].file \notin missed'
               PROVE  content'[reports'[i].file] \notin Hashes
    BY DEF DeletedIsGone
  <2>1. CASE i > Len(reports)
    <3>1. PICK k \in 1..Len(seen) : i = Len(reports) + k
      <4>1. i - Len(reports) \in 1..Len(seen) /\ i = Len(reports) + (i - Len(reports))
        BY <1>n, <1>s, <1>1, <2>1
      <4> QED BY <4>1
    <3> QED BY <1>1, <3>1
  <2>2. CASE ~(i > Len(reports))
    <3>1. i \in 1..Len(reports) /\ reports'[i] = reports[i]
      BY <1>n, <1>s, <1>1, <2>2
    <3>2. reports[i].file \notin files
      <4> SUFFICES ASSUME reports[i].file \in files PROVE FALSE
        OBVIOUS
      <4>1. reports[i].file \in observed
        BY <1>2, <3>1
      <4>2. PICK j \in DOMAIN reports' : j > Len(reports) /\ reports'[j].file = reports[i].file
        BY <1>3, <4>1
      <4>3. i < j
        BY <1>n, <1>s, <1>1, <3>1, <4>2
      <4> QED BY <3>1, <4>2, <4>3 DEF LastOfFile
    <3>3. LastOfFile(i)
      BY <1>n, <1>s, <1>1, <3>1 DEF LastOfFile
    <3>4. content[reports[i].file] \notin Hashes
      BY <1>n, <1>2, <3>1, <3>3 DEF HashInv, DeletedIsGone
    <3>5. reports[i].file \in WFiles
      BY <1>q, <1>n, <3>1, ReportedByPosition DEF Report
    <3> QED BY <3>1, <3>2, <3>4, <3>5
  <2> QED BY <2>1, <2>2
<1>5. LastHashIsCurrent'
  <2>1. Reported \subseteq Reported'
    <3> SUFFICES ASSUME NEW h \in Reported PROVE h \in Reported'
      OBVIOUS
    <3>1. PICK i \in 1..Len(reports) : reports[i].file = h
      BY <1>n DEF Reported, FilesOf
    <3>2. i \in DOMAIN reports' /\ reports'[i].file = h
      BY <1>n, <1>s, <1>1, <3>1
    <3> QED BY <3>2 DEF Reported, FilesOf
  <2>2. files \subseteq Reported' \cup missed'
    <3> SUFFICES ASSUME NEW h \in files, h \in observed PROVE h \in Reported'
      BY <1>2
    <3>1. PICK j \in DOMAIN reports' : reports'[j].file = h
      BY <1>3
    <3> QED BY <3>1 DEF Reported, FilesOf
  <2>3. missed \subseteq missed'
    BY <1>2
  <2> SUFFICES ASSUME NEW h \in WFiles, h \notin Filtered, h \notin Reported', h \notin missed',
                      lastEvent'[h] # NoEvent, content'[h] \in Hashes
               PROVE  lastEvent'[h].hash = content'[h]
    BY DEF LastHashIsCurrent
  <2>4. h \notin files /\ h \notin Reported /\ h \notin missed
    BY <2>1, <2>2, <2>3
  <2>5. content'[h] = content[h] /\ lastEvent'[h] = lastEvent[h]
    BY <2>4
  <2> QED BY <2>4, <2>5 DEF HashInv, LastHashIsCurrent
<1> QED BY <1>4, <1>5

(* What was queued is dropped by start and stop; its files count as missed. *)
LEMMA DroppedKeepsHashes ==
  ASSUME HashInv, reports' = <<>>, missed' = missed \cup Reported,
         UNCHANGED <<content, lastEvent>>
  PROVE  DeletedIsGone' /\ LastHashIsCurrent'
<1>1. DeletedIsGone'
  BY DEF DeletedIsGone
<1>2. LastHashIsCurrent'
  <2> SUFFICES ASSUME NEW h \in WFiles, h \notin Filtered, h \notin missed',
                      lastEvent'[h] # NoEvent, content'[h] \in Hashes
               PROVE  lastEvent'[h].hash = content'[h]
    BY DEF LastHashIsCurrent
  <2> QED BY DEF HashInv, LastHashIsCurrent
<1> QED BY <1>1, <1>2

(* A root goes: no file of it has a hash, whatever is still on its way. *)
LEMMA RootGoneKeepsHashes ==
  ASSUME HashInv, NEW r \in Roots, RootGoes(r)
  PROVE  DeletedIsGone' /\ LastHashIsCurrent'
<1>1. /\ UNCHANGED <<reports, lastEvent>> /\ missed \subseteq missed' /\ Reported' = Reported
      /\ \A f \in WFiles : content'[f] = IF RootOf[f] = r THEN Gone ELSE content[f]
      /\ Gone \notin Hashes
  BY HashesAssumption DEF RootGoes, Reported, FilesOf
<1>2. \A i \in DOMAIN reports : reports[i].file \in WFiles
  BY ReportedByPosition DEF HashInv, WatcherTypeOK, Report
<1>3. DeletedIsGone'
  BY <1>1, <1>2 DEF HashInv, DeletedIsGone, LastOfFile
<1>4. LastHashIsCurrent'
  BY <1>1 DEF HashInv, LastHashIsCurrent
<1> QED BY <1>3, <1>4

(* The callback takes the oldest change and looks at the file as it is.    *)
LEMMA CallbackKeepsHashes ==
  ASSUME HashInv, Callback
  PROVE  DeletedIsGone' /\ LastHashIsCurrent'
<1>q. reports \in Seq(Report) /\ reports # <<>>
  BY DEF HashInv, WatcherTypeOK, Report, Callback
<1>n. DOMAIN reports = 1..Len(reports) /\ Len(reports) \in Nat /\ 1 \in DOMAIN reports
  <2>1. Len(reports) \in Nat \ {0}
    BY <1>q, EmptySeq
  <2> QED BY <1>q, <2>1, ReportedByPosition
<1>1. PICK r \in Report : r = Head(reports)
  BY <1>q, HeadTailProperties
<1>h. r = reports[1]
  BY <1>q, <1>1
<1>2. /\ reports' = Tail(reports) /\ reports' \in Seq(Report)
      /\ DOMAIN reports' = 1..(Len(reports) - 1)
      /\ \A i \in DOMAIN reports' : reports'[i] = reports[i + 1]
  BY <1>q, <1>n, HeadTailProperties, LenProperties DEF Callback
<1>3. UNCHANGED content
  BY DEF Callback, filesystem
<1>4. missed' = IF r.kind = "deleted" \/ r.file \in Reported' THEN missed ELSE missed \ {r.file}
  BY <1>1, <1>2 DEF Callback, Reported
<1>5. IF r.file \in Filtered THEN lastEvent' = lastEvent
      ELSE lastEvent' = [lastEvent EXCEPT ![r.file] =
             [kind |-> r.kind, source |-> DetectSource(r.file), hash |-> HashFor(r)]]
  BY <1>1 DEF Callback, Handles
<1>6. \A f \in Reported : f = r.file \/ f \in Reported'
  <2> SUFFICES ASSUME NEW f \in Reported, f # r.file PROVE f \in Reported'
    OBVIOUS
  <2>1. PICK i \in 1..Len(reports) : reports[i].file = f
    BY <1>n DEF Reported, FilesOf
  <2>2. i - 1 \in DOMAIN reports' /\ reports'[i - 1].file = f
    <3>1. i # 1
      BY <1>h, <2>1
    <3>2. i - 1 \in 1..(Len(reports) - 1) /\ (i - 1) + 1 = i
      BY <1>n, <3>1
    <3> QED BY <1>2, <2>1, <3>2
  <2> QED BY <2>2 DEF Reported, FilesOf
<1>7. DeletedIsGone'
  <2> SUFFICES ASSUME NEW i \in DOMAIN reports', LastOfFile(i)',
                      reports'[i].kind = "deleted", reports'[i].file \notin missed'
               PROVE  content'[reports'[i].file] \notin Hashes
    BY DEF DeletedIsGone
  <2>1. i + 1 \in DOMAIN reports /\ reports'[i] = reports[i + 1]
    BY <1>n, <1>2
  <2>2. LastOfFile(i + 1)
    <3> SUFFICES ASSUME NEW j \in DOMAIN reports, i + 1 < j
                 PROVE  reports[j].file # reports[i + 1].file
      BY DEF LastOfFile
    <3>1. j - 1 \in DOMAIN reports' /\ i < j - 1 /\ (j - 1) + 1 = j
      BY <1>n, <1>2
    <3> QED BY <1>2, <2>1, <3>1 DEF LastOfFile
  <2>3. reports'[i].file \in Reported'
    BY DEF Reported, FilesOf
  <2>4. reports[i + 1].file \notin missed
    BY <1>4, <2>1, <2>3
  <2> QED BY <1>3, <2>1, <2>2, <2>4 DEF HashInv, DeletedIsGone
<1>8. LastHashIsCurrent'
  <2> SUFFICES ASSUME NEW f \in WFiles, f \notin Filtered, f \notin Reported', f \notin missed',
                      lastEvent'[f] # NoEvent, content'[f] \in Hashes
               PROVE  lastEvent'[f].hash = content'[f]
    BY DEF LastHashIsCurrent
  <2>t. lastEvent \in [WFiles -> SentEvents \cup {NoEvent}]
    BY DEF HashInv, WatcherTypeOK
  <2>1. CASE f # r.file
    <3>1. f \notin Reported /\ f \notin missed
      BY <1>4, <1>6, <2>1
    <3>2. lastEvent'[f] = lastEvent[f]
      BY <1>5, <2>t, <2>1
    <3> QED BY <1>3, <3>1, <3>2 DEF HashInv, LastHashIsCurrent
  <2>2. CASE f = r.file
    <3>1. lastEvent'[f].hash = HashFor(r)
      BY <1>5, <2>t, <2>2
    <3>2. r.kind # "deleted"
      <4> SUFFICES ASSUME r.kind = "deleted" PROVE FALSE
        OBVIOUS
      <4>1. f \notin missed
        BY <1>4
      <4>2. LastOfFile(1)
        <5> SUFFICES ASSUME NEW j \in DOMAIN reports, 1 < j
                     PROVE  reports[j].file # reports[1].file
          BY DEF LastOfFile
        <5>1. j - 1 \in DOMAIN reports' /\ reports'[j - 1] = reports[j]
          BY <1>n, <1>2
        <5>2. reports[j].file \in Reported'
          BY <5>1 DEF Reported, FilesOf
        <5> QED BY <1>h, <2>2, <5>2
      <4> QED BY <1>n, <1>h, <1>3, <2>2, <4>1, <4>2 DEF HashInv, DeletedIsGone
    <3> QED BY <1>3, <2>2, <3>1, <3>2 DEF HashFor
  <2> QED BY <2>1, <2>2
<1> QED BY <1>7, <1>8

(* Every step of the watcher, the disk and the callback.                   *)
LEMMA HashStep ==
  ASSUME HashInv, [WatcherNext]_watcherVars
  PROVE  HashInv'
<1>t. WatcherTypeOK'
  BY WatcherTypesStep DEF HashInv
<1>c. content \in [WFiles -> Hashes \cup {Big, Gone}] /\ Gone \notin Hashes
  BY HashesAssumption DEF HashInv, WatcherTypeOK
<1>u. ASSUME UNCHANGED <<content, reports, lastEvent, missed>>
      PROVE  DeletedIsGone' /\ LastHashIsCurrent'
  BY <1>u DEF HashInv, DeletedIsGone, LastOfFile, LastHashIsCurrent, Reported, FilesOf
<1>1. CASE Start
  BY <1>t, <1>1, DroppedKeepsHashes DEF Start, filesystem, HashInv
<1>2. CASE Stop
  BY <1>t, <1>2, DroppedKeepsHashes DEF Stop, filesystem, HashInv
<1>3. CASE Callback
  BY <1>t, <1>3, CallbackKeepsHashes DEF HashInv
<1>4. CASE IndexWritten \/ IndexAges
  BY <1>t, <1>4, <1>u DEF IndexWritten, IndexAges, HashInv
<1>5. ASSUME NEW r \in Roots, Watch(r) \/ WatchRefused(r) \/ Unwatch(r) \/ RootComes(r)
      PROVE  HashInv'
  BY <1>t, <1>5, <1>u DEF Watch, WatchRefused, Unwatch, RootComes, filesystem, watcherVars, HashInv
<1>9. ASSUME NEW r \in Roots, NEW half \in SUBSET FilesUnder(r), WatchHalfDone(r, half)
      PROVE  HashInv'
  BY <1>t, <1>9, <1>u DEF WatchHalfDone, filesystem, HashInv
<1>10. ASSUME NEW r \in Roots, RootGoes(r) PROVE HashInv'
  BY <1>t, <1>10, RootGoneKeepsHashes DEF HashInv
<1>6. ASSUME NEW f \in WFiles, NEW new \in Hashes \cup {Big, Gone}, Changes(f, new)
      PROVE  HashInv'
  <2> DEFINE change == ChangeOf(f, new)
  <2>1. /\ change \in Report /\ change.file = f
        /\ change.kind = "deleted" => new = Gone
    BY ChangeTyped
  <2> HIDE DEF change
  <2>2. PICK seen \in Seq(Report) : seen = Queued(change)
    BY <2>1, QueuedOne
  <2>3. Reports(seen, {f})
    BY <1>6, <2>2 DEF Changes, ChangeOf, change
  <2>4. UNCHANGED lastEvent /\ content' = [content EXCEPT ![f] = new]
    BY <1>6 DEF Changes
  <2>5. \A h \in WFiles \ {f} : content'[h] = content[h]
    BY <1>c, <2>4
  <2>6. \A h \in {f} : h \in observed => \E k \in 1..Len(seen) : seen[k].file = h
    BY <2>1, <2>2, QueuedOne
  <2>7. \A k \in 1..Len(seen) : seen[k].kind = "deleted" => content'[seen[k].file] \notin Hashes
    <3> SUFFICES ASSUME NEW k \in 1..Len(seen), seen[k].kind = "deleted"
                 PROVE  content'[seen[k].file] \notin Hashes
      OBVIOUS
    <3>1. seen[k] = change
      BY <2>1, <2>2, QueuedOne
    <3> QED BY <1>c, <2>1, <2>4, <3>1
  <2>8. {f} \in SUBSET WFiles
    OBVIOUS
  <2>9. DeletedIsGone' /\ LastHashIsCurrent'
    BY <2>3, <2>4, <2>5, <2>6, <2>7, <2>8, ChangesKeepHashes
  <2> QED BY <1>t, <2>9 DEF HashInv
<1>7. ASSUME NEW f \in WFiles, NEW g \in WFiles, Moves(f, g) PROVE HashInv'
  <2>1. PICK one \in Seq(Report), two \in Seq(Report) :
          /\ one = Queued([kind |-> "modified", file |-> f])
          /\ two = Queued([kind |-> "modified", file |-> g])
    BY QueuedOne DEF Report, Kinds
  <2>o. /\ Len(one) \in Nat /\ Len(two) \in Nat
        /\ \A k \in 1..Len(one) : one[k] = [kind |-> "modified", file |-> f]
        /\ \A k \in 1..Len(two) : two[k] = [kind |-> "modified", file |-> g]
        /\ f \in observed => Len(one) = 1
        /\ g \in observed => Len(two) = 1
    <3>1. \A h \in WFiles : [kind |-> "modified", file |-> h] \in Report
      BY DEF Report, Kinds
    <3>2. ASSUME NEW h \in WFiles, NEW q \in Seq(Report),
                 q = Queued([kind |-> "modified", file |-> h])
          PROVE  /\ Len(q) \in Nat
                 /\ \A k \in 1..Len(q) : q[k] = [kind |-> "modified", file |-> h]
                 /\ h \in observed => Len(q) = 1
      BY <3>1, <3>2, QueuedOne
    <3> QED BY <2>1, <3>2
  <2>2. PICK seen \in Seq(Report) : seen = one \o two
    BY ConcatProperties
  <2>3. Reports(seen, {f, g})
    BY <1>7, <2>1, <2>2 DEF Moves
  <2>4. /\ UNCHANGED lastEvent
        /\ content' = [content EXCEPT ![f] = Gone, ![g] = content[f]]
    BY <1>7 DEF Moves
  <2>5. \A h \in WFiles \ {f, g} : content'[h] = content[h]
    BY <1>c, <2>4
  <2>s. /\ Len(seen) = Len(one) + Len(two)
        /\ \A k \in 1..Len(one) : seen[k] = one[k]
        /\ \A k \in 1..Len(seen) : k <= Len(one) => seen[k] = one[k]
        /\ \A k \in 1..Len(seen) : ~(k <= Len(one)) => seen[k] = two[k - Len(one)]
    BY <2>2, <2>o, ConcatProperties
  <2>6. \A h \in {f, g} : h \in observed => \E k \in 1..Len(seen) : seen[k].file = h
    <3>1. ASSUME f \in observed PROVE 1 \in 1..Len(seen) /\ seen[1].file = f
      <4>1. Len(one) = 1
        BY <3>1, <2>o
      <4>2. 1 \in 1..Len(one) /\ 1 \in 1..Len(seen)
        BY <4>1, <2>o, <2>s
      <4>3. seen[1] = one[1]
        BY <4>2, <2>s
      <4>4. one[1] = [kind |-> "modified", file |-> f]
        BY <4>2, <2>o
      <4> QED BY <4>2, <4>3, <4>4
    <3>2. ASSUME g \in observed
          PROVE  Len(one) + 1 \in 1..Len(seen) /\ seen[Len(one) + 1].file = g
      <4>0. Len(two) = 1
        BY <3>2, <2>o
      <4>1. Len(one) + 1 \in 1..Len(seen) /\ ~(Len(one) + 1 <= Len(one))
        BY <4>0, <2>o, <2>s
      <4>2. (Len(one) + 1) - Len(one) = 1 /\ 1 \in 1..Len(two)
        BY <4>0, <2>o
      <4>3. seen[Len(one) + 1] = two[1]
        BY <4>1, <4>2, <2>s
      <4> QED BY <4>1, <4>2, <4>3, <2>o
    <3> QED BY <3>1, <3>2
  <2>7. \A k \in 1..Len(seen) : seen[k].kind = "deleted" => content'[seen[k].file] \notin Hashes
    <3> SUFFICES ASSUME NEW k \in 1..Len(seen) PROVE seen[k].kind # "deleted"
      OBVIOUS
    <3>1. CASE k <= Len(one)
      <4>1. k \in 1..Len(one)
        BY <3>1, <2>o
      <4> QED BY <3>1, <4>1, <2>o, <2>s
    <3>2. CASE ~(k <= Len(one))
      <4>1. k - Len(one) \in 1..Len(two)
        BY <3>2, <2>o, <2>s
      <4> QED BY <3>2, <4>1, <2>o, <2>s
    <3> QED BY <3>1, <3>2
  <2>8. {f, g} \in SUBSET WFiles
    OBVIOUS
  <2>9. DeletedIsGone' /\ LastHashIsCurrent'
    BY <2>3, <2>4, <2>5, <2>6, <2>7, <2>8, ChangesKeepHashes
  <2> QED BY <1>t, <2>9 DEF HashInv
<1>8. CASE StartFails \/ UNCHANGED watcherVars
  BY <1>t, <1>8, <1>u DEF StartFails, watcherVars, HashInv
<1> QED
  BY <1>1, <1>2, <1>3, <1>4, <1>5, <1>6, <1>7, <1>8, <1>9, <1>10 DEF WatcherNext

(* Whatever files and directories change, move or go while changes of them *)
(* are on their way, however little of a tree a registration covers, and   *)
(* whenever the watcher is started and stopped: when nothing of a *)
(* file is under way or went unseen, its last event carries its hash.      *)
THEOREM LastHashIsOfTheFile == WatcherSpec => []LastHashIsCurrent
<1>1. WatcherInit => HashInv
  <2> SUFFICES ASSUME WatcherInit PROVE HashInv
    OBVIOUS
  <2>1. DeletedIsGone
    BY DEF WatcherInit, DeletedIsGone
  <2>2. LastHashIsCurrent
    BY DEF WatcherInit, LastHashIsCurrent
  <2> QED BY <2>1, <2>2, WatcherTypesInit DEF HashInv
<1>2. HashInv /\ [WatcherNext]_watcherVars => HashInv'
  BY HashStep
<1>3. HashInv => LastHashIsCurrent
  BY DEF HashInv
<1> QED BY <1>1, <1>2, <1>3, PTL DEF WatcherSpec

-----------------------------------------------------------------------------
(* Sequences, for the form of a tree.                                      *)

(* A set of positions with all that come before is an initial segment:     *)
(* what a binary search may rely on, and how far a path is in the tree.    *)
LEMMA InitialSegment ==
  ASSUME NEW n \in Nat, NEW D \in SUBSET (1..n), \A i \in D : \A j \in 1..i : j \in D
  PROVE  Cardinality(D) \in 0..n /\ D = 1..Cardinality(D)
<1>1. IsFiniteSet(1..n) /\ Cardinality(1..n) = n
  BY FS_Interval
<1>2. IsFiniteSet(D) /\ Cardinality(D) <= n /\ Cardinality(D) \in Nat
  BY <1>1, FS_Subset, FS_CardinalityType
<1>3. ASSUME NEW i \in D PROVE i <= Cardinality(D)
  <2>1. Cardinality(1..i) = i
    BY FS_Interval
  <2>2. 1..i \in SUBSET D
    BY <1>3
  <2> QED BY <1>2, <2>1, <2>2, FS_Subset
<1>4. D \in SUBSET (1..Cardinality(D))
  BY <1>2, <1>3
<1>5. IsFiniteSet(1..Cardinality(D)) /\ Cardinality(1..Cardinality(D)) = Cardinality(D)
  BY <1>2, FS_Interval
<1>6. 1..Cardinality(D) = D
  BY <1>4, <1>5, FS_Subset
<1> QED BY <1>2, <1>6

(* What lies behind the first k elements. *)
LEMMA Behind ==
  ASSUME NEW S, NEW s \in Seq(S), NEW k \in 0..Len(s)
  PROVE  /\ SubSeq(s, k + 1, Len(s)) \in Seq(S)
         /\ Len(SubSeq(s, k + 1, Len(s))) = Len(s) - k
         /\ \A i \in 1..(Len(s) - k) : SubSeq(s, k + 1, Len(s))[i] = s[k + i]
<1> DEFINE v == SubSeq(s, k + 1, Len(s))
<1>0. Len(s) \in Nat /\ \A i \in 1..Len(s) : s[i] \in S
  BY LenProperties, ElementOfSeq
<1>1. /\ v \in Seq(S) /\ Len(v) = IF k + 1 <= Len(s) THEN Len(s) - (k + 1) + 1 ELSE 0
      /\ \A i \in 1 .. Len(s) - (k + 1) + 1 : v[i] = s[(k + 1) + i - 1]
  BY <1>0, SubSeqProperties
<1> HIDE DEF v
<1>2. Len(v) = Len(s) - k
  BY <1>0, <1>1
<1>3. ASSUME NEW i \in 1..(Len(s) - k) PROVE v[i] = s[k + i]
  <2>1. (k + 1) + i - 1 = k + i /\ i \in 1 .. Len(s) - (k + 1) + 1
    BY <1>0
  <2> QED BY <1>1, <2>1
<1>4. v = SubSeq(s, k + 1, Len(s))
  BY DEF v
<1> QED BY <1>1, <1>2, <1>3, <1>4

(* Vec::insert. *)
LEMMA Inserted ==
  ASSUME NEW S, NEW s \in Seq(S), NEW k \in 0..Len(s), NEW e \in S,
         NEW r, r = InsertAt(s, k + 1, e)
  PROVE  /\ r \in Seq(S) /\ Len(r) = Len(s) + 1
         /\ \A i \in 1..k : r[i] = s[i]
         /\ r[k + 1] = e
         /\ \A i \in k + 2 .. Len(s) + 1 : r[i] = s[i - 1]
<1> DEFINE u == SubSeq(s, 1, k)
           v == SubSeq(s, k + 1, Len(s))
<1>0. Len(s) \in Nat /\ \A i \in 1..Len(s) : s[i] \in S
  BY LenProperties, ElementOfSeq
<1>1. u \in Seq(S) /\ Len(u) = k /\ \A i \in 1..k : u[i] = s[i]
  BY <1>0, SubSeqProperties
<1>2. v \in Seq(S) /\ Len(v) = Len(s) - k /\ \A i \in 1..(Len(s) - k) : v[i] = s[k + i]
  BY Behind
<1>r. r = (u \o <<e>>) \o v
  <2>1. (k + 1) - 1 = k
    OBVIOUS
  <2> QED BY <2>1 DEF InsertAt
<1> HIDE DEF u, v
<1>3. /\ u \o <<e>> \in Seq(S) /\ Len(u \o <<e>>) = k + 1
      /\ \A i \in 1..k : (u \o <<e>>)[i] = s[i]
      /\ (u \o <<e>>)[k + 1] = e
  <2>1. u \o <<e>> = Append(u, e)
    BY <1>1, AppendIsConcat
  <2> QED BY <1>1, <2>1, AppendProperties
<1>4. /\ r \in Seq(S) /\ Len(r) = Len(s) + 1
      /\ \A i \in 1 .. Len(s) + 1 :
           r[i] = IF i <= k + 1 THEN (u \o <<e>>)[i] ELSE v[i - (k + 1)]
  <2>1. (k + 1) + (Len(s) - k) = Len(s) + 1
    BY <1>0
  <2>2. PICK w \in Seq(S) : w = u \o <<e>>
    BY <1>3
  <2>3. /\ w \o v \in Seq(S) /\ Len(w \o v) = Len(w) + Len(v)
        /\ \A i \in 1 .. Len(w) + Len(v) :
             (w \o v)[i] = IF i <= Len(w) THEN w[i] ELSE v[i - Len(w)]
    BY <1>2, ConcatProperties
  <2>4. Len(w) = k + 1 /\ Len(w) + Len(v) = Len(s) + 1
    BY <1>2, <1>3, <2>1, <2>2
  <2> QED BY <1>r, <2>2, <2>3, <2>4
<1>5. \A i \in 1..k : r[i] = s[i]
  BY <1>0, <1>3, <1>4
<1>6. r[k + 1] = e
  BY <1>0, <1>3, <1>4
<1>7. ASSUME NEW i \in k + 2 .. Len(s) + 1 PROVE r[i] = s[i - 1]
  <2>1. i \in 1 .. Len(s) + 1 /\ ~(i <= k + 1) /\ i - (k + 1) \in 1..(Len(s) - k)
    BY <1>0
  <2>2. k + (i - (k + 1)) = i - 1
    BY <1>0
  <2> QED BY <1>2, <1>4, <2>1, <2>2
<1> QED BY <1>4, <1>5, <1>6, <1>7

(* Vec::retain of all but one element that occurs once: what is left, in   *)
(* the order it had.                                                       *)
LEMMA Removed ==
  ASSUME NEW S, NEW s \in Seq(S), NEW e,
         \A i, j \in 1..Len(s) : i < j => s[i] # s[j]
  PROVE  LET r == RemoveFirst(s, e)
         IN  /\ r \in Seq(S)
             /\ \A x : x \in Range(r) <=> x \in Range(s) /\ x # e
             /\ \A i, j \in DOMAIN r : i < j =>
                  \E k, l \in DOMAIN s : k < l /\ r[i] = s[k] /\ r[j] = s[l]
<1>0. /\ Len(s) \in Nat /\ DOMAIN s = 1..Len(s) /\ \A i \in 1..Len(s) : s[i] \in S
      /\ Range(s) = {s[i] : i \in 1..Len(s)}
  BY LenProperties, ElementOfSeq, RangeEquality
<1>1. CASE ~\E i \in 1..Len(s) : s[i] = e
  <2>1. RemoveFirst(s, e) = s
    BY <1>1 DEF RemoveFirst
  <2> QED BY <1>0, <1>1, <2>1
<1>2. CASE \E i \in 1..Len(s) : s[i] = e
  <2>1. PICK k \in 1..Len(s) : s[k] = e
    BY <1>2
  <2>2. {i \in 1..Len(s) : s[i] = e} = {k}
    <3>1. \A i \in 1..Len(s) : s[i] = e => ~(i < k) /\ ~(k < i)
      BY <2>1
    <3> QED BY <1>0, <2>1, <3>1
  <2>3. RemoveFirst(s, e) = RemoveAt(s, k)
    <3>1. SelectInSeq(s, LAMBDA v : v = e) = k
      BY <2>2 DEF SelectInSeq, Min
    <3> QED BY <1>2, <3>1 DEF RemoveFirst
  <2> DEFINE u == SubSeq(s, 1, k - 1)
             v == SubSeq(s, k + 1, Len(s))
             r == u \o v
  <2>4. u \in Seq(S) /\ Len(u) = k - 1 /\ \A i \in 1..(k - 1) : u[i] = s[i]
    BY <1>0, SubSeqProperties
  <2>5. v \in Seq(S) /\ Len(v) = Len(s) - k /\ \A i \in 1..(Len(s) - k) : v[i] = s[k + i]
    <3>1. k \in 0..Len(s)
      BY <1>0
    <3> QED BY <3>1, Behind
  <2> HIDE DEF u, v
  <2>6. /\ r \in Seq(S) /\ DOMAIN r = 1 .. Len(s) - 1
        /\ \A i \in 1 .. Len(s) - 1 : r[i] = IF i <= k - 1 THEN u[i] ELSE v[i - (k - 1)]
    <3>1. Len(u) + Len(v) = Len(s) - 1
      BY <1>0, <2>4, <2>5
    <3> QED BY <2>4, <2>5, <3>1, ConcatProperties, LenProperties
  <2>7. \A i \in 1 .. Len(s) - 1 : r[i] = IF i < k THEN s[i] ELSE s[i + 1]
    <3> TAKE i \in 1 .. Len(s) - 1
    <3> HIDE DEF r
    <3>1. CASE i < k
      BY <1>0, <2>4, <2>6, <3>1
    <3>2. CASE ~(i < k)
      <4>1. i - (k - 1) \in 1..(Len(s) - k) /\ k + (i - (k - 1)) = i + 1 /\ ~(i <= k - 1)
        BY <1>0, <3>2
      <4> QED BY <2>5, <2>6, <3>2, <4>1
    <3> QED BY <3>1, <3>2
  <2>8. RemoveFirst(s, e) = r
    BY <2>3 DEF RemoveAt, u, v
  <2> HIDE DEF r
  <2>9. \A x : x \in Range(r) <=> x \in Range(s) /\ x # e
    <3>1. ASSUME NEW i \in 1 .. Len(s) - 1 PROVE r[i] \in Range(s) /\ r[i] # e
      <4>1. CASE i < k
        BY <1>0, <2>1, <2>7, <3>1, <4>1
      <4>2. CASE ~(i < k)
        <5>1. i + 1 \in 1..Len(s) /\ k < i + 1 /\ r[i] = s[i + 1]
          BY <1>0, <2>7, <4>2
        <5> QED BY <1>0, <2>1, <5>1
      <4> QED BY <4>1, <4>2
    <3>2. ASSUME NEW i \in 1..Len(s), s[i] # e PROVE \E j \in 1 .. Len(s) - 1 : r[j] = s[i]
      <4>1. CASE i < k
        BY <1>0, <2>7, <4>1
      <4>2. CASE k < i
        <5>1. i - 1 \in 1 .. Len(s) - 1 /\ ~(i - 1 < k) /\ (i - 1) + 1 = i
          BY <1>0, <4>2
        <5> QED BY <2>7, <5>1
      <4> QED BY <1>0, <2>1, <3>2, <4>1, <4>2
    <3>3. Range(r) = {r[i] : i \in 1 .. Len(s) - 1}
      BY <2>6 DEF Range
    <3> QED BY <1>0, <3>1, <3>2, <3>3
  <2>10. ASSUME NEW i \in DOMAIN r, NEW j \in DOMAIN r, i < j
         PROVE  \E m, l \in DOMAIN s : m < l /\ r[i] = s[m] /\ r[j] = s[l]
    <3> DEFINE at(n) == IF n < k THEN n ELSE n + 1
    <3>1. at(i) \in DOMAIN s /\ at(j) \in DOMAIN s /\ at(i) < at(j)
      BY <1>0, <2>6, <2>10
    <3>2. r[i] = s[at(i)] /\ r[j] = s[at(j)]
      BY <2>6, <2>7
    <3> QED BY <3>1, <3>2
  <2> QED BY <2>6, <2>8, <2>9, <2>10
<1> QED BY <1>1, <1>2

-----------------------------------------------------------------------------
(* Paths.                                                                  *)

(* The first l names of a path. *)
Cut(p, l) == SubSeq(p, 1, l)

(* A path's ancestors are what it is cut to. *)
LEMMA Cuts ==
  ASSUME NEW S, NEW p \in Seq(S)
  PROVE  /\ Len(p) \in Nat /\ Cut(p, 0) = <<>> /\ Cut(p, Len(p)) = p
         /\ \A l \in 0..Len(p) : /\ Cut(p, l) \in Seq(S) /\ Len(Cut(p, l)) = l
                                 /\ \A i \in 1..l : Cut(p, l)[i] = p[i] /\ p[i] \in S
         /\ Prefixes(p) = {Cut(p, l) : l \in 0..Len(p)}
         /\ Prefixes(p) \ {<<>>} = {Cut(p, l) : l \in 1..Len(p)}
<1>0. Len(p) \in Nat /\ \A i \in 1..Len(p) : p[i] \in S
  BY LenProperties, ElementOfSeq
<1>1. Cut(p, 0) = <<>>
  BY SubSeqEmpty DEF Cut
<1>2. Cut(p, Len(p)) = p
  BY SubSeqFull DEF Cut
<1>3. ASSUME NEW l \in 0..Len(p)
      PROVE  /\ Cut(p, l) \in Seq(S) /\ Len(Cut(p, l)) = l
             /\ \A i \in 1..l : Cut(p, l)[i] = p[i] /\ p[i] \in S
  BY <1>0, SubSeqProperties DEF Cut
<1>4. Prefixes(p) = {Cut(p, l) : l \in 0..Len(p)}
  BY DEF Prefixes, Cut
<1>5. Prefixes(p) \ {<<>>} = {Cut(p, l) : l \in 1..Len(p)}
  <2>1. \A l \in 1..Len(p) : Cut(p, l) # <<>>
    <3> TAKE l \in 1..Len(p)
    <3>1. Len(Cut(p, l)) = l /\ l # 0 /\ Len(<<>>) = 0
      BY <1>0, <1>3, EmptySeq
    <3> QED BY <3>1
  <2>2. \A l \in 0..Len(p) : l = 0 \/ l \in 1..Len(p)
    BY <1>0
  <2>3. \A l \in 1..Len(p) : l \in 0..Len(p)
    BY <1>0
  <2> QED BY <1>1, <1>4, <2>1, <2>2, <2>3
<1> QED BY <1>0, <1>1, <1>2, <1>3, <1>4, <1>5

(* Cutting twice, and putting the next name back. *)
LEMMA CutAgain ==
  ASSUME NEW S, NEW p \in Seq(S), NEW l \in 0..Len(p)
  PROVE  /\ \A m \in 0..l : Cut(Cut(p, l), m) = Cut(p, m)
         /\ l < Len(p) => Append(Cut(p, l), p[l + 1]) = Cut(p, l + 1)
<1>0. Len(p) \in Nat
  BY Cuts
<1>1. PICK q \in Seq(S) : q = Cut(p, l)
  BY Cuts
<1>2. Len(q) = l /\ \A i \in 1..l : q[i] = p[i] /\ p[i] \in S
  BY <1>1, Cuts
<1>3. ASSUME NEW m \in 0..l PROVE Cut(q, m) = Cut(p, m)
  <2>1. m \in 0..Len(p) /\ m \in 0..Len(q)
    BY <1>0, <1>2
  <2>2. Cut(q, m) \in Seq(S) /\ Len(Cut(q, m)) = m /\ \A i \in 1..m : Cut(q, m)[i] = q[i]
    BY <2>1, Cuts
  <2>3. Cut(p, m) \in Seq(S) /\ Len(Cut(p, m)) = m /\ \A i \in 1..m : Cut(p, m)[i] = p[i]
    BY <2>1, Cuts
  <2>4. \A i \in 1..m : Cut(q, m)[i] = Cut(p, m)[i]
    BY <1>0, <1>2, <2>2, <2>3
  <2> QED BY <2>2, <2>3, <2>4, SeqEqual
<1>4. ASSUME l < Len(p) PROVE Append(q, p[l + 1]) = Cut(p, l + 1)
  <2>1. l + 1 \in 0..Len(p) /\ l + 1 \in 1..(l + 1)
    BY <1>0, <1>4
  <2>2. /\ Cut(p, l + 1) \in Seq(S) /\ Len(Cut(p, l + 1)) = l + 1
        /\ \A i \in 1..(l + 1) : Cut(p, l + 1)[i] = p[i] /\ p[i] \in S
    BY <2>1, Cuts
  <2>3. /\ Append(q, p[l + 1]) \in Seq(S) /\ Len(Append(q, p[l + 1])) = l + 1
        /\ \A i \in 1..l : Append(q, p[l + 1])[i] = q[i]
        /\ Append(q, p[l + 1])[l + 1] = p[l + 1]
    BY <1>2, <2>1, <2>2, AppendProperties
  <2>4. \A i \in 1..(l + 1) : Append(q, p[l + 1])[i] = Cut(p, l + 1)[i]
    <3> TAKE i \in 1..(l + 1)
    <3>1. i \in 1..l \/ i = l + 1
      OBVIOUS
    <3> QED BY <1>2, <2>2, <2>3, <3>1
  <2> QED BY <2>2, <2>3, <2>4, SeqEqual
<1> QED BY <1>1, <1>3, <1>4

(* A name below a path: its parent is the path. *)
LEMMA ParentOfAppend ==
  ASSUME NEW S, NEW q \in Seq(S), NEW n \in S
  PROVE  /\ Append(q, n) \in Seq(S) /\ Len(Append(q, n)) = Len(q) + 1
         /\ Append(q, n) # <<>> /\ Append(q, n) # q
         /\ \A l \in 0..Len(q) : Cut(Append(q, n), l) = Cut(q, l)
<1>1. PICK r \in Seq(S) : r = Append(q, n)
  BY AppendProperties
<1>2. Len(r) = Len(q) + 1 /\ \A i \in 1..Len(q) : r[i] = q[i]
  BY <1>1, AppendProperties
<1>3. Len(q) \in Nat
  BY Cuts
<1>4. r # <<>> /\ r # q
  BY <1>1, <1>2, <1>3, AppendProperties
<1>5. ASSUME NEW l \in 0..Len(q) PROVE Cut(r, l) = Cut(q, l)
  <2>1. l \in 0..Len(r)
    BY <1>2, <1>3
  <2>2. /\ Cut(r, l) \in Seq(S) /\ Len(Cut(r, l)) = l /\ Cut(q, l) \in Seq(S) /\ Len(Cut(q, l)) = l
        /\ \A i \in 1..l : Cut(r, l)[i] = r[i] /\ Cut(q, l)[i] = q[i]
    BY <2>1, Cuts
  <2>3. \A i \in 1..l : Cut(r, l)[i] = Cut(q, l)[i]
    BY <1>2, <1>3, <2>2
  <2> QED BY <2>2, <2>3, SeqEqual
<1> QED BY <1>1, <1>2, <1>4, <1>5

-----------------------------------------------------------------------------
(* The order of the children.                                              *)

(* sort_key compares: a strict order, of which two keys are equal when     *)
(* neither comes first.                                                    *)
LEMMA SortOrder ==
  ASSUME NEW d1 \in BOOLEAN, NEW d2 \in BOOLEAN, NEW d3 \in BOOLEAN,
         NEW n1 \in Names, NEW n2 \in Names, NEW n3 \in Names
  PROVE  /\ SortsBefore(d1, n1, d2, n2) => ~SortsBefore(d2, n2, d1, n1)
         /\ ~SortsBefore(d2, n2, d1, n1) /\ SortsBefore(d2, n2, d3, n3) => SortsBefore(d1, n1, d3, n3)
<1>1. Rank[n1] \in Nat /\ Rank[n2] \in Nat /\ Rank[n3] \in Nat
  BY RankAssumption
<1> QED BY <1>1 DEF SortsBefore

(* The sort key's first half, of the children listed and of a new one. *)
DirOf(t, p, new, isDir, n) == IF n = new THEN isDir ELSE t[Append(p, n)].dir

(* insert_sorted puts a new child where the binary search finds its place, *)
(* and the children stay in order.                                         *)
LEMMA InsertKeepsOrder ==
  ASSUME NEW t, WellFormed(t), NEW q \in DOMAIN t, NEW name \in Names, NEW isDir \in BOOLEAN,
         Append(q, name) \notin DOMAIN t
  PROVE  LET r == InsertSorted(t, q, isDir, name)
             dir(n) == DirOf(t, q, name, isDir, n)
         IN  /\ r \in Seq(Names)
             /\ \A n \in Names : n \in Range(r) <=> n \in Range(t[q].kids) \/ n = name
             /\ \A i, j \in DOMAIN r : i < j =>
                  r[i] # r[j] /\ ~SortsBefore(dir(r[j]), r[j], dir(r[i]), r[i])
<1> DEFINE kids == t[q].kids
           dir(n) == DirOf(t, q, name, isDir, n)
           Before(n) == SortsBefore(dir(n), n, isDir, name)
           D == {i \in DOMAIN kids : Before(kids[i])}
           r == InsertSorted(t, q, isDir, name)
<1>1. /\ kids \in Seq(Names) /\ Len(kids) \in Nat /\ DOMAIN kids = 1..Len(kids)
      /\ \A i \in 1..Len(kids) : kids[i] \in Names
      /\ Range(kids) = {kids[i] : i \in 1..Len(kids)}
  <2>1. kids \in Seq(Names)
    BY DEF WellFormed, Node
  <2> QED BY <2>1, LenProperties, ElementOfSeq, RangeEquality
<1>2. \A i \in 1..Len(kids) : kids[i] # name /\ Append(q, kids[i]) \in DOMAIN t
  BY <1>1 DEF WellFormed
<1>3. \A i \in 1..Len(kids) : dir(kids[i]) = t[Append(q, kids[i])].dir /\ dir(kids[i]) \in BOOLEAN
  BY <1>2 DEF DirOf, WellFormed, Node
<1>4. dir(name) = isDir
  BY DEF DirOf
<1>5. \A i, j \in 1..Len(kids) : i < j =>
        kids[i] # kids[j] /\ ~SortsBefore(dir(kids[j]), kids[j], dir(kids[i]), kids[i])
  <2>1. \A i, j \in DOMAIN kids : i < j =>
          /\ kids[i] # kids[j]
          /\ ~SortsBefore(t[Append(q, kids[j])].dir, kids[j], t[Append(q, kids[i])].dir, kids[i])
    BY DEF WellFormed, KidsInOrder, KidSortsBefore
  <2> HIDE DEF kids, dir
  <2> QED BY <1>1, <1>3, <2>1
<1>6. r = InsertAt(kids, 1 + Cardinality(D), name)
  <2>1. D = {i \in DOMAIN kids : KidSortsBefore(t, q, kids[i], isDir, name)}
    BY <1>1, <1>3 DEF KidSortsBefore
  <2> HIDE DEF D
  <2> QED BY <2>1 DEF InsertSorted
<1> HIDE DEF dir, r, kids
<1>7. PICK k \in 0..Len(kids) : k = Cardinality(D) /\ D = 1..k
  <2>1. \A i \in D : \A j \in 1..i : j \in D
    <3> SUFFICES ASSUME NEW i \in 1..Len(kids), Before(kids[i]), NEW j \in 1..i
                 PROVE  j \in 1..Len(kids) /\ Before(kids[j])
      BY <1>1
    <3>1. j \in 1..Len(kids)
      BY <1>1
    <3>2. CASE j = i
      BY <3>1, <3>2
    <3>3. CASE j < i
      <4>1. ~SortsBefore(dir(kids[i]), kids[i], dir(kids[j]), kids[j])
        BY <1>5, <3>1, <3>3
      <4>2. dir(kids[i]) \in BOOLEAN /\ dir(kids[j]) \in BOOLEAN /\ kids[i] \in Names /\ kids[j] \in Names
        BY <1>1, <1>3, <3>1
      <4> QED BY <3>1, <4>1, <4>2, SortOrder
    <3> QED BY <1>1, <3>2, <3>3
  <2>2. D \in SUBSET (1..Len(kids))
    BY <1>1
  <2>3. Cardinality(D) \in 0..Len(kids) /\ D = 1..Cardinality(D)
    BY <1>1, <2>1, <2>2, InitialSegment
  <2> QED BY <2>3
<1>8. /\ r \in Seq(Names) /\ Len(r) = Len(kids) + 1 /\ DOMAIN r = 1 .. Len(kids) + 1
      /\ \A i \in 1..k : r[i] = kids[i]
      /\ r[k + 1] = name
      /\ \A i \in k + 2 .. Len(kids) + 1 : r[i] = kids[i - 1]
  <2>1. r = InsertAt(kids, k + 1, name)
    <3>1. 1 + k = k + 1
      BY <1>1
    <3> QED BY <1>6, <1>7, <3>1
  <2>2. /\ r \in Seq(Names) /\ Len(r) = Len(kids) + 1
        /\ \A i \in 1..k : r[i] = kids[i]
        /\ r[k + 1] = name
        /\ \A i \in k + 2 .. Len(kids) + 1 : r[i] = kids[i - 1]
    <3>1. kids \in Seq(Names) /\ k \in 0..Len(kids) /\ name \in Names
      BY <1>1, <1>7
    <3>2. r \in Seq(Names) /\ Len(r) = Len(kids) + 1
      BY <2>1, <3>1, Inserted
    <3>3. \A i \in 1..k : r[i] = kids[i]
      BY <2>1, <3>1, Inserted
    <3>4. r[k + 1] = name
      BY <2>1, <3>1, Inserted
    <3>5. \A i \in k + 2 .. Len(kids) + 1 : r[i] = kids[i - 1]
      BY <2>1, <3>1, Inserted
    <3> QED BY <3>2, <3>3, <3>4, <3>5
  <2> QED BY <2>2, LenProperties
<1>9. \A i \in 1..k : SortsBefore(dir(kids[i]), kids[i], isDir, name)
  BY <1>1, <1>7
<1>10. \A i \in k + 1 .. Len(kids) : ~SortsBefore(dir(kids[i]), kids[i], isDir, name)
  <2> TAKE i \in k + 1 .. Len(kids)
  <2>1. i \in 1..Len(kids) /\ i \notin 1..k
    BY <1>1
  <2> QED BY <1>1, <1>7, <2>1
<1> HIDE DEF D, Before
<1>11. \A n \in Names : n \in Range(r) <=> n \in Range(kids) \/ n = name
  <2>1. Range(r) = {r[i] : i \in 1 .. Len(kids) + 1}
    BY <1>8 DEF Range
  <2>2. ASSUME NEW i \in 1 .. Len(kids) + 1 PROVE r[i] = name \/ r[i] \in Range(kids)
    <3>1. CASE i \in 1..k
      BY <1>1, <1>8, <3>1
    <3>2. CASE i \in k + 2 .. Len(kids) + 1
      <4>1. i - 1 \in 1..Len(kids)
        BY <1>1, <3>2
      <4> QED BY <1>1, <1>8, <3>2, <4>1
    <3>3. i \in 1..k \/ i = k + 1 \/ i \in k + 2 .. Len(kids) + 1
      BY <1>1
    <3> QED BY <1>8, <3>1, <3>2, <3>3
  <2>3. ASSUME NEW i \in 1..Len(kids) PROVE kids[i] \in Range(r)
    <3>1. CASE i <= k
      BY <1>1, <1>8, <2>1, <3>1
    <3>2. CASE ~(i <= k)
      <4>1. i + 1 \in k + 2 .. Len(kids) + 1 /\ (i + 1) - 1 = i /\ i + 1 \in 1 .. Len(kids) + 1
        BY <1>1, <3>2
      <4> QED BY <1>8, <2>1, <4>1
    <3> QED BY <3>1, <3>2
  <2>4. name \in Range(r)
    <3>1. k + 1 \in 1 .. Len(kids) + 1
      BY <1>1
    <3> QED BY <1>8, <2>1, <3>1
  <2> QED BY <1>1, <2>1, <2>2, <2>3, <2>4
<1>12. ASSUME NEW i \in DOMAIN r, NEW j \in DOMAIN r, i < j
       PROVE  r[i] # r[j] /\ ~SortsBefore(dir(r[j]), r[j], dir(r[i]), r[i])
  <2> DEFINE Apart(x, y) == x # y /\ ~SortsBefore(dir(y), y, dir(x), x)
  <2>0. \A x \in 1..Len(kids), y \in 1..Len(kids) : x < y => Apart(kids[x], kids[y])
    BY <1>5
  <2>1. \A x \in 1..k : Apart(kids[x], name)
    <3> TAKE x \in 1..k
    <3>1. x \in 1..Len(kids)
      BY <1>1
    <3>2. dir(kids[x]) \in BOOLEAN /\ kids[x] \in Names /\ kids[x] # name
      BY <1>1, <1>2, <1>3, <3>1
    <3> QED BY <1>4, <1>9, <3>2, SortOrder
  <2>2. \A x \in k + 1 .. Len(kids) : Apart(name, kids[x])
    <3> TAKE x \in k + 1 .. Len(kids)
    <3>1. x \in 1..Len(kids)
      BY <1>1
    <3> QED BY <1>2, <1>4, <1>10, <3>1
  <2> HIDE DEF Apart
  <2>3. Apart(r[i], r[j])
    <3>1. CASE j \in 1..k
      <4>1. i \in 1..k /\ i \in 1..Len(kids) /\ j \in 1..Len(kids)
        BY <1>1, <1>8, <1>12, <3>1
      <4> QED BY <1>8, <1>12, <2>0, <3>1, <4>1
    <3>2. CASE j = k + 1
      <4>1. i \in 1..k
        BY <1>1, <1>8, <1>12, <3>2
      <4> QED BY <1>8, <2>1, <3>2, <4>1
    <3>3. CASE j \in k + 2 .. Len(kids) + 1 /\ i \in 1..k
      <4>1. i \in 1..Len(kids) /\ j - 1 \in 1..Len(kids) /\ i < j - 1
        BY <1>1, <3>3
      <4> QED BY <1>8, <2>0, <3>3, <4>1
    <3>4. CASE j \in k + 2 .. Len(kids) + 1 /\ i = k + 1
      <4>1. j - 1 \in k + 1 .. Len(kids)
        BY <1>1, <3>4
      <4> QED BY <1>8, <2>2, <3>4, <4>1
    <3>5. CASE j \in k + 2 .. Len(kids) + 1 /\ i \in k + 2 .. Len(kids) + 1
      <4>1. i - 1 \in 1..Len(kids) /\ j - 1 \in 1..Len(kids) /\ i - 1 < j - 1
        BY <1>1, <1>12, <3>5
      <4> QED BY <1>8, <2>0, <3>5, <4>1
    <3>6. \A x \in DOMAIN r : x \in 1..k \/ x = k + 1 \/ x \in k + 2 .. Len(kids) + 1
      BY <1>1, <1>8
    <3>7. ~(j \in k + 2 .. Len(kids) + 1) => j \in 1..k \/ j = k + 1
      BY <3>6
    <3> QED BY <3>1, <3>2, <3>3, <3>4, <3>5, <3>6, <3>7
  <2> QED BY <2>3 DEF Apart
<1> QED BY <1>8, <1>11, <1>12 DEF dir, r, kids

-----------------------------------------------------------------------------
(* add_node.                                                               *)

(* A path that is another one cut short and one name more.                 *)
LEMMA CutParent ==
  ASSUME NEW p \in Seq(Names), NEW m \in 1..Len(p), NEW q \in Seq(Names), NEW n \in Names,
         Append(q, n) = Cut(p, m)
  PROVE  q = Cut(p, m - 1) /\ n = p[m] /\ Len(q) = m - 1
<1>1. Len(p) \in Nat /\ Len(q) \in Nat
  BY Cuts
<1>2. m \in 0..Len(p) /\ m - 1 \in 0..Len(p) /\ m - 1 < Len(p) /\ (m - 1) + 1 = m
  BY <1>1
<1>3. Len(Cut(p, m)) = m
  BY <1>2, Cuts
<1>4. Len(Append(q, n)) = Len(q) + 1 /\ Append(q, n)[Len(q) + 1] = n
  BY AppendProperties
<1>5. Len(q) = m - 1
  BY <1>1, <1>2, <1>3, <1>4
<1>6. n = p[m]
  <2>1. Cut(p, m)[m] = p[m]
    <3>1. m \in 1..m
      BY <1>2
    <3> QED BY <1>2, <3>1, Cuts
  <2> QED BY <1>2, <1>4, <1>5, <2>1
<1>7. q = Cut(p, m - 1)
  <2>1. Cut(Append(q, n), Len(q)) = Cut(q, Len(q)) /\ Cut(q, Len(q)) = q
    <3>1. Len(q) \in 0..Len(q)
      BY <1>1
    <3>2. Cut(Append(q, n), Len(q)) = Cut(q, Len(q))
      BY <3>1, ParentOfAppend
    <3>3. Cut(q, Len(q)) = q
      BY Cuts
    <3> QED BY <3>2, <3>3
  <2>2. Cut(Cut(p, m), m - 1) = Cut(p, m - 1)
    <3>1. m - 1 \in 0..m
      BY <1>2
    <3> QED BY <1>2, <3>1, CutAgain
  <2> QED BY <1>5, <2>1, <2>2
<1> QED BY <1>5, <1>6, <1>7

(* What add_node makes of t when the path's first k names are there: it    *)
(* lists the next one in the last of these and makes it and all below it.  *)
AddedBelow(t, u, p, isDir, k) ==
  /\ \A l \in 0..Len(p) : Cut(p, l) \in DOMAIN t <=> l <= k
  /\ DOMAIN u = DOMAIN t \cup {Cut(p, l) : l \in k + 1 .. Len(p)}
  /\ \A l \in k + 1 .. Len(p) :
       u[Cut(p, l)] = [dir |-> l # Len(p) \/ isDir,
                       kids |-> IF l = Len(p) THEN <<>> ELSE <<p[l + 1]>>]
  /\ u[Cut(p, k)] = [t[Cut(p, k)] EXCEPT !.kids =
                       InsertSorted(t, Cut(p, k), k + 1 # Len(p) \/ isDir, p[k + 1])]
  /\ \A q \in DOMAIN t : q # Cut(p, k) => u[q] = t[q]

(* add_node does just this, for a depth k at which the directories that    *)
(* are there end.                                                          *)
LEMMA AddsBelow ==
  ASSUME NEW t, WellFormed(t), NEW p \in Seq(Names), NEW isDir \in BOOLEAN,
         ~(Down(p) \subseteq DOMAIN t)
  PROVE  \E k \in 0 .. Len(p) - 1 : AddedBelow(t, AddNode(t, p, isDir), p, isDir, k)
<1>1. /\ Len(p) \in Nat /\ Cut(p, 0) = <<>> /\ Cut(p, Len(p)) = p
      /\ \A l \in 0..Len(p) : Cut(p, l) \in Seq(Names) /\ Len(Cut(p, l)) = l
      /\ Down(p) = {Cut(p, l) : l \in 1..Len(p)}
  BY Cuts DEF Down
<1> DEFINE D == {l \in 1..Len(p) : Cut(p, l) \in DOMAIN t}
<1>2. \A l \in D : \A m \in 1..l : m \in D
  <2> SUFFICES ASSUME NEW l \in 1..Len(p), Cut(p, l) \in DOMAIN t, NEW m \in 1..l
               PROVE  m \in 1..Len(p) /\ Cut(p, m) \in DOMAIN t
    OBVIOUS
  <2>1. m \in 1..Len(p) /\ m \in 0..l /\ l \in 0..Len(p)
    BY <1>1
  <2>2. Cut(Cut(p, l), m) = Cut(p, m) /\ Len(Cut(p, l)) = l
    BY <1>1, <2>1, CutAgain
  <2>3. Cut(Cut(p, l), m) \in Prefixes(Cut(p, l))
    <3>1. PICK w \in Seq(Names) : w = Cut(p, l)
      BY <1>1, <2>1
    <3>2. Prefixes(w) = {Cut(w, i) : i \in 0..Len(w)}
      BY Cuts
    <3> QED BY <2>1, <2>2, <3>1, <3>2
  <2>4. Prefixes(Cut(p, l)) \subseteq DOMAIN t
    BY DEF WellFormed
  <2> QED BY <2>1, <2>2, <2>3, <2>4
<1>3. PICK k \in 0..Len(p) : D = 1..k
  <2>1. D \in SUBSET (1..Len(p))
    OBVIOUS
  <2> HIDE DEF D
  <2>2. Cardinality(D) \in 0..Len(p) /\ D = 1..Cardinality(D)
    BY <1>1, <1>2, <2>1, InitialSegment
  <2> QED BY <2>2
<1>4. k \in 0 .. Len(p) - 1
  <2>1. k # Len(p)
    BY <1>1, <1>3
  <2> QED BY <1>1, <1>3, <2>1
<1>5. \A l \in 0..Len(p) : Cut(p, l) \in DOMAIN t <=> l <= k
  <2> TAKE l \in 0..Len(p)
  <2>1. CASE l = 0
    BY <1>1, <1>4, <2>1 DEF WellFormed
  <2>2. CASE l # 0
    <3>1. l \in 1..Len(p)
      BY <1>1, <2>2
    <3>2. l \in D <=> l \in 1..k
      BY <1>3
    <3> QED BY <1>1, <1>4, <3>1, <3>2
  <2> QED BY <2>1, <2>2
<1> HIDE DEF D
<1> DEFINE new == Down(p) \ DOMAIN t
           made == [q \in new |-> [dir |-> q # p \/ isDir,
                                   kids |-> IF q = p THEN <<>> ELSE <<p[Len(q) + 1]>>]]
           top == CHOOSE q \in new : \A r \in new : Len(q) <= Len(r)
           parent == Front(top)
           joined == [t EXCEPT ![parent].kids = InsertSorted(t, parent, made[top].dir, Name(top))]
           u == AddNode(t, p, isDir)
<1>6. new = {Cut(p, l) : l \in k + 1 .. Len(p)}
  <2>1. \A l \in 1..Len(p) : Cut(p, l) \notin DOMAIN t <=> l \in k + 1 .. Len(p)
    BY <1>1, <1>4, <1>5
  <2>2. \A l \in k + 1 .. Len(p) : l \in 1..Len(p)
    BY <1>1, <1>4
  <2> QED BY <1>1, <2>1, <2>2
<1>7. u = [q \in DOMAIN t \cup new |-> IF q \in new THEN made[q] ELSE joined[q]]
  <2>1. new # {}
    OBVIOUS
  <2> QED BY <2>1 DEF AddNode
<1>8. k + 1 \in k + 1 .. Len(p) /\ k + 1 \in 0..Len(p) /\ k \in 0..Len(p)
  BY <1>1, <1>4
<1>9. top = Cut(p, k + 1)
  <2> HIDE DEF new
  <2>1. Cut(p, k + 1) \in new
    BY <1>6, <1>8
  <2>2. \A r \in new : Len(Cut(p, k + 1)) <= Len(r)
    BY <1>1, <1>4, <1>6, <1>8
  <2>3. top \in new /\ \A r \in new : Len(top) <= Len(r)
    BY <2>1, <2>2
  <2>4. PICK l \in k + 1 .. Len(p) : top = Cut(p, l)
    BY <1>6, <2>3
  <2> HIDE DEF top
  <2>5. l \in 0..Len(p) /\ Len(Cut(p, l)) = l /\ Len(Cut(p, k + 1)) = k + 1
    BY <1>1, <1>4, <1>8
  <2>6. l <= k + 1
    BY <2>1, <2>3, <2>4, <2>5
  <2>7. l = k + 1
    BY <1>1, <1>4, <2>6
  <2> QED BY <2>4, <2>7
<1>10. parent = Cut(p, k) /\ Name(top) = p[k + 1]
  <2>1. /\ Len(Cut(p, k + 1)) = k + 1 /\ \A i \in 1 .. k + 1 : Cut(p, k + 1)[i] = p[i]
    BY <1>8, Cuts
  <2>2. Cut(Cut(p, k + 1), k) = Cut(p, k)
    <3>1. k \in 0 .. k + 1
      BY <1>4
    <3> QED BY <1>8, <3>1, CutAgain
  <2>3. (k + 1) - 1 = k /\ k + 1 \in 1 .. k + 1
    BY <1>1, <1>4
  <2> QED BY <1>9, <2>1, <2>2, <2>3 DEF Front, Name, Cut
<1>11. \A l \in k + 1 .. Len(p) :
         /\ Cut(p, l) \in new /\ Len(Cut(p, l)) = l
         /\ Cut(p, l) = p <=> l = Len(p)
  <2> TAKE l \in k + 1 .. Len(p)
  <2>1. l \in 0..Len(p)
    BY <1>1, <1>4
  <2> QED BY <1>1, <1>6, <2>1
<1>12. \A l \in k + 1 .. Len(p) :
         made[Cut(p, l)] = [dir |-> l # Len(p) \/ isDir,
                            kids |-> IF l = Len(p) THEN <<>> ELSE <<p[l + 1]>>]
  <2> HIDE DEF new
  <2> TAKE l \in k + 1 .. Len(p)
  <2>1. Cut(p, l) \in new /\ Len(Cut(p, l)) = l /\ (Cut(p, l) = p <=> l = Len(p))
    BY <1>11
  <2>2. made[Cut(p, l)] = [dir |-> Cut(p, l) # p \/ isDir,
                           kids |-> IF Cut(p, l) = p THEN <<>> ELSE <<p[Len(Cut(p, l)) + 1]>>]
    BY <2>1
  <2> HIDE DEF made
  <2>3. CASE l = Len(p)
    BY <2>1, <2>2, <2>3
  <2>4. CASE l # Len(p)
    BY <2>1, <2>2, <2>4
  <2> QED BY <2>3, <2>4
<1>13. made[top].dir = (k + 1 # Len(p) \/ isDir)
  <2> DEFINE files == IF k + 1 = Len(p) THEN <<>> ELSE <<p[(k + 1) + 1]>>
             dirs == k + 1 # Len(p) \/ isDir
  <2> HIDE DEF made, top
  <2>1. made[top] = [dir |-> dirs, kids |-> files]
    BY <1>8, <1>9, <1>12
  <2> HIDE DEF dirs, files
  <2>2. made[top].dir = dirs
    BY <2>1
  <2> QED BY <2>2 DEF dirs
<1>14. \A q \in DOMAIN t : q \notin new
  OBVIOUS
<1>15. Cut(p, k) \in DOMAIN t
  BY <1>1, <1>4, <1>5, <1>8
<1>16. /\ joined[Cut(p, k)] = [t[Cut(p, k)] EXCEPT !.kids =
              InsertSorted(t, Cut(p, k), k + 1 # Len(p) \/ isDir, p[k + 1])]
       /\ \A q \in DOMAIN t : q # Cut(p, k) => joined[q] = t[q]
  <2> DEFINE list == InsertSorted(t, Cut(p, k), k + 1 # Len(p) \/ isDir, p[k + 1])
  <2>1. InsertSorted(t, parent, made[top].dir, Name(top)) = list
    BY <1>10, <1>13
  <2>2. joined = [t EXCEPT ![Cut(p, k)].kids = list]
    BY <1>10, <2>1
  <2>3. t = [q \in DOMAIN t |-> t[q]]
    BY DEF WellFormed
  <2> HIDE DEF list, joined
  <2>4. joined[Cut(p, k)] = [t[Cut(p, k)] EXCEPT !.kids = list]
    BY <1>15, <2>2
  <2>5. \A q \in DOMAIN t : q # Cut(p, k) => joined[q] = t[q]
    BY <2>2
  <2> QED BY <2>4, <2>5 DEF list
<1> HIDE DEF new, made, top, parent, joined, u
<1>17. DOMAIN u = DOMAIN t \cup {Cut(p, l) : l \in k + 1 .. Len(p)}
  BY <1>6, <1>7
<1>18. \A l \in k + 1 .. Len(p) : u[Cut(p, l)] = made[Cut(p, l)]
  BY <1>7, <1>11
<1>19. \A q \in DOMAIN t : u[q] = joined[q]
  BY <1>7, <1>14
<1>20. \A l \in k + 1 .. Len(p) :
         u[Cut(p, l)] = [dir |-> l # Len(p) \/ isDir,
                         kids |-> IF l = Len(p) THEN <<>> ELSE <<p[l + 1]>>]
  BY <1>12, <1>18
<1>21. u[Cut(p, k)] = [t[Cut(p, k)] EXCEPT !.kids =
                         InsertSorted(t, Cut(p, k), k + 1 # Len(p) \/ isDir, p[k + 1])]
  BY <1>15, <1>16, <1>19
<1>22. \A q \in DOMAIN t : q # Cut(p, k) => u[q] = t[q]
  BY <1>16, <1>19
<1>23. AddedBelow(t, u, p, isDir, k)
  BY <1>5, <1>17, <1>20, <1>21, <1>22 DEF AddedBelow
<1> QED BY <1>4, <1>23 DEF u

(* add_node leaves a tree a tree.                                          *)
LEMMA AddKeepsForm ==
  ASSUME NEW t, WellFormed(t), NEW p \in Seq(Names), NEW isDir \in BOOLEAN
  PROVE  WellFormed(AddNode(t, p, isDir))
<1>1. CASE Down(p) \subseteq DOMAIN t
  <2>1. AddNode(t, p, isDir) = t
    BY <1>1 DEF AddNode
  <2> QED BY <2>1
<1>2. CASE ~(Down(p) \subseteq DOMAIN t)
  <2> DEFINE u == AddNode(t, p, isDir)
  <2>0. PICK k \in 0 .. Len(p) - 1 : AddedBelow(t, u, p, isDir, k)
    BY <1>2, AddsBelow
  <2>1. /\ \A l \in 0..Len(p) : Cut(p, l) \in DOMAIN t <=> l <= k
        /\ DOMAIN u = DOMAIN t \cup {Cut(p, l) : l \in k + 1 .. Len(p)}
        /\ \A l \in k + 1 .. Len(p) :
             u[Cut(p, l)] = [dir |-> l # Len(p) \/ isDir,
                             kids |-> IF l = Len(p) THEN <<>> ELSE <<p[l + 1]>>]
        /\ u[Cut(p, k)] = [t[Cut(p, k)] EXCEPT !.kids =
                          InsertSorted(t, Cut(p, k), k + 1 # Len(p) \/ isDir, p[k + 1])]
        /\ \A q \in DOMAIN t : q # Cut(p, k) => u[q] = t[q]
    BY <2>0 DEF AddedBelow
  <2> DEFINE parent == Cut(p, k)
             name == p[k + 1]
             dirs == k + 1 # Len(p) \/ isDir
             list == InsertSorted(t, parent, dirs, name)
  <2>2. /\ Len(p) \in Nat /\ \A l \in 0..Len(p) : Cut(p, l) \in Seq(Names) /\ Len(Cut(p, l)) = l
        /\ \A l \in 1..Len(p) : p[l] \in Names
    BY Cuts, ElementOfSeq
  <2>3. /\ k \in Nat /\ k \in 0..Len(p) /\ k + 1 \in 1..Len(p) /\ k + 1 \in 0..Len(p)
        /\ \A l \in k + 1 .. Len(p) : l \in 1..Len(p) /\ l \in 0..Len(p) /\ l - 1 \in 0..Len(p) /\ ~(l <= k)
    BY <2>2
  <2>4. parent \in DOMAIN t /\ parent \in Seq(Names) /\ name \in Names /\ dirs \in BOOLEAN
    BY <2>1, <2>2, <2>3
  <2>5. \A l \in k + 1 .. Len(p) : Cut(p, l) \notin DOMAIN t
    BY <2>1, <2>3
  <2>6. Append(parent, name) = Cut(p, k + 1)
    BY <2>2, <2>3, CutAgain
  <2>7. Append(parent, name) \notin DOMAIN t
    BY <2>3, <2>5, <2>6
  <2>8. /\ list \in Seq(Names)
        /\ \A n \in Names : n \in Range(list) <=> n \in Range(t[parent].kids) \/ n = name
        /\ \A i, j \in DOMAIN list : i < j =>
             /\ list[i] # list[j]
             /\ ~SortsBefore(DirOf(t, parent, name, dirs, list[j]), list[j],
                             DirOf(t, parent, name, dirs, list[i]), list[i])
    <3> HIDE DEF parent, name, dirs
    <3> QED BY <2>4, <2>7, InsertKeepsOrder
  <2>9. u[parent].kids = list /\ u[parent].dir = t[parent].dir /\ u[parent] \in Node
    <3>1. t[parent] \in Node
      BY <2>4 DEF WellFormed
    <3> HIDE DEF list
    <3>2. u[parent] = [t[parent] EXCEPT !.kids = list]
      BY <2>1 DEF list
    <3> HIDE DEF parent, u
    <3> QED BY <2>8, <3>1, <3>2 DEF Node
  <2>10. \A l \in k + 1 .. Len(p) :
          /\ u[Cut(p, l)] \in Node
          /\ u[Cut(p, l)].kids = IF l = Len(p) THEN <<>> ELSE <<p[l + 1]>>
          /\ u[Cut(p, l)].dir = (l # Len(p) \/ isDir)
    <3> TAKE l \in k + 1 .. Len(p)
    <3> DEFINE made == l # Len(p) \/ isDir
               files == IF l = Len(p) THEN <<>> ELSE <<p[l + 1]>>
    <3>1. made \in BOOLEAN
      OBVIOUS
    <3>2. files \in Seq(Names)
      <4>1. CASE l = Len(p)
        BY <4>1, EmptySeq
      <4>2. CASE l # Len(p)
        <5>1. l + 1 \in 1..Len(p)
          BY <2>2, <2>3, <4>2
        <5>2. p[l + 1] \in Names
          BY <2>2, <5>1
        <5> QED BY <4>2, <5>2
      <4> QED BY <4>1, <4>2
    <3> HIDE DEF made, files
    <3>3. u[Cut(p, l)] = [dir |-> made, kids |-> files]
      BY <2>1 DEF made, files
    <3>4. u[Cut(p, l)] \in Node /\ u[Cut(p, l)].kids = files /\ u[Cut(p, l)].dir = made
      BY <3>1, <3>2, <3>3 DEF Node
    <3>5. u[Cut(p, l)].kids = IF l = Len(p) THEN <<>> ELSE <<p[l + 1]>>
      BY <3>4 DEF files
    <3>6. u[Cut(p, l)].dir = (l # Len(p) \/ isDir)
      BY <3>4 DEF made
    <3> QED BY <3>4, <3>5, <3>6
  <2>11. \A q \in DOMAIN t : u[q].dir = t[q].dir /\ u[q] \in Node
    BY <2>1, <2>9 DEF WellFormed
  <2>12. DOMAIN u = DOMAIN t \cup {Cut(p, l) : l \in k + 1 .. Len(p)}
    BY <2>1
  <2>13. \A q \in DOMAIN t : q # parent => u[q] = t[q]
    BY <2>1
  <2>14. u = [q \in DOMAIN u |-> u[q]]
    <3>1. ~(Down(p) \ DOMAIN t = {})
      BY <1>2
    <3> QED BY <3>1 DEF AddNode
  <2> HIDE DEF u, list, name, dirs, parent
  <2>15. DOMAIN u \subseteq Seq(Names) /\ u \in [DOMAIN u -> Node]
    <3>1. \A q \in DOMAIN u : q \in Seq(Names) /\ u[q] \in Node
      BY <2>2, <2>3, <2>10, <2>11, <2>12 DEF WellFormed
    <3> QED BY <2>14, <3>1
  <2>16. <<>> \in DOMAIN u /\ u[<<>>].dir
    BY <2>11, <2>12 DEF WellFormed
  <2>17. ASSUME NEW q \in DOMAIN u PROVE Prefixes(q) \subseteq DOMAIN u
    <3>1. CASE q \in DOMAIN t
      BY <2>12, <3>1 DEF WellFormed
    <3>2. ASSUME NEW l \in k + 1 .. Len(p), q = Cut(p, l) PROVE Prefixes(q) \subseteq DOMAIN u
      <4>1. q \in Seq(Names) /\ Len(q) = l
        BY <2>2, <2>3, <3>2
      <4>2. Prefixes(q) = {Cut(q, m) : m \in 0..l}
        BY <4>1, Cuts
      <4>3. ASSUME NEW m \in 0..l PROVE Cut(q, m) \in DOMAIN u
        <5>1. Cut(q, m) = Cut(p, m) /\ m \in 0..Len(p)
          BY <2>2, <2>3, <3>2, CutAgain
        <5>2. m <= k \/ m \in k + 1 .. Len(p)
          BY <2>3, <5>1
        <5> QED BY <2>1, <2>12, <5>1, <5>2
      <4> QED BY <4>2, <4>3
    <3> QED BY <2>12, <3>1, <3>2
  (* What the new nodes are children of.                                   *)
  <2>18. ASSUME NEW q \in DOMAIN u, NEW n \in Names, NEW m \in k + 1 .. Len(p), Append(q, n) = Cut(p, m)
         PROVE  q = Cut(p, m - 1) /\ n = p[m] /\ Len(q) = m - 1
    BY <2>3, <2>15, <2>18, CutParent
  <2>19. ASSUME NEW q \in DOMAIN u, NEW n \in Names
         PROVE  n \in Range(u[q].kids) <=> Append(q, n) \in DOMAIN u
    <3>1. CASE q = parent
      <4>1. n \in Range(u[q].kids) <=> n \in Range(t[q].kids) \/ n = name
        BY <2>8, <2>9, <3>1
      <4>2. n \in Range(t[q].kids) <=> Append(q, n) \in DOMAIN t
        BY <2>4, <3>1 DEF WellFormed
      <4>3. ASSUME NEW m \in k + 1 .. Len(p), Append(q, n) = Cut(p, m) PROVE n = name
        <5>1. n = p[m] /\ Len(q) = m - 1
          BY <2>18, <4>3
        <5>2. Len(q) = k
          BY <2>2, <2>3, <3>1 DEF parent
        <5>3. m = k + 1
          BY <2>3, <5>1, <5>2
        <5> QED BY <5>1, <5>3 DEF name
      <4>4. n = name => Append(q, n) \in DOMAIN u
        <5>1. k + 1 \in k + 1 .. Len(p)
          BY <2>2, <2>3
        <5> QED BY <2>6, <2>12, <3>1, <5>1
      <4> QED BY <2>12, <4>1, <4>2, <4>3, <4>4
    <3>2. CASE q \in DOMAIN t /\ q # parent
      <4>1. u[q] = t[q]
        BY <2>13, <3>2
      <4>2. n \in Range(t[q].kids) <=> Append(q, n) \in DOMAIN t
        BY <3>2 DEF WellFormed
      <4>3. \A m \in k + 1 .. Len(p) : Append(q, n) # Cut(p, m)
        <5> SUFFICES ASSUME NEW m \in k + 1 .. Len(p), Append(q, n) = Cut(p, m) PROVE FALSE
          OBVIOUS
        <5>1. q = Cut(p, m - 1)
          BY <2>18
        <5>2. m - 1 \in 0..Len(p)
          BY <2>3
        <5>3. m - 1 <= k
          BY <2>1, <3>2, <5>1, <5>2
        <5>4. m - 1 = k
          BY <2>3, <5>3
        <5> QED BY <3>2, <5>1, <5>4 DEF parent
      <4> QED BY <2>12, <4>1, <4>2, <4>3
    <3>3. ASSUME NEW l \in k + 1 .. Len(p), q = Cut(p, l)
          PROVE  n \in Range(u[q].kids) <=> Append(q, n) \in DOMAIN u
      <4>1. q \in Seq(Names) /\ Len(q) = l /\ q \notin DOMAIN t
        BY <2>2, <2>3, <2>5, <3>3
      <4>2. Append(q, n) \notin DOMAIN t
        <5>1. PICK z \in Seq(Names) : z = Append(q, n)
          BY <4>1, ParentOfAppend
        <5>2. Len(z) = l + 1 /\ l \in 0..Len(z) /\ Cut(z, l) = q
          <6>1. Len(z) = l + 1 /\ l \in 0..l /\ l \in 0 .. l + 1
            BY <2>3, <4>1, <5>1, ParentOfAppend
          <6>2. Cut(Append(q, n), l) = Cut(q, l)
            BY <4>1, <6>1, ParentOfAppend
          <6>3. Cut(q, l) = q
            BY <4>1, Cuts
          <6> QED BY <5>1, <6>1, <6>2, <6>3
        <5>3. q \in Prefixes(z)
          <6>1. Prefixes(z) = {Cut(z, i) : i \in 0..Len(z)}
            BY Cuts
          <6> QED BY <5>2, <6>1
        <5> QED BY <4>1, <5>1, <5>3 DEF WellFormed
      <4>3. ASSUME NEW m \in k + 1 .. Len(p), Append(q, n) = Cut(p, m)
            PROVE  m = l + 1 /\ n = p[l + 1]
        <5>1. n = p[m] /\ Len(q) = m - 1
          BY <2>18, <4>3
        <5> QED BY <2>3, <4>1, <5>1
      <4>4. CASE l = Len(p)
        <5>1. Range(u[q].kids) = {}
          <6>1. u[q].kids = <<>>
            BY <2>10, <3>3, <4>4
          <6> QED BY <6>1 DEF Range
        <5>2. ASSUME NEW m \in k + 1 .. Len(p), Append(q, n) = Cut(p, m) PROVE FALSE
          <6>1. m = l + 1
            BY <4>3, <5>2
          <6> QED BY <2>2, <2>3, <4>4, <6>1
        <5> QED BY <2>12, <4>2, <5>1, <5>2
      <4>5. CASE l # Len(p)
        <5>1. l + 1 \in k + 1 .. Len(p) /\ l < Len(p) /\ l \in 0..Len(p) /\ l + 1 \in 1..Len(p)
          BY <2>2, <2>3, <4>5
        <5>2. Range(u[q].kids) = {p[l + 1]}
          <6>1. u[q].kids = <<p[l + 1]>>
            BY <2>10, <3>3, <4>5
          <6> QED BY <6>1 DEF Range
        <5>3. Append(q, p[l + 1]) = Cut(p, l + 1)
          BY <3>3, <5>1, CutAgain
        <5> QED BY <2>12, <4>2, <4>3, <5>1, <5>2, <5>3
      <4> QED BY <4>4, <4>5
    <3> QED BY <2>12, <3>1, <3>2, <3>3
  <2>20. ASSUME NEW q \in DOMAIN u PROVE KidsInOrder(u, q)
    <3> SUFFICES ASSUME NEW i \in DOMAIN u[q].kids, NEW j \in DOMAIN u[q].kids, i < j
                 PROVE  /\ u[q].kids[i] # u[q].kids[j]
                        /\ ~SortsBefore(u[Append(q, u[q].kids[j])].dir, u[q].kids[j],
                                        u[Append(q, u[q].kids[i])].dir, u[q].kids[i])
      BY DEF KidsInOrder, KidSortsBefore
    <3>1. CASE q = parent
      <4>1. u[q].kids = list
        BY <2>9, <3>1
      <4>2. \A x \in DOMAIN list : u[Append(q, list[x])].dir = DirOf(t, parent, name, dirs, list[x])
        <5> TAKE x \in DOMAIN list
        <5>1. list[x] \in Range(list) /\ list[x] \in Names
          BY <2>8, ElementOfSeq, LenProperties DEF Range
        <5>2. CASE list[x] = name
          <6>1. k + 1 \in k + 1 .. Len(p)
            BY <2>2, <2>3
          <6>2. u[Cut(p, k + 1)].dir = dirs
            BY <2>10, <6>1 DEF dirs
          <6> QED BY <2>6, <3>1, <5>2, <6>2 DEF DirOf
        <5>3. CASE list[x] # name
          <6>1. Append(q, list[x]) \in DOMAIN t
            BY <2>4, <2>8, <3>1, <5>1, <5>3 DEF WellFormed
          <6> QED BY <2>11, <3>1, <5>3, <6>1 DEF DirOf
        <5> QED BY <5>2, <5>3
      <4> QED BY <2>8, <4>1, <4>2
    <3>2. CASE q \in DOMAIN t /\ q # parent
      <4>1. u[q] = t[q]
        BY <2>13, <3>2
      <4>2. \A x \in DOMAIN t[q].kids : Append(q, t[q].kids[x]) \in DOMAIN t
        <5> TAKE x \in DOMAIN t[q].kids
        <5>1. t[q].kids[x] \in Range(t[q].kids) /\ t[q].kids[x] \in Names
          <6>1. t[q].kids \in Seq(Names)
            BY <3>2 DEF WellFormed, Node
          <6> QED BY <6>1, ElementOfSeq, LenProperties DEF Range
        <5> QED BY <3>2, <5>1 DEF WellFormed
      <4>3. \A x \in DOMAIN t[q].kids : u[Append(q, t[q].kids[x])].dir = t[Append(q, t[q].kids[x])].dir
        BY <2>11, <4>2
      <4>4. /\ t[q].kids[i] # t[q].kids[j]
            /\ ~SortsBefore(t[Append(q, t[q].kids[j])].dir, t[q].kids[j],
                            t[Append(q, t[q].kids[i])].dir, t[q].kids[i])
        BY <3>2, <4>1 DEF WellFormed, KidsInOrder, KidSortsBefore
      <4> QED BY <4>1, <4>3, <4>4
    <3>3. ASSUME NEW l \in k + 1 .. Len(p), q = Cut(p, l) PROVE FALSE
      <4>1. u[q].kids = IF l = Len(p) THEN <<>> ELSE <<p[l + 1]>>
        BY <2>10, <3>3
      <4>2. CASE l = Len(p)
        <5>1. DOMAIN u[q].kids = {}
          BY <4>1, <4>2, EmptySeq
        <5> QED BY <5>1
      <4>3. CASE l # Len(p)
        <5>1. DOMAIN u[q].kids = {1}
          BY <4>1, <4>3
        <5>2. i = 1 /\ j = 1
          BY <5>1
        <5> QED BY <5>2
      <4> QED BY <4>2, <4>3
    <3> QED BY <2>12, <3>1, <3>2, <3>3
  <2> QED BY <2>15, <2>16, <2>17, <2>19, <2>20 DEF WellFormed, u
<1> QED BY <1>1, <1>2

-----------------------------------------------------------------------------
(* remove_node.                                                            *)

(* A path lies under another when it can be cut to it: so do the paths     *)
(* below it, and what has one more name lies there too or is the path.     *)
LEMMA UnderCut ==
  ASSUME NEW p \in Seq(Names), NEW q \in Seq(Names)
  PROVE  /\ Under(p, q) <=> Len(p) <= Len(q) /\ Cut(q, Len(p)) = p
         /\ \A l \in 0..Len(q) : Under(p, Cut(q, l)) => Under(p, q)
         /\ \A n \in Names : Under(p, Append(q, n)) <=> p = Append(q, n) \/ Under(p, q)
<1>0. Len(p) \in Nat /\ Len(q) \in Nat
  BY Cuts
<1>1. \A r \in Seq(Names) : Under(p, r) <=> Len(p) <= Len(r) /\ Cut(r, Len(p)) = p
  <2> TAKE r \in Seq(Names)
  <2>1. Cut(p, Len(p)) = p
    BY Cuts
  <2>2. SubSeq(p, 1, Len(p)) = p
    BY <2>1 DEF Cut
  <2> QED BY <2>2 DEF Under, IsPrefix, Cut
<1>2. ASSUME NEW l \in 0..Len(q), Under(p, Cut(q, l)) PROVE Under(p, q)
  <2>1. Cut(q, l) \in Seq(Names) /\ Len(Cut(q, l)) = l
    BY Cuts
  <2>2. Len(p) <= l /\ Cut(Cut(q, l), Len(p)) = p
    BY <1>1, <1>2, <2>1
  <2>3. Len(p) \in 0..l
    BY <1>0, <2>2
  <2>4. Cut(Cut(q, l), Len(p)) = Cut(q, Len(p))
    BY <2>3, CutAgain
  <2>5. Len(p) <= Len(q)
    BY <1>0, <2>2
  <2>6. Cut(q, Len(p)) = p
    BY <2>2, <2>4
  <2> QED BY <1>1, <2>5, <2>6
<1>3. ASSUME NEW n \in Names PROVE Under(p, Append(q, n)) <=> p = Append(q, n) \/ Under(p, q)
  <2>1. Append(q, n) \in Seq(Names) /\ Len(Append(q, n)) = Len(q) + 1
    BY ParentOfAppend
  <2>2. Under(p, Append(q, n)) <=> Len(p) <= Len(q) + 1 /\ Cut(Append(q, n), Len(p)) = p
    BY <1>1, <2>1
  <2>3. Cut(Append(q, n), Len(q) + 1) = Append(q, n)
    <3>1. PICK z \in Seq(Names) : z = Append(q, n)
      BY <2>1
    <3>2. Cut(z, Len(z)) = z
      BY Cuts
    <3> QED BY <2>1, <3>1, <3>2
  <2>4. CASE Len(p) = Len(q) + 1
    <3>1. ~Under(p, q)
      BY <1>0, <1>1, <2>4
    <3> QED BY <2>2, <2>3, <2>4, <3>1
  <2>5. CASE Len(p) # Len(q) + 1
    <3>1. p # Append(q, n)
      BY <2>1, <2>5
    <3>2. Len(p) <= Len(q) + 1 <=> Len(p) <= Len(q)
      BY <1>0, <2>5
    <3>3. Len(p) <= Len(q) => Cut(Append(q, n), Len(p)) = Cut(q, Len(p))
      <4>1. Len(p) <= Len(q) => Len(p) \in 0..Len(q)
        BY <1>0
      <4> QED BY <4>1, ParentOfAppend
    <3> QED BY <1>1, <2>2, <3>1, <3>2, <3>3
  <2> QED BY <2>4, <2>5
<1> QED BY <1>1, <1>2, <1>3

(* A path other than the root is its parent's and one name more.           *)
LEMMA ParentAndName ==
  ASSUME NEW p \in Seq(Names), p # <<>>
  PROVE  /\ Len(p) \in 1..Len(p) /\ Front(p) = Cut(p, Len(p) - 1)
         /\ Front(p) \in Seq(Names) /\ Len(Front(p)) = Len(p) - 1 /\ Name(p) \in Names
         /\ \A q \in Seq(Names) : \A n \in Names :
              Append(q, n) = p <=> q = Front(p) /\ n = Name(p)
<1>1. Len(p) \in Nat /\ Len(p) # 0 /\ Cut(p, Len(p)) = p
  BY Cuts, EmptySeq
<1>2. Len(p) \in 1..Len(p) /\ Len(p) - 1 \in 0..Len(p) /\ Len(p) - 1 < Len(p) /\ (Len(p) - 1) + 1 = Len(p)
  BY <1>1
<1>3. Front(p) = Cut(p, Len(p) - 1)
  BY DEF Front, Cut
<1>4. Front(p) \in Seq(Names) /\ Len(Front(p)) = Len(p) - 1
  <2>1. Cut(p, Len(p) - 1) \in Seq(Names) /\ Len(Cut(p, Len(p) - 1)) = Len(p) - 1
    BY <1>2, Cuts
  <2> QED BY <1>3, <2>1
<1>5. Name(p) \in Names
  BY <1>2, ElementOfSeq DEF Name
<1>6. Append(Front(p), Name(p)) = p
  <2>1. Append(Cut(p, Len(p) - 1), p[(Len(p) - 1) + 1]) = Cut(p, (Len(p) - 1) + 1)
    BY <1>2, CutAgain
  <2> QED BY <1>1, <1>2, <1>3, <2>1 DEF Name
<1>7. ASSUME NEW q \in Seq(Names), NEW n \in Names, Append(q, n) = p
      PROVE  q = Front(p) /\ n = Name(p)
  <2>1. Append(q, n) = Cut(p, Len(p))
    BY <1>1, <1>7
  <2> QED BY <1>2, <1>3, <2>1, CutParent DEF Name
<1> QED BY <1>2, <1>3, <1>4, <1>5, <1>6, <1>7

(* remove_node leaves a tree a tree: what is below the node goes with it,  *)
(* and its parent lists it no more.                                        *)
LEMMA RemoveKeepsForm ==
  ASSUME NEW t, WellFormed(t), NEW p \in Seq(Names)
  PROVE  WellFormed(RemoveNode(t, p))
<1>1. CASE p \notin DOMAIN t \/ p = <<>>
  BY <1>1 DEF RemoveNode
<1>2. CASE p \in DOMAIN t /\ p # <<>>
  <2> DEFINE u == RemoveNode(t, p)
             parent == Front(p)
             list == RemoveFirst(t[parent].kids, Name(p))
  <2>1. u = [q \in {r \in DOMAIN t : ~Under(p, r)} |->
               IF q = parent THEN [t[q] EXCEPT !.kids = RemoveFirst(@, Name(p))] ELSE t[q]]
    BY <1>2 DEF RemoveNode
  <2>2. /\ parent \in Seq(Names) /\ Len(parent) = Len(p) - 1 /\ Len(p) \in Nat /\ Name(p) \in Names
        /\ \A q \in Seq(Names) : \A n \in Names : Append(q, n) = p <=> q = parent /\ n = Name(p)
    <3>1. Len(p) \in Nat
      BY Cuts
    <3> QED BY <1>2, <3>1, ParentAndName
  <2>3. parent \in DOMAIN t /\ ~Under(p, parent) /\ ~Under(p, <<>>)
    <3>1. Len(p) - 1 \in 0..Len(p) /\ Len(p) # 0 /\ parent = Cut(p, Len(p) - 1)
      BY <1>2, <2>2, ParentAndName
    <3>2. parent \in Prefixes(p)
      BY <3>1, Cuts
    <3>3. ~(Len(p) <= Len(parent)) /\ ~(Len(p) <= Len(<<>>))
      BY <2>2, <3>1, EmptySeq
    <3>4. <<>> \in Seq(Names)
      OBVIOUS
    <3>5. ~Under(p, parent)
      BY <2>2, <3>3, UnderCut
    <3>6. ~Under(p, <<>>)
      BY <3>3, <3>4, UnderCut
    <3>7. parent \in DOMAIN t
      BY <1>2, <3>2 DEF WellFormed
    <3> QED BY <3>5, <3>6, <3>7
  <2>4. /\ t[parent].kids \in Seq(Names) /\ t[parent] \in Node
        /\ \A i, j \in DOMAIN t[parent].kids : i < j =>
             /\ t[parent].kids[i] # t[parent].kids[j]
             /\ ~SortsBefore(t[Append(parent, t[parent].kids[j])].dir, t[parent].kids[j],
                             t[Append(parent, t[parent].kids[i])].dir, t[parent].kids[i])
    <3>1. t[parent] \in Node /\ KidsInOrder(t, parent)
      BY <2>3 DEF WellFormed
    <3> HIDE DEF parent
    <3> QED BY <3>1 DEF Node, KidsInOrder, KidSortsBefore
  <2>5. /\ list \in Seq(Names)
        /\ \A x : x \in Range(list) <=> x \in Range(t[parent].kids) /\ x # Name(p)
        /\ \A i, j \in DOMAIN list : i < j =>
             \E k, l \in DOMAIN t[parent].kids :
                k < l /\ list[i] = t[parent].kids[k] /\ list[j] = t[parent].kids[l]
    <3>1. PICK s \in Seq(Names) : s = t[parent].kids
      BY <2>4
    <3>2. \A i, j \in 1..Len(s) : i < j => s[i] # s[j]
      BY <2>4, <3>1, LenProperties
    <3>3. LET r == RemoveFirst(s, Name(p))
          IN  /\ r \in Seq(Names)
              /\ \A x : x \in Range(r) <=> x \in Range(s) /\ x # Name(p)
              /\ \A i, j \in DOMAIN r : i < j =>
                   \E k, l \in DOMAIN s : k < l /\ r[i] = s[k] /\ r[j] = s[l]
      BY <3>2, Removed
    <3> QED BY <3>1, <3>3
  <2>6. DOMAIN u = {r \in DOMAIN t : ~Under(p, r)} /\ u = [q \in DOMAIN u |-> u[q]]
    BY <2>1
  <2>7. u[parent] \in Node /\ u[parent].kids = list /\ u[parent].dir = t[parent].dir
    <3>1. u[parent] = [t[parent] EXCEPT !.kids = list]
      BY <2>1, <2>3
    <3> HIDE DEF list, u, parent
    <3> QED BY <2>4, <2>5, <3>1 DEF Node
  <2>8. \A q \in DOMAIN u : q # parent => u[q] = t[q]
    BY <2>1
  <2> HIDE DEF u, parent, list
  <2>9. \A q \in DOMAIN u : q \in Seq(Names) /\ u[q] \in Node /\ u[q].dir = t[q].dir
    BY <2>6, <2>7, <2>8 DEF WellFormed
  <2>10. DOMAIN u \subseteq Seq(Names) /\ u \in [DOMAIN u -> Node]
    BY <2>6, <2>9
  <2>11. <<>> \in DOMAIN u /\ u[<<>>].dir
    <3>1. <<>> \in DOMAIN u
      BY <2>3, <2>6 DEF WellFormed
    <3>2. u[<<>>].dir = t[<<>>].dir
      BY <2>9, <3>1
    <3> QED BY <3>1, <3>2 DEF WellFormed
  <2>12. ASSUME NEW q \in DOMAIN u PROVE Prefixes(q) \subseteq DOMAIN u
    <3>1. q \in Seq(Names) /\ q \in DOMAIN t /\ ~Under(p, q)
      BY <2>6, <2>9
    <3>2. Prefixes(q) = {Cut(q, l) : l \in 0..Len(q)} /\ Prefixes(q) \subseteq DOMAIN t
      BY <3>1, Cuts DEF WellFormed
    <3>3. \A l \in 0..Len(q) : ~Under(p, Cut(q, l))
      BY <3>1, UnderCut
    <3> QED BY <2>6, <3>2, <3>3
  <2>13. ASSUME NEW q \in DOMAIN u, NEW n \in Names
         PROVE  n \in Range(u[q].kids) <=> Append(q, n) \in DOMAIN u
    <3>1. q \in Seq(Names) /\ q \in DOMAIN t /\ ~Under(p, q)
      BY <2>6, <2>9
    <3>2. Under(p, Append(q, n)) <=> p = Append(q, n)
      BY <3>1, UnderCut
    <3>3. n \in Range(t[q].kids) <=> Append(q, n) \in DOMAIN t
      BY <3>1 DEF WellFormed
    <3>4. CASE q = parent
      BY <2>2, <2>5, <2>6, <2>7, <3>1, <3>2, <3>3, <3>4
    <3>5. CASE q # parent
      BY <2>2, <2>6, <2>8, <3>1, <3>2, <3>3, <3>5
    <3> QED BY <3>4, <3>5
  <2>14. ASSUME NEW q \in DOMAIN u PROVE KidsInOrder(u, q)
    <3>1. q \in DOMAIN t /\ u[q].kids \in Seq(Names)
      BY <2>6, <2>9 DEF Node
    <3>2. \A x \in DOMAIN u[q].kids : u[Append(q, u[q].kids[x])].dir = t[Append(q, u[q].kids[x])].dir
      <4> TAKE x \in DOMAIN u[q].kids
      <4>1. u[q].kids[x] \in Names /\ u[q].kids[x] \in Range(u[q].kids)
        BY <3>1, ElementOfSeq, LenProperties DEF Range
      <4>2. Append(q, u[q].kids[x]) \in DOMAIN u
        BY <2>13, <4>1
      <4> QED BY <2>9, <4>2
    <3> SUFFICES ASSUME NEW i \in DOMAIN u[q].kids, NEW j \in DOMAIN u[q].kids, i < j
                 PROVE  /\ u[q].kids[i] # u[q].kids[j]
                        /\ ~SortsBefore(t[Append(q, u[q].kids[j])].dir, u[q].kids[j],
                                        t[Append(q, u[q].kids[i])].dir, u[q].kids[i])
      BY <3>2 DEF KidsInOrder, KidSortsBefore
    <3>3. CASE q = parent
      <4>1. PICK k, l \in DOMAIN t[parent].kids :
              k < l /\ list[i] = t[parent].kids[k] /\ list[j] = t[parent].kids[l]
        BY <2>5, <2>7, <3>3
      <4> QED BY <2>4, <2>7, <3>3, <4>1
    <3>4. CASE q # parent
      <4>1. u[q] = t[q]
        BY <2>8, <3>4
      <4> QED BY <3>1, <4>1 DEF WellFormed, KidsInOrder, KidSortsBefore
    <3> QED BY <3>3, <3>4
  <2> QED BY <2>10, <2>11, <2>12, <2>13, <2>14 DEF WellFormed, u
<1> QED BY <1>1, <1>2

-----------------------------------------------------------------------------
(* What the scan makes, and every event and rename after it.               *)
LEMMA TreeTypesInit == TreeInit => TreeTypeOK
<1> SUFFICES ASSUME TreeInit PROVE TreeTypeOK
  OBVIOUS
<1>1. /\ DOMAIN tree = {<<>>} /\ tree[<<>>] = [dir |-> TRUE, kids |-> <<>>]
      /\ tree = [q \in {<<>>} |-> [dir |-> TRUE, kids |-> <<>>]]
  BY DEF TreeInit, NewTree
<1>2. [dir |-> TRUE, kids |-> <<>>] \in Node
  BY DEF Node
<1>3. DOMAIN tree \subseteq Seq(Names) /\ tree \in [DOMAIN tree -> Node]
  BY <1>1, <1>2
<1>4. tree[<<>>].dir /\ tree[<<>>].kids = <<>>
  BY <1>1
<1>5. Prefixes(<<>>) \subseteq DOMAIN tree
  <2>1. <<>> \in Seq(Names) /\ Len(<<>>) = 0
    BY EmptySeq
  <2>2. Prefixes(<<>>) = {Cut(<<>>, l) : l \in 0..Len(<<>>)}
    BY DEF Prefixes, Cut
  <2>3. Cut(<<>>, 0) = <<>>
    BY <2>1, Cuts
  <2>4. \A l \in 0..Len(<<>>) : l = 0
    BY <2>1
  <2> QED BY <1>1, <2>2, <2>3, <2>4
<1>6. \A n \in Names : n \in Range(tree[<<>>].kids) <=> Append(<<>>, n) \in DOMAIN tree
  <2> TAKE n \in Names
  <2>1. Append(<<>>, n) # <<>>
    <3>1. <<>> \in Seq(Names)
      OBVIOUS
    <3> QED BY <3>1, ParentOfAppend
  <2>2. Range(tree[<<>>].kids) = {}
    BY <1>4 DEF Range
  <2> QED BY <1>1, <2>1, <2>2
<1>7. KidsInOrder(tree, <<>>)
  BY <1>4 DEF KidsInOrder
<1>8. WellFormed(tree)
  BY <1>1, <1>3, <1>4, <1>5, <1>6, <1>7 DEF WellFormed
<1> QED BY <1>8 DEF TreeTypeOK, TreeInit

(* Every entry a scan adds, every event and every rename keeps the tree a  *)
(* tree.                                                                   *)
LEMMA TreeTypesStep ==
  ASSUME TreeTypeOK, [TreeNext]_treeVars
  PROVE  TreeTypeOK'
<1>t. /\ WellFormed(tree) /\ disk \in Disks /\ replica \subseteq Seq(Names)
      /\ scanning \in BOOLEAN /\ clobbered \in BOOLEAN
  BY DEF TreeTypeOK
<1>p. \A p \in Seq(Names) : Down(p) \subseteq Seq(Names)
  BY Cuts DEF Down
<1>d. DOMAIN tree \subseteq Seq(Names)
  BY <1>t DEF WellFormed
<1>1. ASSUME NEW p \in Visible(disk), ScansEntry(p) PROVE TreeTypeOK'
  <2>1. p \in Seq(Names)
    BY <1>t, DisksAssumption DEF Visible
  <2>2. PICK isDir \in BOOLEAN : isDir = (disk[p] = "dir")
    OBVIOUS
  <2>3. tree' = AddNode(tree, p, isDir)
    BY <1>1, <2>2 DEF ScansEntry
  <2>4. WellFormed(tree')
    BY <1>t, <2>1, <2>3, AddKeepsForm
  <2> QED BY <1>t, <1>1, <2>4 DEF ScansEntry, TreeTypeOK
<1>2. CASE ScanEnds
  BY <1>t, <1>d, <1>2 DEF ScanEnds, TreeTypeOK
<1>3. ASSUME NEW p \in Paths, Created(p) PROVE TreeTypeOK'
  <2>1. p \in Seq(Names)
    BY PathsAssumption
  <2>2. WellFormed(tree')
    BY <1>t, <1>3, <2>1, AddKeepsForm DEF Created
  <2>3. replica' \subseteq Seq(Names)
    BY <1>t, <1>p, <1>3, <2>1 DEF Created, PatchedAdd
  <2> QED BY <1>t, <1>3, <2>2, <2>3 DEF Created, TreeTypeOK
<1>4. ASSUME NEW p \in Paths, Deleted(p) PROVE TreeTypeOK'
  <2>1. p \in Seq(Names)
    BY PathsAssumption
  <2>2. WellFormed(tree')
    BY <1>t, <1>4, <2>1, RemoveKeepsForm DEF Deleted
  <2>3. replica' \subseteq Seq(Names)
    BY <1>t, <1>4 DEF Deleted, PatchedRemove
  <2> QED BY <1>t, <1>4, <2>2, <2>3 DEF Deleted, TreeTypeOK
<1>5. ASSUME NEW old \in Paths, NEW new \in Paths, Renamed(old, new) PROVE TreeTypeOK'
  <2>1. old \in Seq(Names) /\ new \in Seq(Names)
    BY PathsAssumption
  <2>2. WellFormed(tree')
    <3>1. WellFormed(RemoveNode(tree, old))
      BY <1>t, <2>1, RemoveKeepsForm
    <3>2. WellFormed(AddNode(RemoveNode(tree, old), new, FALSE))
      BY <2>1, <3>1, AddKeepsForm
    <3> QED BY <1>t, <1>5, <3>2 DEF Renamed, RenameNode
  <2>3. replica' \subseteq Seq(Names)
    BY <1>t, <1>p, <1>5, <2>1 DEF Renamed, PatchedAdd, PatchedRemove
  <2>4. clobbered' \in BOOLEAN /\ UNCHANGED <<disk, scanning>>
    BY <1>t, <1>5 DEF Renamed
  <2> QED BY <1>t, <2>2, <2>3, <2>4 DEF TreeTypeOK
<1>6. CASE UNCHANGED treeVars
  BY <1>t, <1>6 DEF treeVars, TreeTypeOK
<1> QED BY <1>1, <1>2, <1>3, <1>4, <1>5, <1>6 DEF TreeNext

(* Trees stay well formed, however scans, events and renames follow each   *)
(* other: a node's ancestors are all there, a parent lists each child once *)
(* and nothing else, and the children are in the order of sort_key, which  *)
(* the next binary search relies on.  The watcher's state has its types.   *)
THEOREM TreesTypes == TreesSpec => []TreesTypeOK
<1>1. TreesInit => TreesTypeOK
  <2> SUFFICES ASSUME TreesInit PROVE TreesTypeOK
    OBVIOUS
  <2>1. WatcherTypeOK
    BY WatcherTypesInit DEF TreesInit, TreesBegin
  <2>2. \E d \in Disks : TRUE
    BY DisksAssumption
  <2>3. disk \in Disks /\ tree = NewTree /\ scanning = TRUE /\ replica = {} /\ clobbered = FALSE
    BY <2>2 DEF TreesInit, TreesBegin, TreeInit
  <2>4. TreeTypeOK
    BY <2>3, TreeTypesInit DEF TreeInit
  <2> QED BY <2>1, <2>4 DEF TreesTypeOK
<1>2. TreesTypeOK /\ [TreesNext]_treesVars => TreesTypeOK'
  <2> SUFFICES ASSUME TreesTypeOK, [TreesNext]_treesVars PROVE TreesTypeOK'
    OBVIOUS
  <2>1. [TreeNext]_treeVars /\ [WatcherNext]_watcherVars
    BY DEF TreesNext, treesVars
  <2>2. TreeTypeOK'
    BY <2>1, TreeTypesStep DEF TreesTypeOK
  <2>3. WatcherTypeOK'
    BY <2>1, WatcherTypesStep DEF TreesTypeOK
  <2> QED BY <2>2, <2>3 DEF TreesTypeOK
<1> QED BY <1>1, <1>2, PTL DEF TreesSpec

=============================================================================
