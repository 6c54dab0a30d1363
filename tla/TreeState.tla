----------------------------- MODULE TreeState -----------------------------
(***************************************************************************)
(* The ordered tree of a project: how a scan builds it entry by entry, how *)
(* add, remove and rename change it, which patch an event yields, and what *)
(* becomes of a client that replays the patches on the paths it was given. *)
(*                                                                         *)
(* A path is the sequence of its names.  A tree maps the paths it has, the *)
(* root <<>> included, to a node: whether it is a directory, and the names *)
(* of its children in their order.                                         *)
(***************************************************************************)
EXTENDS Naturals, SequencesExt

CONSTANTS
  Names,
  Rank,         \* [Names -> Nat], the order of the lower-cased names
  IgnoredNames, \* names PathFilter's patterns match
  Disks,        \* directories to scan: paths to "dir", "file" or "link"
  MaxDepth,     \* MAX_DEPTH of the scan, 20
  MaxEntries,   \* MAX_ENTRIES of the scan, 10000
  Paths         \* bound: paths events name

ASSUME RankAssumption == Rank \in [Names -> Nat]
ASSUME ScanAssumption == MaxDepth \in Nat /\ MaxEntries \in Nat
ASSUME DisksAssumption == Disks # {} /\ \A d \in Disks : DOMAIN d \subseteq Seq(Names) \ {<<>>}
ASSUME PathsAssumption == Paths \subseteq Seq(Names) \ {<<>>}

VARIABLES
  tree,     \* ProjectTree.root
  disk,     \* the directory from_directory was given
  scanning, \* whether it is still at work: nobody else has the tree yet
  replica,  \* the paths a client has, from query_tree and the patches since
  clobbered \* history: a rename failed half way, without a patch

treeVars == <<tree, disk, scanning, replica, clobbered>>

Down(p) == Prefixes(p) \ {<<>>}
Under(p, q) == IsPrefix(p, q)
Name(p) == p[Len(p)]

(* Directories first, then by lower-cased name (sort_key). *)
SortsBefore(dir1, name1, dir2, name2) ==
  \/ dir1 /\ ~dir2
  \/ dir1 = dir2 /\ Rank[name1] < Rank[name2]

KidSortsBefore(t, p, kid, isDir, name) ==
  SortsBefore(t[Append(p, kid)].dir, kid, isDir, name)

(* Seeded fault: files and directories are searched as one order. *)
PlacedByNameOnly(t, p, isDir, name) ==
  LET kids == t[p].kids
  IN  InsertAt(kids, 1 + Cardinality({i \in DOMAIN kids : Rank[kids[i]] < Rank[name]}), name)

(* insert_sorted: at the place the binary search finds. *)
InsertSorted(t, p, isDir, name) ==
  LET kids == t[p].kids
      smaller == {i \in DOMAIN kids : KidSortsBefore(t, p, kids[i], isDir, name)}
  IN  InsertAt(kids, 1 + Cardinality(smaller), name)

(* What ProjectTree may be: a root and all that lies above what it has,    *)
(* each child listed once, in order.  A file may have children: add_node   *)
(* asks of no parent whether it is a directory.                            *)
Node == [dir: BOOLEAN, kids: Seq(Names)]

KidsInOrder(t, p) ==
  LET kids == t[p].kids
  IN  \A i, j \in DOMAIN kids : i < j =>
        kids[i] # kids[j] /\ ~KidSortsBefore(t, p, kids[j], t[Append(p, kids[i])].dir, kids[i])

WellFormed(t) ==
  /\ DOMAIN t \subseteq Seq(Names) /\ t \in [DOMAIN t -> Node]
  /\ <<>> \in DOMAIN t /\ t[<<>>].dir
  /\ \A p \in DOMAIN t :
       /\ Prefixes(p) \subseteq DOMAIN t
       /\ \A n \in Names : n \in Range(t[p].kids) <=> Append(p, n) \in DOMAIN t
       /\ KidsInOrder(t, p)

TreeTypeOK ==
  /\ WellFormed(tree)
  /\ disk \in Disks
  /\ replica \subseteq Seq(Names)
  /\ scanning \in BOOLEAN /\ clobbered \in BOOLEAN

-----------------------------------------------------------------------------
(* add_node: nothing when the path is there; otherwise the node and every  *)
(* directory that is missing above it.                                     *)
AddNode(t, p, isDir) ==
  LET new == Down(p) \ DOMAIN t
      made == [q \in new |-> [dir |-> q # p \/ isDir, kids |-> IF q = p THEN <<>> ELSE <<p[Len(q) + 1]>>]]
      top == CHOOSE q \in new : \A r \in new : Len(q) <= Len(r)
      parent == Front(top)
      joined == [t EXCEPT ![parent].kids = InsertSorted(t, parent, made[top].dir, Name(top))]
  IN  IF new = {} THEN t
      ELSE [q \in DOMAIN t \cup new |-> IF q \in new THEN made[q] ELSE joined[q]]

(* remove_node: the node and all below it; its parent lists it once. *)
RemoveNode(t, p) ==
  IF p \notin DOMAIN t \/ p = <<>> THEN t
  ELSE [q \in {r \in DOMAIN t : ~Under(p, r)} |->
          IF q = Front(p) THEN [t[q] EXCEPT !.kids = RemoveFirst(@, Name(p))] ELSE t[q]]

(* rename_node: what was below the old path is gone. *)
RenameNode(t, old, new) == AddNode(RemoveNode(t, old), new, FALSE)

NewTree == [p \in {<<>>} |-> [dir |-> TRUE, kids |-> <<>>]]

(* find_node. *)
Has(t, p) == p \in DOMAIN t

-----------------------------------------------------------------------------
(* scan_directory: what the filter lets through, no link and nothing below *)
(* one, no path longer than MaxDepth names.                                *)
Ignored(p) == \E i \in DOMAIN p : p[i] \in IgnoredNames

Visible(d) ==
  {p \in DOMAIN d : /\ ~Ignored(p) /\ Len(p) <= MaxDepth
                    /\ \A q \in Down(p) : d[q] # "link"}

(* Directories that were found and have entries that were not. *)
Unfinished == {q \in DOMAIN tree : \E p \in Visible(disk) \ DOMAIN tree : Front(p) = q}

(* entry_count against MAX_ENTRIES. *)
Full == Cardinality(DOMAIN tree \ {<<>>}) >= MaxEntries

(* Depth first: a directory's next entry is looked at when all that is     *)
(* below the entries before it has been.                                   *)
ScansEntry(p) ==
  /\ p \notin DOMAIN tree /\ ~Full
  /\ Front(p) \in DOMAIN tree /\ \A q \in Unfinished : Under(q, Front(p))
  /\ tree' = AddNode(tree, p, disk[p] = "dir")
  /\ UNCHANGED <<disk, scanning, replica, clobbered>>

(* The tree is shared, and a client asks for it. *)
ScanEnds ==
  /\ Visible(disk) \subseteq DOMAIN tree \/ Full
  /\ scanning' = FALSE
  /\ replica' = DOMAIN tree \ {<<>>}
  /\ UNCHANGED <<tree, disk, clobbered>>

TreeInit ==
  /\ disk \in Disks /\ tree = NewTree /\ scanning = TRUE
  /\ replica = {} /\ clobbered = FALSE

-----------------------------------------------------------------------------
(* A client's reading of the three patches. *)
PatchedAdd(paths, p) == paths \cup Down(p)
PatchedRemove(paths, p) == {q \in paths : ~Under(p, q)}

Created(p) ==
  /\ tree' = AddNode(tree, p, FALSE)
  /\ replica' = IF tree' # tree THEN PatchedAdd(replica, p) ELSE replica
  /\ UNCHANGED <<disk, scanning, clobbered>>

(* Seeded fault: a directory's removal is not announced. *)
DeletedQuietly(p) ==
  /\ tree' = RemoveNode(tree, p)
  /\ replica' = IF tree' # tree /\ ~tree[p].dir THEN PatchedRemove(replica, p) ELSE replica
  /\ UNCHANGED <<disk, scanning, clobbered>>

Deleted(p) ==
  /\ tree' = RemoveNode(tree, p)
  /\ replica' = IF tree' # tree THEN PatchedRemove(replica, p) ELSE replica
  /\ UNCHANGED <<disk, scanning, clobbered>>

(* apply_rename.  When something is at the new path already the old node   *)
(* is gone, the answer is false, and no patch says so.                     *)
Renamed(old, new) ==
  LET removed == RemoveNode(tree, old)
      added == removed # tree /\ ~Has(removed, new)
  IN  /\ tree' = IF removed = tree THEN tree ELSE RenameNode(tree, old, new)
      /\ replica' = IF added THEN PatchedAdd(PatchedRemove(replica, old), new) ELSE replica
      /\ clobbered' = (clobbered \/ (removed # tree /\ ~added))
      /\ UNCHANGED <<disk, scanning>>

TreeNext ==
  \/ /\ scanning
     /\ ScanEnds \/ \E p \in Visible(disk) : ScansEntry(p)
  \/ /\ ~scanning
     /\ \/ \E p \in Paths : Created(p) \/ Deleted(p)
        \/ \E old, new \in Paths : Renamed(old, new)

TreeSpec == TreeInit /\ [][TreeNext]_treeVars

-----------------------------------------------------------------------------
(* A client that was given the tree and replays every patch has the paths  *)
(* the daemon has, unless a rename onto an existing node lost one.         *)
ReplicaFollows == ~scanning /\ ~clobbered => replica = DOMAIN tree \ {<<>>}

=============================================================================
