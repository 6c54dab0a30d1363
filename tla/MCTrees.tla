------------------------------ MODULE MCTrees ------------------------------
(***************************************************************************)
(* Live trees and the watcher under them.  EventLoop has the two together  *)
(* with the daemon between them; here each is in its own detail, and a     *)
(* behaviour lets one of the two move.  MCProcesses has TLC check them.    *)
(***************************************************************************)
EXTENDS TreeState, FsWatcher

CONSTANTS na, nb, nc, r1, f1, f2

VARIABLE part

treesVars == <<treeVars, watcherVars, part>>

Alphabetical == na :> 1 @@ nb :> 2 @@ nc :> 3

(* A disk with an ignored name and a long path, and one with a link. *)
TwoDisks == {
  <<nb>> :> "dir" @@ <<nb, na>> :> "file" @@ <<nb, nb>> :> "dir" @@ <<nb, nb, na>> :> "file"
    @@ <<na>> :> "file" @@ <<nc>> :> "dir" @@ <<nc, na>> :> "file",
  <<na>> :> "link" @@ <<nb>> :> "dir" @@ <<nb, na>> :> "file" }

SomePaths == {<<na>>, <<nb>>, <<nc>>, <<nb, na>>, <<nb, nb>>, <<nb, nb, na>>}

OneRoot == f1 :> r1 @@ f2 :> r1

(* Only a behaviour of the tree begins with any disk but one. *)
TreesBegin ==
  /\ WatcherInit
  /\ IF part = "tree" THEN TreeInit
     ELSE /\ disk = CHOOSE d \in Disks : TRUE
          /\ tree = NewTree /\ scanning = TRUE /\ replica = {} /\ clobbered = FALSE

TreesInit == part \in {"tree", "watcher"} /\ TreesBegin

TreesNext ==
  /\ \/ part = "tree" /\ TreeNext /\ UNCHANGED watcherVars
     \/ part = "watcher" /\ WatcherNext /\ UNCHANGED treeVars
  /\ UNCHANGED part

TreesSpec == TreesInit /\ [][TreesNext]_treesVars

(* Trees are well formed, and every variable has its type. *)
TreesTypeOK == TreeTypeOK /\ WatcherTypeOK

=============================================================================
