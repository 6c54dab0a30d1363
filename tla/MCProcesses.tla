---------------------------- MODULE MCProcesses ----------------------------
(***************************************************************************)
(* What one machine and several do beside the event loop, for TLC: live    *)
(* trees and the watcher, starts of daemons, the Tauri plugin, sync        *)
(* between machines, the gateway.  The modules share no variable; a        *)
(* behaviour lets one of them move, chosen at the start, and the states    *)
(* are those of separate runs.                                             *)
(***************************************************************************)
EXTENDS MCTrees, Sync, Gateway, DaemonProcess, TauriPlugin, TLC

CONSTANTS h1, m1, m2, e1, e2, path

partVars == <<treeVars, watcherVars, syncVars, gatewayVars, processVars, pluginVars, part>>

(* Two events of one machine on one file, in one second or in two. *)
OneHome == e1 :> m1 @@ e2 :> m1
OneFile == e1 :> path @@ e2 :> path

(* Bound: of the contents, the file that the filter leaves out has but one. *)
FewContents == content'[f2] \in {h1, Gone}

(* Bound: the two machines pull in turn. *)
OnePull == \E p \in Machines : pull'[p].at = "idle"

ProcessesInit ==
  /\ part \in {"tree", "watcher", "sync", "gateway", "process", "plugin"}
  /\ TreesBegin /\ SyncInit /\ GatewayInit /\ ProcessInit /\ PluginInit

ProcessesNext ==
  /\ \/ /\ part = "tree" /\ TreeNext
        /\ UNCHANGED <<watcherVars, syncVars, gatewayVars, processVars, pluginVars>>
     \/ /\ part = "watcher" /\ WatcherNext /\ FewContents
        /\ UNCHANGED <<treeVars, syncVars, gatewayVars, processVars, pluginVars>>
     \/ /\ part = "sync" /\ SyncNext /\ OnePull
        /\ UNCHANGED <<treeVars, watcherVars, gatewayVars, processVars, pluginVars>>
     \/ /\ part = "gateway" /\ GatewayNext
        /\ UNCHANGED <<treeVars, watcherVars, syncVars, processVars, pluginVars>>
     \/ /\ part = "process" /\ ProcessNext
        /\ UNCHANGED <<treeVars, watcherVars, syncVars, gatewayVars, pluginVars>>
     \/ /\ part = "plugin" /\ PluginNext
        /\ UNCHANGED <<treeVars, watcherVars, syncVars, gatewayVars, processVars>>
  /\ UNCHANGED part

ProcessesSpec == ProcessesInit /\ [][ProcessesNext]_partVars

(* Every variable of the modules beside trees and watcher has its type. *)
ProcessesTypeOK == SyncTypeOK /\ GatewayTypeOK /\ ProcessTypeOK /\ PluginTypeOK

=============================================================================
