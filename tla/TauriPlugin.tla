---------------------------- MODULE TauriPlugin ----------------------------
(***************************************************************************)
(* The state of the Tauri plugin: the client its connection loop makes,    *)
(* the projects to subscribe to on connecting, and the subscribe and       *)
(* unsubscribe commands beside the loop.                                   *)
(*                                                                         *)
(* There are two mutexes, over `client` and `subscribed_projects`.  The    *)
(* notification loop keeps `client` while it waits for a notification,     *)
(* and commands with it; when the connection has closed it asks for the    *)
(* mutex it holds, and the plugin never connects again.  subscribed_       *)
(* projects is a set: repeating a subscription changes nothing here.       *)
(***************************************************************************)
EXTENDS Naturals

CONSTANTS
  Topics,    \* projects the application subscribes to
  Commands   \* command tasks

VARIABLES
  loop,      \* where connection_loop is
  client,    \* there is a client
  alive,     \* its connection is open
  inClient,  \* the loop holds the client mutex
  tracked,   \* subscribed_projects
  again,     \* what resubscribe_all has yet to subscribe
  command,   \* each command's kind and project, between its two mutexes
  served,    \* projects the daemon has the connection subscribed to
  refused    \* projects a subscribe call failed for

pluginVars == <<loop, client, alive, inClient, tracked, again, command, served, refused>>

Resting == [kind |-> "none", topic |-> {}]

PluginTypeOK ==
  /\ loop \in {"trying", "connected", "copied", "resubscribing", "between", "receiving", "stuck"}
  /\ client \in BOOLEAN /\ alive \in BOOLEAN /\ inClient \in BOOLEAN
  /\ tracked \subseteq Topics /\ again \subseteq Topics
  /\ served \subseteq Topics /\ refused \subseteq Topics
  /\ command \in [Commands -> [kind: {"none", "subscribe", "unsubscribe"},
                               topic: {{}} \cup {{t} : t \in Topics}]]

PluginInit ==
  /\ loop = "trying"
  /\ client = FALSE /\ alive = FALSE /\ inClient = FALSE
  /\ tracked = {} /\ again = {} /\ served = {} /\ refused = {}
  /\ command = [k \in Commands |-> Resting]

(* unsubscribe keeps subscribed_projects while it waits for the client. *)
TrackedIsFree == \A k \in Commands : command[k].kind # "unsubscribe"

-----------------------------------------------------------------------------
(* try_connect succeeds; failed attempts change nothing. *)
Connects ==
  /\ loop = "trying" /\ ~inClient
  /\ loop' = "connected" /\ client' = TRUE /\ alive' = TRUE
  /\ UNCHANGED <<inClient, tracked, again, command, served, refused>>

CopiesTracked ==
  /\ loop = "connected" /\ TrackedIsFree
  /\ again' = tracked
  /\ loop' = IF tracked = {} THEN "between" ELSE "copied"
  /\ UNCHANGED <<client, alive, inClient, tracked, command, served, refused>>

TakesClient ==
  /\ loop \in {"copied", "between"} /\ ~inClient
  /\ inClient' = TRUE
  /\ loop' = IF loop = "copied" THEN "resubscribing" ELSE "receiving"
  /\ UNCHANGED <<client, alive, tracked, again, command, served, refused>>

(* A subscribe call: it fails when the connection is gone, or the daemon   *)
(* answers with an error.                                                  *)
CallsSubscribe(t, ok) ==
  /\ ok => alive
  /\ served' = IF ok THEN served \cup {t} ELSE served
  /\ refused' = IF ok THEN refused \ {t} ELSE refused \cup {t}

(* Seeded fault: the first project that is refused ends the rest. *)
ResubscribesUntilRefused(t, ok) ==
  /\ loop = "resubscribing" /\ t \in again
  /\ CallsSubscribe(t, ok)
  /\ again' = IF ok THEN again \ {t} ELSE {}
  /\ UNCHANGED <<loop, client, alive, inClient, tracked, command>>

Resubscribes(t, ok) ==
  /\ loop = "resubscribing" /\ t \in again
  /\ CallsSubscribe(t, ok)
  /\ again' = again \ {t}
  /\ UNCHANGED <<loop, client, alive, inClient, tracked, command>>

EndsResubscribing ==
  /\ loop = "resubscribing" /\ again = {}
  /\ loop' = "between" /\ inClient' = FALSE
  /\ UNCHANGED <<client, alive, tracked, again, command, served, refused>>

(* A notification, which only a subscription brings, is received and       *)
(* emitted with the mutex released.                                        *)
ReceivesNotification ==
  /\ loop = "receiving" /\ alive /\ served # {}
  /\ loop' = "between" /\ inClient' = FALSE
  /\ UNCHANGED <<client, alive, tracked, again, command, served, refused>>

(* recv_notification finds the connection closed: `*self.client.lock()` is *)
(* awaited with the guard of the same mutex alive.                         *)
SeesClosed ==
  /\ loop = "receiving" /\ ~alive
  /\ loop' = "stuck"
  /\ UNCHANGED <<client, alive, inClient, tracked, again, command, served, refused>>

DaemonCloses ==
  /\ alive
  /\ alive' = FALSE /\ served' = {}
  /\ UNCHANGED <<loop, client, inClient, tracked, again, command, refused>>

-----------------------------------------------------------------------------
(* subscribe: the project is tracked first. *)
StartsSubscribe(k, t) ==
  /\ command[k] = Resting /\ TrackedIsFree
  /\ tracked' = tracked \cup {t}
  /\ command' = [command EXCEPT ![k] = [kind |-> "subscribe", topic |-> {t}]]
  /\ UNCHANGED <<loop, client, alive, inClient, again, served, refused>>

(* Then the client, if there is one, is told. *)
EndsSubscribe(k, t, ok) ==
  /\ command[k] = [kind |-> "subscribe", topic |-> {t}] /\ ~inClient
  /\ IF client THEN CallsSubscribe(t, ok) ELSE ok /\ UNCHANGED <<served, refused>>
  /\ command' = [command EXCEPT ![k] = Resting]
  /\ UNCHANGED <<loop, client, alive, inClient, tracked, again>>

StartsUnsubscribe(k, t) ==
  /\ command[k] = Resting /\ TrackedIsFree
  /\ tracked' = tracked \ {t}
  /\ command' = [command EXCEPT ![k] = [kind |-> "unsubscribe", topic |-> {t}]]
  /\ UNCHANGED <<loop, client, alive, inClient, again, served, refused>>

(* The call may fail as any other, and is not tried again. *)
EndsUnsubscribe(k, t, ok) ==
  /\ command[k] = [kind |-> "unsubscribe", topic |-> {t}] /\ ~inClient
  /\ IF client THEN (ok => alive) ELSE ok
  /\ served' = IF client /\ ok THEN served \ {t} ELSE served
  /\ command' = [command EXCEPT ![k] = Resting]
  /\ UNCHANGED <<loop, client, alive, inClient, tracked, again, refused>>

LoopSteps ==
  \/ Connects \/ CopiesTracked \/ TakesClient \/ EndsResubscribing
  \/ ReceivesNotification \/ SeesClosed
  \/ \E t \in Topics, ok \in BOOLEAN : Resubscribes(t, ok)

PluginNext ==
  \/ LoopSteps \/ DaemonCloses
  \/ \E k \in Commands, t \in Topics :
       \/ StartsSubscribe(k, t) \/ StartsUnsubscribe(k, t)
       \/ \E ok \in BOOLEAN : EndsSubscribe(k, t, ok) \/ EndsUnsubscribe(k, t, ok)

CommandEnds(k) ==
  \E t \in Topics, ok \in BOOLEAN : EndsSubscribe(k, t, ok) \/ EndsUnsubscribe(k, t, ok)

(* The loop and the commands begun are tasks and run whenever they can;    *)
(* nobody need begin a command, and the daemon may close at any time.      *)
PluginFairness ==
  WF_pluginVars(LoopSteps) /\ \A k \in Commands : WF_pluginVars(CommandEnds(k))

PluginSpec == PluginInit /\ [][PluginNext]_pluginVars /\ PluginFairness

-----------------------------------------------------------------------------
(* Once the loop has resubscribed on an open connection, every project the *)
(* application subscribed to is subscribed there, or was refused, or its   *)
(* command is still on the way: a command that found no client leaves it   *)
(* to the loop, and the loop's copy misses none that a command did not     *)
(* subscribe itself.                                                       *)
TrackedIsSubscribed ==
  loop \in {"between", "receiving"} /\ alive =>
    \A t \in tracked : t \in served \cup refused
      \/ \E k \in Commands : command[k] = [kind |-> "subscribe", topic |-> {t}]

(* A connection the daemon closes is followed by another attempt to        *)
(* connect, as "main connection loop: retry until connected" has it.       *)
PluginReconnects == (client /\ ~alive) ~> (loop = "trying")

=============================================================================
