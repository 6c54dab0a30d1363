------------------------------ MODULE EventLoop ------------------------------
(***************************************************************************)
(* From a change on the disk to the store and the subscribers: the         *)
(* callback of the daemon's FsWatcher, its unbounded channel, the event    *)
(* loop DaemonServer::run spawns, and the socket handlers that touch the   *)
(* same state, each between two awaits: attribute, report_agent_activity,  *)
(* watch and unwatch (the projects map only; ProjectRegistry has the       *)
(* rest), subscribe, query_events and query_tree.                          *)
(*                                                                         *)
(* Events are numbered as they are made.  A wire is the notifications      *)
(* broadcast for a project; Subscriptions models how a subscriber reads    *)
(* it.  Files are those PathFilter lets through; a file is absolute here   *)
(* as in the watcher's events, and <<"scan", f>> names it as from_directory *)
(* does, relative to the project.                                          *)
(***************************************************************************)
EXTENDS Naturals, Sequences, FiniteSets

CONSTANTS
  Files,       \* files of the restored projects
  Keys,        \* keys of ServerState.projects
  Owner,       \* [Files -> Keys], the project whose directory holds the file
  Prefixed,    \* [Files -> SUBSET Keys], keys whose path string is a prefix
  Restored,    \* projects restored at start-up: watched by the daemon, with a tree
  Default,     \* "default", the watcher's project id
  AgentFiles,  \* files agents report to work on, by the name the watcher uses
  Subscribed,  \* a project, for the client that subscribes and then queries
  Queries,     \* what that client asks for: "events", "tree"
  MaxEvents    \* bound: events made

ASSUME FilesAssumption ==
  /\ Owner \in [Files -> Restored]
  /\ Prefixed \in [Files -> SUBSET Keys]
  /\ \A f \in Files : Owner[f] \in Prefixed[f]
  /\ AgentFiles \subseteq Files
ASSUME KeysAssumption ==
  Restored \subseteq Keys /\ Subscribed \in Restored /\ Default \notin Keys
ASSUME MaxEventsAssumption == MaxEvents \in Nat

Pids == Keys \cup {Default}
Names == {"event", "scan"} \X Files

VARIABLES
  disk,        \* files that exist
  life,        \* running, then stopping (running = false), stopped (watcher), exited
  made,        \* number of events made
  queue,       \* the watcher's channel
  pos,         \* the event loop: 0 in recv, or the index of its next step
  cur,         \* the event it handles
  patch,       \* the tree patch it has not yet broadcast: one record, or none
  attributing, \* events of attribute requests, stored and not yet broadcast
  registered,  \* ServerState.projects
  active,      \* AgentTracker: files some agent is active on
  locks,       \* the subscription manager's: granted, or crossed and never granted again
  rows,        \* file_events, the table
  failed,      \* events whose insert failed
  wires,       \* [Pids -> Seq(notification)]
  trees,       \* ServerState.trees: names of the nodes for files
  analysed,    \* events handed to the analysis pipeline
  client       \* the client: from where on it hears the wire, what it was answered

disks == <<disk, made, queue>>
loop == <<pos, cur, patch>>
server == <<attributing, registered, active, locks>>
out == <<rows, failed, wires, trees, analysed>>

vars == <<disks, life, loop, server, out, client>>

(* Seeded fault: subscribers are told before the row is written. *)
PublishedFirst ==
  <<"remap", "attribute", "publish", "persist", "tree", "announce", "schedule">>

(* What the event loop does with an event it received (server.rs:231-283). *)
Steps == <<"remap", "attribute", "persist", "publish", "tree", "announce", "schedule">>

Event == [n: 1 .. MaxEvents, file: Files, type: {"created", "modified", "deleted"},
          key: Pids, src: {"user", "agent", "stated"}]

Notification == [is: {"event"}, of: Event] \cup [is: {"add", "remove"}, of: Names]

Unjoined == [from |-> 0, asked |-> {}, history |-> {}, picture |-> {}, joined |-> FALSE]

TypeOK ==
  /\ disk \subseteq Files /\ made \in 0 .. MaxEvents
  /\ life \in {"running", "stopping", "stopped", "exited"}
  /\ queue \in Seq(Event)
  /\ pos \in 0 .. Len(Steps) /\ cur \in Seq(Event) /\ Len(cur) <= 1 /\ (pos > 0 => Len(cur) = 1)
  /\ patch \in Seq(Notification) /\ Len(patch) <= 1
  /\ attributing \subseteq Event /\ registered \subseteq Keys /\ active \subseteq AgentFiles
  /\ locks \in {"granted", "crossed"}
  /\ rows \in Seq(Event) /\ failed \subseteq Event /\ analysed \subseteq Event
  /\ wires \in [Pids -> Seq(Notification)]
  /\ trees \in [Restored -> SUBSET Names]
  /\ client \in [from: Nat, asked: SUBSET {"events", "failed", "tree"}, history: SUBSET Event,
                 picture: SUBSET Names, joined: BOOLEAN]

Init ==
  /\ disk \in SUBSET Files
  /\ made = 0 /\ queue = <<>>
  /\ life = "running"
  /\ pos = 0 /\ cur = <<>> /\ patch = <<>>
  /\ attributing = {} /\ registered = Restored /\ active = {} /\ locks = "granted"
  /\ rows = <<>> /\ failed = {} /\ analysed = {}
  /\ wires = [k \in Pids |-> <<>>]
  /\ trees = [k \in Restored |-> {<<"scan", f>> : f \in {g \in disk : Owner[g] = k}}]
  /\ client = Unjoined

-----------------------------------------------------------------------------
(* Seeded faults. *)

ClonedTooEarly(e) == [is |-> "event", of |-> [e EXCEPT !.src = "user"]]

RemovedSilently(tree, e) ==
  IF e.type = "created" /\ <<"event", e.file>> \notin tree
  THEN <<[is |-> "add", of |-> <<"event", e.file>>]>>
  ELSE <<>>

CoalescesBurst ==
  /\ life # "exited" /\ pos = 0 /\ queue # <<>>
  /\ cur' = <<queue[Len(queue)]>> /\ queue' = <<>>
  /\ pos' = IF life = "running" THEN 1 ELSE 0
  /\ UNCHANGED <<disk, made, life, patch, server, out, client>>

StepTooFar == pos' = pos + 1

-----------------------------------------------------------------------------
(* The disk and the watcher's callback (watcher.rs). *)

(* Only these kinds become events: notify reports a rename as modifications *)
(* of the two names (on Linux it then reports the pair once more, which is *)
(* left out: of a modification only its row and notification remain).      *)
EventTypeOf ==
  [Create |-> "created", Modify |-> "modified", Remove |-> "deleted"]

Made(i, kind, f) ==
  [n |-> made + i, file |-> f, type |-> EventTypeOf[kind], key |-> Default, src |-> "user"]

(* The callback sends an event for every path of what notify reports. *)
Reports(events) ==
  /\ life \in {"running", "stopping"}
  /\ made + Len(events) <= MaxEvents
  /\ made' = made + Len(events)
  /\ queue' = queue \o events
  /\ UNCHANGED <<life, loop, server, out, client>>

Creates(f) ==
  /\ f \notin disk
  /\ disk' = disk \cup {f}
  /\ Reports(<<Made(1, "Create", f)>>)

Writes(f) ==
  /\ f \in disk
  /\ Reports(<<Made(1, "Modify", f)>>)
  /\ UNCHANGED disk

Removes(f) ==
  /\ f \in disk
  /\ disk' = disk \ {f}
  /\ Reports(<<Made(1, "Remove", f)>>)

Renames(f, g) ==
  /\ f \in disk /\ g \notin disk
  /\ disk' = (disk \ {f}) \cup {g}
  /\ Reports(<<Made(1, "Modify", f), Made(2, "Modify", g)>>)

-----------------------------------------------------------------------------
(* The event loop, one event at a time. *)

At(step) == life # "exited" /\ pos > 0 /\ Steps[pos] = step

(* The step is still ahead of the event in hand. *)
Before(step) == pos > 0 /\ \E i \in pos .. Len(Steps) : Steps[i] = step

Onward == pos' = IF pos = Len(Steps) THEN 0 ELSE pos + 1

(* An event received after `running` was cleared is dropped. *)
Receives ==
  /\ life # "exited" /\ pos = 0 /\ queue # <<>>
  /\ cur' = <<Head(queue)>>
  /\ queue' = Tail(queue)
  /\ pos' = IF life = "running" THEN 1 ELSE 0
  /\ UNCHANGED <<disk, made, life, patch, server, out, client>>

(* The first entry of the map, in no particular order, whose path is a     *)
(* prefix of the file's as a string.                                       *)
Remaps ==
  /\ At("remap") /\ Onward
  /\ LET found == registered \cap Prefixed[cur[1].file]
     IN  \/ \E k \in found : cur' = <<[cur[1] EXCEPT !.key = k]>>
         \/ found = {} /\ UNCHANGED cur
  /\ UNCHANGED <<disks, life, patch, server, out, client>>

(* get_active_agent compares paths as strings: an agent that names the     *)
(* file relative to the project is not found.                              *)
Attributes ==
  /\ At("attribute") /\ Onward
  /\ cur' = <<[cur[1] EXCEPT !.src = IF cur[1].file \in active THEN "agent" ELSE @]>>
  /\ UNCHANGED <<disks, life, patch, server, out, client>>

Inserts(e) == rows' = Append(rows, e) /\ failed' = failed

(* The database cannot be opened or refuses the row: logged, no more. *)
InsertFails(e) == rows' = rows /\ failed' = failed \cup {e}

Persists ==
  /\ At("persist") /\ Onward
  /\ Inserts(cur[1]) \/ InsertFails(cur[1])
  /\ UNCHANGED <<disks, life, cur, patch, server, wires, trees, analysed, client>>

EventNotice(e) == [is |-> "event", of |-> e]

(* broadcast waits for the projects lock of the subscription manager.      *)
Cast(k, notice) ==
  /\ locks = "granted"
  /\ wires' = [wires EXCEPT ![k] = Append(@, notice)]

Publishes ==
  /\ At("publish") /\ Onward
  /\ Cast(cur[1].key, EventNotice(cur[1]))
  /\ UNCHANGED <<disks, life, cur, patch, server, rows, failed, trees, analysed, client>>

(* ProjectTree::apply_event: the patch, none when nothing changes. *)
PatchOf(tree, e) ==
  LET name == <<"event", e.file>>
  IN  IF e.type = "created" /\ name \notin tree THEN <<[is |-> "add", of |-> name]>>
      ELSE IF e.type = "deleted" /\ name \in tree THEN <<[is |-> "remove", of |-> name]>>
      ELSE <<>>

TreeAfter(tree, e) ==
  LET name == <<"event", e.file>>
  IN  CASE e.type = "created" -> tree \cup {name}
        [] e.type = "deleted" -> tree \ {name}
        [] e.type = "modified" -> tree

AppliesToTree ==
  /\ At("tree") /\ Onward
  /\ IF cur[1].key \in Restored
     THEN /\ patch' = PatchOf(trees[cur[1].key], cur[1])
          /\ trees' = [trees EXCEPT ![cur[1].key] = TreeAfter(@, cur[1])]
     ELSE UNCHANGED <<patch, trees>>
  /\ UNCHANGED <<disks, life, cur, server, rows, failed, wires, analysed, client>>

(* The trees stay locked until the patch is broadcast. *)
Announces ==
  /\ At("announce") /\ Onward
  /\ IF patch # <<>> THEN Cast(cur[1].key, patch[1]) ELSE UNCHANGED wires
  /\ patch' = <<>>
  /\ UNCHANGED <<disks, life, cur, server, rows, failed, trees, analysed, client>>

Schedules ==
  /\ At("schedule") /\ Onward
  /\ analysed' = IF cur[1].type \in {"created", "modified"} /\ cur[1].key \in registered
                 THEN analysed \cup {cur[1]} ELSE analysed
  /\ UNCHANGED <<disks, life, cur, patch, server, rows, failed, wires, trees, client>>

Loop ==
  \/ Receives \/ Remaps \/ Attributes \/ Persists
  \/ Publishes \/ AppliesToTree \/ Announces \/ Schedules

-----------------------------------------------------------------------------
(* Socket handlers.  None runs after the process exited. *)

(* handle_attribute: a Modified event with the source the client states.   *)
(* It is stored first; a failed insert answers an error and ends it.       *)
AttributeStored(f, k) ==
  /\ life # "exited" /\ made < MaxEvents
  /\ made' = made + 1
  /\ LET e == [n |-> made + 1, file |-> f, type |-> "modified", key |-> k,
               src |-> "stated"]
     IN  \/ Inserts(e) /\ attributing' = attributing \cup {e}
         \/ InsertFails(e) /\ UNCHANGED attributing
  /\ UNCHANGED <<disk, queue, life, loop, registered, active, locks, wires, trees, analysed, client>>

AttributePublished(e) ==
  /\ life # "exited" /\ e \in attributing
  /\ attributing' = attributing \ {e}
  /\ Cast(e.key, EventNotice(e))
  /\ UNCHANGED <<disks, life, loop, registered, active, locks, rows, failed, trees, analysed, client>>

(* state.add_project and remove_project, of a project or of "agents:...".  *)
Registers(k) ==
  /\ life # "exited" /\ k \notin registered
  /\ registered' = registered \cup {k}
  /\ UNCHANGED <<disks, life, loop, attributing, active, locks, out, client>>

Unregisters(k) ==
  /\ life # "exited" /\ k \in registered
  /\ registered' = registered \ {k}
  /\ UNCHANGED <<disks, life, loop, attributing, active, locks, out, client>>

(* update_from_activity: an agent works on a file, and is done with it (or *)
(* has been silent for so long that it counts as stale).                   *)
AgentStarts(f) ==
  /\ life # "exited" /\ f \notin active
  /\ active' = active \cup {f}
  /\ UNCHANGED <<disks, life, loop, attributing, registered, locks, out, client>>

AgentDone(f) ==
  /\ life # "exited" /\ f \in active
  /\ active' = active \ {f}
  /\ UNCHANGED <<disks, life, loop, attributing, registered, locks, out, client>>

(* A subscribe and an unsubscribe cross over the subscription manager's    *)
(* two locks, which nobody gets any more (SubscriptionLocks).              *)
Crosses ==
  /\ life # "exited" /\ locks' = "crossed"
  /\ UNCHANGED <<disks, life, loop, attributing, registered, active, out, client>>

ClientSubscribes ==
  /\ life # "exited" /\ ~client.joined /\ locks = "granted"
  /\ client' = [client EXCEPT !.joined = TRUE, !.from = Len(wires[Subscribed])]
  /\ UNCHANGED <<disks, life, loop, server, out>>

RowsOf(k) == {rows[i] : i \in {j \in 1 .. Len(rows) : rows[j].key = k}}

QueriesEvents ==
  /\ life # "exited" /\ client.joined /\ "events" \in Queries
  /\ client.asked \cap {"events", "failed"} = {}
  /\ client' = [client EXCEPT !.asked = @ \cup {"events"}, !.history = RowsOf(Subscribed)]
  /\ UNCHANGED <<disks, life, loop, server, out>>

(* An error of the store is answered like an empty history. *)
QueryFails ==
  /\ life # "exited" /\ client.joined /\ "events" \in Queries
  /\ client.asked \cap {"events", "failed"} = {}
  /\ client' = [client EXCEPT !.asked = @ \cup {"failed"}]
  /\ UNCHANGED <<disks, life, loop, server, out>>

QueriesTree ==
  /\ life # "exited" /\ client.joined /\ "tree" \in Queries \ client.asked
  /\ patch = <<>>
  /\ client' = [client EXCEPT !.asked = @ \cup {"tree"}, !.picture = trees[Subscribed]]
  /\ UNCHANGED <<disks, life, loop, server, out>>

-----------------------------------------------------------------------------
(* run() after its select loop: clear `running`, stop the watcher, return; *)
(* the process exits under the event loop and every connection.  An insert *)
(* that is under way may still be made.                                    *)
StopsRunning ==
  /\ life = "running" /\ life' = "stopping"
  /\ UNCHANGED <<disks, loop, server, out, client>>

StopsWatcher ==
  /\ life = "stopping" /\ life' = "stopped"
  /\ UNCHANGED <<disks, loop, server, out, client>>

Exits ==
  /\ life = "stopped" /\ life' = "exited"
  /\ UNCHANGED rows \/ (At("persist") /\ rows' = Append(rows, cur[1]))
  /\ UNCHANGED <<disks, loop, server, failed, wires, trees, analysed, client>>

(* The gRPC service's attribute and query_events take the same steps as    *)
(* the socket's; a failing store it answers with an error.                 *)
AttributeCall ==
  \/ \E f \in Files : AttributeStored(f, Subscribed)
  \/ \E e \in attributing : AttributePublished(e)

HistoryCall == QueriesEvents \/ QueryFails

Next ==
  \/ \E f \in Files : Creates(f) \/ Writes(f) \/ Removes(f)
  \/ \E f, g \in Files : Renames(f, g)
  \/ Loop
  \/ AttributeCall
  \/ \E k \in Keys : Registers(k) \/ Unregisters(k)
  \/ \E f \in AgentFiles : AgentStarts(f) \/ AgentDone(f)
  \/ Crosses
  \/ ClientSubscribes \/ HistoryCall \/ QueriesTree
  \/ StopsRunning \/ StopsWatcher \/ Exits

Spec == Init /\ [][Next]_vars

(* Tokio runs the loop's task, and its blocking inserts end.  Nothing says *)
(* that it gets the subscription manager's lock: once crossed, publishing  *)
(* is not enabled.                                                         *)
FairSpec == Spec /\ WF_vars(Loop)

-----------------------------------------------------------------------------
WireEvents(k) ==
  {wires[k][i].of : i \in {j \in 1 .. Len(wires[k]) : wires[k][j].is = "event"}}

(* What a subscriber was told, or the analysis pipeline was given, is in   *)
(* the store exactly as announced - project and source included - unless   *)
(* its insert failed; so it is still there after the process exits, at     *)
(* whatever step the loop then is.                                         *)
SeenIsDurable ==
  \A e \in analysed \cup UNION {WireEvents(k) : k \in Pids} :
    e \in failed \/ \E i \in 1 .. Len(rows) : rows[i] = e

(* A client that subscribes and is then given the history misses nothing:  *)
(* each stored event of the project is in the answer, or in what it hears, *)
(* or about to be broadcast - whichever of the event loop and an attribute *)
(* request it comes from.  This is why both store before they publish.     *)
CatchUpComplete ==
  "events" \in client.asked /\ life # "exited" =>
    \A e \in RowsOf(Subscribed) :
      \/ e \in client.history
      \/ \E i \in client.from + 1 .. Len(wires[Subscribed]) :
           wires[Subscribed][i] = EventNotice(e)
      \/ e \in attributing
      \/ cur = <<e>> /\ Before("publish")

(* The tree a client has that asked for it after it subscribed and applies *)
(* every patch it hears, also those the answer already contains.           *)
Heard == {i \in client.from + 1 .. Len(wires[Subscribed]) :
            wires[Subscribed][i].is \in {"add", "remove"}}

Shown ==
  {x \in Names :
    LET about == {i \in Heard : wires[Subscribed][i].of = x}
    IN  IF about = {} THEN x \in client.picture
        ELSE \E i \in about :
               wires[Subscribed][i].is = "add" /\ \A j \in about : j <= i}

(* Such a client has the daemon's own tree whenever no patch is under way. *)
(* The trees lock is held from apply_event until its patch is broadcast.   *)
PatchesRebuildTree ==
  "tree" \in client.asked /\ patch = <<>> => Shown = trees[Subscribed]

(* An event the watcher made is stored, or its insert fails, unless the    *)
(* daemon is told to stop or the subscription manager's locks are crossed: *)
(* the loop neither skips an event nor gives up.                           *)
EventuallyHandled ==
  \A n \in 1 .. MaxEvents :
    made >= n ~>
      \/ life # "running" \/ locks = "crossed"
      \/ \E i \in 1 .. Len(rows) : rows[i].n = n
      \/ \E e \in failed : e.n = n

=============================================================================
