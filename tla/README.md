# ambient-fs: a verification development

ambient-fs is a daemon (`ambient-fsd`) that watches project directories, stores
what happens to their files in SQLite, and serves the history and a live feed to
clients over a Unix socket. Beside it there are a gRPC service, a synchronisation
between machines and a gateway, clients in Rust, TypeScript and Python, and a
Tauri plugin. This directory holds TLA+ modules that model all of these, TLC
configurations that check them on small instances, and TLAPS proofs of what
matters most.

File names below are relative to `crates/` unless they start with `docs/` or
`README.md`; `socket.rs`, `subscriptions.rs`, `state.rs`, `tree_state.rs` and
`agents.rs` are in `ambient-fs-server/src/`, `server.rs` in `ambient-fsd/src/`,
`store.rs`, `cache.rs`, `prune.rs` and `migrations.rs` in `ambient-fs-store/src/`,
`watcher.rs`, `attribution.rs` and `dedup.rs` in `ambient-fs-watcher/src/`; `pipeline.rs`,
`awareness.rs`, `grpc.rs`, `sync.rs` and `gateway.rs` are in `ambient-fs-server/src/` too,
`daemon.rs` and `main.rs` beside `server.rs`.

## 1. The system

| component | state | operations | talks to |
|---|---|---|---|
| SubscriptionManager (`subscriptions.rs`) | per project a broadcast channel of 256 and a count, each map behind its own RwLock | subscribe, unsubscribe, broadcast | called by connection tasks, the event loop, gRPC, the pipeline |
| connection task (`socket.rs` handle_connection) | one receiver per subscribed project | one request at a time; between requests, every 10 ms, one `try_recv` per subscription | everything the handlers touch |
| project registry (`state.rs`, `socket.rs`, `server.rs`) | maps projects, watchers, trees; the daemon's own watcher; table `projects` | watch, unwatch, restore at start | FsWatcher, EventStore |
| FsWatcher (`watcher.rs`) | the list of watched paths, a notify watcher, an unbounded channel | start, watch, unwatch, stop; callback | event loop |
| event loop (`server.rs`) | the event in hand | remap, attribute, persist, publish, tree patch, schedule analysis | store, SubscriptionManager, trees, agent tracker, pipeline |
| EventStore (`store.rs`) | tables `file_events`, `projects` | insert, query, add/remove/list projects | SQLite; opened anew for each call |
| live trees (`tree_state.rs`, `ambient-fs-core/src/tree.rs`) | one tree per restored project | scan, apply_event | event loop, query_tree |
| agent tracker (`agents.rs`) | agents with their files, last_seen, reference counts | update_from_activity, get_active_agent, prune_stale | event loop, awareness |
| analysis pipeline and cache (`pipeline.rs`, `cache.rs`) | two permits; table `file_analysis` | check freshness, analyse, put, notify | event loop, SubscriptionManager, LLM |
| retention (`prune.rs`, PruneScheduler) | - | prune at start and daily | store, cache |
| awareness (`awareness.rs`) | - | reads store, cache and tracker in turn | store, cache, tracker |
| gRPC, sync, gateway (`grpc.rs`, `sync.rs`, `gateway.rs`) | per-peer last_sync; routing table and event buffer | subscribe and sync streams; pull from peers; relay | SubscriptionManager, store, peers |
| Rust client (`ambient-fs-client`) | pending map, notification channel, reader task | request, notification, close | daemon |
| Node, Python, Tauri integrations | a transport each | request, notification, reconnect | daemon |
| process (`daemon.rs`, `main.rs`) | PID file, socket file, shutdown flag | start, stop, status, watch/unwatch | operating system |

What makes each of them hard, and what would make it correct:

- **SubscriptionManager**: two locks taken in different orders by subscribe and
  unsubscribe, across awaits; one count shared by all connections. Correct when its
  calls are atomic to one another, always return, and a channel lives exactly as
  long as subscriptions on it are counted and as long as somebody reads it.
- **Connection tasks**: a receiver may lag, its channel may go away under it, the
  client may re-subscribe, stop reading, hang up at any write, and a handler may wait
  for ever. Correct when a client gets what is broadcast after it subscribed, in order,
  once, and misses only what the ring overwrote; when nothing starves of a client that
  reads, whatever the others do, and nothing is kept after it left.
- **Project registry**: four locks in a row in one handler, detached database
  writes in any order, a second process editing the table, restore after a crash.
  Correct when maps, watchers and table agree on a project whenever nothing of it is
  under way.
- **Event loop**: seven steps with awaits between them, other writers of the same
  channels and tables, failing inserts, exit at any step. Correct when nothing is
  announced that is not stored, a late subscriber can catch up, patches rebuild
  the tree, the event goes to the project and the author it belongs to, and every
  event is handled.
- **Pipeline**: freshness checked before a wait, file read after the event,
  concurrent analyses of one file, an LLM that may not answer. Correct when the cache
  ends with the last version's entry and waiting for a permit ends.
- **Agent tracker and awareness**: client clocks, two locks per call, four reads per
  answer. Correct when listed files are counted and an answer is not older than what
  its reader knows.
- **Storage**: autocommitted statements of several processes on one file. Correct when
  what was accepted stays, and a version number means its tables.
- **Trees and watcher**: order and directories under replayed patches; watches lost
  with a directory or half made; hashes computed late.
- **gRPC, sync, gateway**: bounded channels filled before they are drained, gaps
  between replay and subscription, at-least-once delivery with inexact
  deduplication, registrations outliving and outlived by streams.
- **Clients**: answers matched to callers across timeouts, cancelled writes, silence
  and disconnection; the plugin's commands beside its reconnection.
- **Process**: check-then-act on PID and socket files, crashes that leave both, or an
  empty one.

`PROJECT.json` lists all of these as components and, under `hazards`, the places
where each bites, with the properties that watch over them.

## 2. Modules

    SubscriptionManager            the two maps, calls atomic
      SubscriptionLocks            the same calls at the grain of their awaits;
                                   implements SubscriptionManager
      Subscriptions                connection tasks, receivers, polling;
                                   EXTENDS SubscriptionManager, implements PubSub
        MCSubscriptions            instances for TLC
        SubscriptionsProofs        theorems for all clients
          SubscriptionsDiscipline  theorems for disciplined clients
    PubSub                         what a subscriber is promised (abstract)
    ProjectRegistry                watch, unwatch, restore
      MCProjectRegistry            instances for TLC
      ProjectRegistryProofs        theorems for any clients and directories
    EventLoop                      from the disk to store, wire and tree
      MCEventLoop                  instance for TLC
      EventLoopProofs              theorems for any files, bursts and projects
    AnalysisPipeline               tasks, permits, cache, LLM
    AgentTracker                   reports, staleness, prune_stale
      Awareness                    query_awareness beside them and the event makers
    Storage                        tables, inserts, batches, migrations, prunes
    ClientTransports               Rust, Node and Python on one connection
      MCKnowledge                  instance of these five
        KnowledgeProofs            theorems about the first four
    TreeState                      ordered trees, patches, a client's replica
    FsWatcher                      what is watched, the callback, sources, hashes
      MCTrees                      the two, one or the other moving
        TreesProofs                theorems about each
    Sync                           two machines, sync_events and sync_peer
    Gateway                        routing table, relay streams, reaping, buffer
    DaemonProcess                  start, stop, PID file, socket file
    TauriPlugin                    connection loop and commands
      MCProcesses                  instance of these four and MCTrees
        ProcessesProofs            theorems about each of the four, and ClientTransports

### SubscriptionManager
`channel` is the key set of `Inner.projects`, `counts` is `Inner.counts` with 0 for
no entry. `ManagerSubscribe` and `ManagerUnsubscribe` are the two calls; the bound
`MaxCount` caps outstanding subscriptions.

### SubscriptionLocks
A lock is the queue of requests made on it and not released, which is how tokio's
fair RwLock behaves; `Granted` says who may proceed. Every `.await` on a lock is an
action boundary: `subProjects`, `subCounts`, `unsubCounts`, `unsubProjects`,
`castProjects`. `CallsAreAtomic` is the refinement of SubscriptionManager: in the
stretch where unsubscribe has removed the count and waits for the projects lock it
still holds the counts lock, so the abstract count is still 1.

### Subscriptions
Broadcasts of a project are numbered. A receiver is the number it reads next
(`next`), the number it started from (`from`) and, once its channel was dropped, the
last number it can still reach (`tail`). The ring is implied: a receiver lags when
`Capacity` or more newer broadcasts exist beyond its next one. tokio moves a lagging
receiver to the oldest retained message, which is what `FindLagged` does. The pass
over `conn_state.subscriptions` is `todo`; requests are taken when it is empty, as in
the code, where the pass comes before the `select!` on the next line and a 10 ms
sleep. A task that has taken a notification (`Takes`, `hand`) or has a response to give
(`answering`) does nothing else until its write is done, and a write waits while the
socket is `full`, which only the client's reading changes (`Drains`); `Slow` are the
connections whose client may let that happen. A handler that returns is one step: it
awaits locks of the manager only, which SubscriptionLocks shows to be atomic, and
touches nothing another task reads. One that crosses with another does not return
(`Crosses`), nor does any later one that needs the locks (`WaitsBehind`): such tasks are
`stuck`, and nothing is broadcast any more. `told` and `got` are history: what the client was told it is subscribed to and what
was written to it. `Undisciplined` are connections whose client may unsubscribe from
projects it has no subscription to, which the server does not refuse.

### PubSub
Membership, one cursor per member, `Receive` the next broadcast, or `Miss` exactly
what `Capacity` newer ones displaced. No channels, counts, tasks or polling.

### ProjectRegistry
Each stretch of `handle_watch_project` and `handle_unwatch_project` between two
awaits is an action; `req` is where a request is. A `spawn_blocking` write is queued and
its handler goes on at once: `jobs` are the writes that are pending, one for each of
`Slots` (a bound of the model, at which a handler's last step waits), run in any order,
and lost in a crash; a write may fail silently for the projects in `Failing`. `main` is
what the daemon's own FsWatcher watches (only restore adds to it), `watchers` the
FsWatcher each socket request creates. `CliWatch`/`CliUnwatch` are the commands, which
run `DaemonServer::watch_project` in a process of their own, so that only the row
remains. Directories in `Unsteady` come and go. `Crash` may happen at any moment. `raced`
and `strayed` are history, of each project by itself: two of its requests overlapped, or
its row was not written once by each request, one after the other.

### EventLoop
`queue` is the watcher's channel, `pos` the step of the loop (`Steps`), `cur` the event
in hand. One action per step, since each ends in an await. `wires[k]` is what was
broadcast for project k, in order. The handlers that touch the same state are
interleaved: attribute (store, then publish, with an await in between), watch/unwatch
as changes of the projects map, agent reports, and one client that subscribes and then
queries history and tree. A failing query is answered with an empty list
(`QueryFails`), as in the code; the property on catching up speaks of queries that
worked. Files are absolute, as in the watcher's events; a tree node made by the scan
is named relative to the project (`<<"scan", f>>`), one made by an event absolutely.
`Owner` is the project whose directory holds a file, `Prefixed` the keys whose path is
a prefix of the file's as a string, which is what the code looks for; `AgentFiles` are
files that agents report by the name the watcher uses, the only reports that count.
`AttributeCall` and `HistoryCall` are the requests as both the socket and the gRPC
service handle them. `locks` are the subscription manager's: once a subscribe and an
unsubscribe have crossed (`Crosses`), no broadcast is made and no subscription answered.
A rename is reported as two modifications; that notify on Linux reports the pair a third
time is left out, which of a modification means one more row and notification.

### AnalysisPipeline
One task per `schedule_analysis`, at one of the awaits of `analyze_file` (tier 1) or
`do_analyze` (tier 2); `permitQ` is the semaphore with its queue. A content is the
sequence of its lines and stands for its hash; an analysis has the hash of its event,
the counts of the content read first and the imports of the content read for the LLM.
`disturbed` is history: tasks of a file overlapped, or a read or write failed, or a
prune took the entry.

### AgentTracker, Awareness
`tracked` and `refs` are the two locked maps; a report and a prune are two actions
each, one per lock (`Reports`/`Counts`, `PruneCollects`/`PruneResets`). A prune reads the
clock twice, so it may remove an agent it did not classify as stale. Awareness adds
one `query_awareness` in four reads, and events that are stamped, stored and told of
at separate times. `lost` and `raced` are history.

### Storage
The tables there are, who is at which statement of `EventStore::new`, `ensure_schema`,
`insert_batch` or a prune, and the committed rows; any process may end between two
statements.

### TreeState
A tree maps paths to a node: directory or not, and the names of its children in their
order (`SortsBefore`: directories first, then lower-cased names). A scan
(`ScansEntry`, `ScanEnds`) adds the visible entries of `disk` one by one, depth first,
to the depth and entry limits, leaving out ignored names and links, before anybody else
has the tree (`scanning`); `Created`, `Deleted`, `Renamed` are `apply_event`
and `apply_rename` with their patches; `replica` is a client that replays them.

### FsWatcher
`watched` is the struct's list, `registered` the roots its notify watcher has a watch of
and `observed` the files in the directories it watches. A root may be deleted or moved
away (`RootGoes`) and made again (`RootComes`), which drops watches and leaves the list; a
recursive registration may fail half-way (`WatchHalfDone`), which leaves watches without
an entry; a start may fail (`StartFails`), or make a new watcher and keep the old list.
Changes wait in `reports` and the callback looks at the disk when it runs. `missed` is
history: files that changed while nobody observed them, or whose report went with its
watcher. There is no debouncing: `debounce_ms` is stored and never read. The daemon builds
its watcher without attributor and hashes; the module has the watcher with both. Left
out: what a watch that followed a moved root reports of the new place under the old path.

### Sync
Each machine pulls from the other: history by whole seconds, the queue that must hold
it all (`Cap`) before anyone reads it, the bridge to the live channel, duplicates by
`event_exists`, the batch at the end, `last_sync`. Rows lose the fraction of their second
and their label on the wire (`Converted`). `sent` is what the peer sent to the sync under
way, of its history and live; `acknowledged` what it sent to syncs that ended without an
error; `gap` what it announced between the query and the subscription.

### Gateway
`connections` is the routing table, relay streams name their machine with their first
event; reaping looks at last_seen, a stream's end unregisters whoever it named. `heard`
and `ended` are history: when a registered machine last registered or sent, and whose
name a stream had that ended since.

### ClientTransports
One connection with the daemon's task at the other end and one of three transports at
this one. Rust and Node match ids; Python takes the next line while it holds its lock.
A Rust call is registered (`RustCalls`) before it is written (`RustWrites`), and the reader
drains the pending map when it ends, perhaps between the two; its caller may drop it
while its line goes out, and the next line then runs on from the `torn` one and is
answered without an id (`garbled`). Node has a timeout; Python's caller may be cancelled.
The daemon may fall `silent`: a handler waits for ever, and its task with it.

### DaemonProcess
Each `ambient-fsd start` is a process going through check, fork, check, emptying and
writing the PID file, redirection, bind, loop, removal of the PID file and end, beside
its signal thread, `stop`, crashes and failures at each point. An empty PID file (`Blank`)
is one on which `prepare_start` refuses. Process ids are not used again.

### TauriPlugin
Where the connection loop is, the two mutexes, and subscribe/unsubscribe commands
between their locks; a call of a command may fail, and the daemon then still serves what
it was to end.

## 3. Runs

Passing:

| run | what it shows |
|---|---|
| SubscriptionsAnyClient | with an undisciplined client and one that may stop reading: types, channel iff counted, order and at-most-once, loss only by lag; while a client reads its broadcasts are passed and dropped channels noticed; hang-ups are noticed |
| SubscriptionsDisciplined | subscribers stay attached, counts cover receivers, PubSub is implemented with two subscriptions on one connection, and serves whoever keeps reading |
| SubscriptionLocks | calls are atomic; only the crossing of lock orders blocks a call |
| RegistrySafe | with two clients: no listed project without a watcher, except while a request mends it; watchers, projects and table agree on each project nothing raced or strayed on; restore settles |
| EventLoopSafe | catch-up is complete; patches rebuild the tree; what was seen is stored, unchanged |
| EventLoopLive | every event is handled, unless the daemon stops or the subscription locks are crossed |
| Knowledge | the cache follows undisturbed files, permits are served; listed files are counted; awareness answers are consistent; a recorded version has its tables, accepted events stay; calls get their own answers and end |
| Processes | trees are well formed and ordered, patches can be replayed; the last hash is current; clean syncs are complete; active machines are routed; one daemon; the plugin resubscribes |

Runs that end in a counterexample, each a disagreement between the code and what a
comment or document says of it (quoted under `findings` in `PROJECT.json`):

| run | behaviour found |
|---|---|
| SubscriptionLocksCross | subscribe and unsubscribe deadlock |
| RegistryRaces | a watch and an unwatch of one project cross: a watcher stays without a project |
| SyncGap | what is announced between the query and the subscription of a sync is never asked for again |
| PluginReconnects | the plugin's loop locks the mutex it holds when the daemon closes the connection, and never connects again |

The two combined runs, Knowledge and Processes, hold parts that share no variable. `part`,
chosen in the initial state, says which of them moves while the others keep their initial
values: the states are the sum, not the product, of what separate runs would have, and a
property of one part is checked exactly as alone.

The models also contain behaviour that is visible in them and that no run is spent on,
because the code plainly does it:

- a connection that ends leaves its counts, so its channel is never dropped (`TaskEnds`);
  an unsubscribe without a subscription takes the channel from another client
  (`UnsubscribeShared`, the reason for `Undisciplined`);
- two clients that watch directories of one name may leave the wrong watcher
  (`AddsWatcher`); an unwatch and a watch in quick succession may lose the row, as the
  two detached writes run in any order (`jobs`), even when one client makes both and
  waits for each answer; a directory watched in place of another of its name does not
  get its row (`Inserted`); a restored project stays on the daemon's
  own watcher after unwatch (`main`); a project watched over the socket gets a watcher
  whose receiver is dropped, and no tree, until a restart;
- an event in `/w/app2` may be given to the project at `/w/app` (`Remaps`); an agent that
  is done before the loop gets to its event, or names the file relative to the project,
  loses the event to the user (`Attributes`); events name files absolutely where a scan
  named them relatively, so the tree of a restored project grows second branches
  (`TreeAfter`);
- the daemon's events carry no content hash, so its pipeline analyses none of them
  (`Schedules`); overlapping analyses of one file put in any order (`disturbed`); a file
  whose tier 1 entry is fresh never gets its tier 2 again (`ChecksFresh`); a prune
  empties the whole cache (`PruneAnalysis`); awareness reads a file beside the one the
  pipeline writes, and finds no analysis (`ReadsAnalysis`);
- a count made between the two locks of a prune is lost (`lost`); nothing in the daemon
  calls `prune_stale`;
- whoever first opens a database decides which form of `projects` it has (`Storage`,
  `OpensStore`): after migrations alone, the store's project calls fail;
- a rename onto an existing node loses a node without a patch (`clobbered`); a start with
  paths listed leaves them unwatched and refuses to watch them (`Start`, `WatchRefused`), as
  does a root that went and came back (`RootGoes`); a registration that failed half-way
  sends events of a path that is not listed (`WatchHalfDone`);
- a history longer than the queue blocks sync_events for ever (`Replayed`), a live
  stream does not end of itself (`BridgeEnds`), of two events of a file in one second
  one is taken for the other (`SameEvent`), and rows are relabelled on arrival, so
  that "Dedup: skip events from local machine" (`sync.rs`) skips nothing;
- the gateway's register drops the receiver it should forward to (`Registers`), and the
  late end of a stream takes the route of the machine it named, which may have
  registered again (`RelayEnds`);
- after a Python call lets go before its line came, each later one returns the answer
  of the one before (`slipped`); a Rust call has no timeout and waits for ever on a daemon
  that fell silent, when nobody listens to notifications, or behind a torn line
  (`LeftWaiting`);
- a `stop` before the signal thread has registered kills the daemon and leaves its PID
  file (`Stops`); two starts at once may both serve (`contended`); a crash that leaves the
  PID file empty makes later starts refuse (`Refused`); a process that has removed its
  file may still be there beside a new one (`RemovesPid`).

### Bounds, and why they are enough

- *Subscriptions*: two connections are what sharing a count needs; one of them may
  let its socket fill up, so that one that stops reading is beside one that reads.
  With a ring of one and two broadcasts (`Capacity`, `MaxPublished`) a receiver lags,
  recovers, and drains a dropped channel; `MaxCount` 2 admits a double subscription by
  one client or one each. Safety for every size is proved (section 5). Projects share no
  state but the polling pass: the disciplined run has two, one busy and one that never
  has a message (`IdleAndBusy`), which is the case in which a pass that stops at the
  first subscription starves the other.
- *SubscriptionLocks*: two connections, two projects and the publisher: a crossing
  needs one subscriber, one unsubscriber, and a broadcast to be caught behind them.
- *ProjectRegistry*: two connections give every crossing of two requests, and two
  `Slots` let a delete and an insert of one project be pending together. RegistrySafe
  has two projects, whose requests and writes mix, one with a directory that comes and
  goes; RegistryRaces two directories of one name.
- *EventLoop*: two events is the least for an order and a burst; one project with two
  files gives renames. The liveness run has one file, an agent, and a client that only
  subscribes (`Queries = {}`): what a client is answered cannot delay the loop.
- *Knowledge*: one file and two tasks under one permit give every overlap and a wait;
  two contents tell an old entry from a new one. Two agents and two connections are
  what a claim on a stale agent's file needs; beside a query, whose four reads must be
  interleaved with everything, one connection reports one agent (`OneReporter`), and two
  events are the least that can be stored out of the order of their stamps. Two pruners
  and one writer are a daemon, the command line and a store in use. Two calls and two
  notifications around one place give every order of lines: a late answer before a new
  one, a torn line before a whole one, a drain beside a registration.
- *Processes*: two disks, one with an ignored name, a long path and nested directories,
  one with a link; paths up to three names; one root that goes and comes with two files,
  two reports under way, contents that are hashed, too large and gone. Two machines, two
  events of one file in one second or two, and a queue of two: a history of both fits and
  one of more does not; they pull in turn (`OnePull`): what one stores and publishes still
  meets the other's later pull at any point of it. The filtered file has one content
  (`FewContents`). Two relays and three ticks around one of silence give every order
  of registering, sending, ending and reaping; three starts are one that crashed and two
  that meet; two projects and two commands.
- *SyncGap*: the instance of Processes. *PluginReconnects*: its plugin with one command.

Symmetry is used in the registry runs: neither clients nor slots are told apart by any
definition, and the one temporal property there, `RestoreSettles`, speaks of single steps.
Deadlock is checked except where the system may stop: in the SubscriptionLocks runs the
crossing stops every task, which is the finding, and in the Subscriptions runs every task
may be stuck behind such a crossing while its client waits; in EventLoop the daemon exits
and the number of events is bounded; in Knowledge and Processes a clock, a connection or
a set of processes runs out; in PluginReconnects the plugin's own deadlock is the finding.

### Fairness

`Subscriptions!FairSpec` has weak fairness of `Task(c)` for each connection task: tokio
polls a task whose timer or socket is ready. It promises nothing of a write to a full
socket or of a handler that waits for a lock, which are not enabled. What depends on the
client or on the locks is therefore conditional: `KeepsReading(c)` (it reads again
whenever its socket is full) is the premise of `EventuallyPassed`, `ClosedNoticed` and the
progress in `ServesMembers`, each of which also excepts a connection with a handler that
is `stuck`; `HangUpNoticed` needs no reading, since a write to a peer that is gone fails.
One connection's client or handler is never an excuse for another connection.

`SubscriptionLocks!FairSpec` has weak fairness of `Proceed(t)`: a task whose
lock is granted is woken; locks are served in arrival order, so no strong fairness is
needed. `EventLoop!FairSpec` has weak fairness of the loop: its task is scheduled and
each blocking insert ends. It is not promised the subscription manager's lock: with the
locks crossed `Publishes` and `Announces` are not enabled, and `EventuallyHandled` excepts
exactly that and a daemon that is stopping.

`PipelineFairness` is weak fairness of tier 1 of each task: tokio runs ready tasks and
blocking closures, and the semaphore is a queue. The LLM owes nothing.
`ClientFairness` is weak fairness of the daemon's answering while the connection is open
and it is not `silent`, of a registered call's write, of the client's readers and of the
timeouts of Node and Python; whether anyone listens, leaves, hangs up or falls silent is
not promised, and `CallsSettle` says of which calls that is the end (`LeftWaiting`).

## 4. Properties worth arguing about

- `InOrderOnce`, `LostOnlyToLag`: hold for every client behaviour, including
  re-subscription and a channel dropped and created anew.
- `ServesMembers`, `SubscribersAttached`, `CountCoversReceivers`: hold only because
  clients are disciplined. `ServesMembers` is `PubSub!Spec` under the refinement
  mapping of `Subscriptions` and, for each connection whose client keeps reading and of
  which no handler waits for ever, `PubSub!Serves`: safety and liveness of
  publish/subscribe in one. `Undisciplined = {}` is an assumption on clients that the
  server does not enforce.
- `CallsAreAtomic` and `ReturnsUnlessCrossed`: together they say what the order of lock
  acquisition is good for and what it costs.
- `NoBlindProject`: the order in which watch adds and unwatch removes.
- `WatchersAgree`, `StoreAgrees`: four locks and a detached write per request. They
  hold of each project by itself, whatever the others do, as long as nothing overlapped on
  that project; `raced` and `strayed` name what the code leaves open, and RegistryRaces
  shows that it does (`OneWatcherPerProject`).
- `CatchUpComplete`: subscribe, then query, is safe only because every writer stores
  before it publishes. `SeenIsDurable` is the same order seen from a crash.
- `PatchesRebuildTree`: the trees lock is held until the patch has been broadcast.
- `CacheFollowsEvents`: what may be said of the cache without an order among tasks; the
  history variable `disturbed` names exactly what the code leaves open.
- `WaitersServed`: holds because the permit is released before tier 2.
- `AwarenessConsistent`: an answer has the latest stamp among stored rows, and events are
  told of only after they are stored; a reader cannot be shown less than it was told.
- `RecordedImpliesTables`, `AcceptedKept`: through crashes between any two statements and
  with several processes on the file.
- `LastHashIsCurrent`: no event has the hash of its own moment, and yet the last is right.
- `CleanSyncComplete`: what a sync that ends without an error may claim in spite of
  inexact duplicates and a `last_sync` that jumps to the present: presence is by event,
  and the one loss is named, another event of the same file in the same second. What the
  jump costs is `GapIsAskedAgain`, which SyncGap refutes.
- `ActiveIsRouted`: reaping and other machines' streams against registrations. The late
  end of a stream of the machine's own name does take its route, which is why `ended`
  is excepted.
- `OwnAnswer`, `CallsSettle`: over three transports, with late answers, abandoned calls,
  torn lines and a reader that drains between a call's registration and its write.
- `OneDaemon`: is_running, create, crash and kill, an emptied PID file and a process that
  outlives its own; at most one daemon serves, and it is the one both files lead to.
- `TrackedIsSubscribed`: a copy of a set against commands that change it.

## 5. Proofs

`SubscriptionsProofs` proves for every set of connections and projects, every ring
size and every set of undisciplined clients:

- `TypesHold`: `Spec => []TypeOK`;
- `CountsMatchChannels`: `Spec => []ChannelIffCounted`;
- `OnlyLagLoses`: `Spec => []LostOnlyToLag`;
- `WrittenInOrder`: `Spec => InOrderOnce`.

The inductive invariant is `TypeOK /\ PollsHeld /\ GotBehind /\ LostOnlyToLag`.
`PollsHeld` (what a pass has still to poll, and what is being written, is of a project the
connection has a receiver for) rules out a delivery without one. `GotBehind` (everything
written, and the notification being written after it, lies behind the receiver, and not
beyond the last broadcast made) is why the next number delivered is larger than all
before it, also after a re-subscription, which starts behind everything published.
`LostOnlyToLag` is preserved by `FindLagged` because a cursor moves only to the oldest
retained number, and by `SenderDropped` because the reachable end stays.

`SubscriptionsDiscipline` assumes `Undisciplined = {}` and proves

- `CountsCover`: `Spec => []CountCoversReceivers`;
- `Attached`: `Spec => []SubscribersAttached`.

`CountCoversReceivers` alone is not inductive: nothing in it says that the client who
unsubscribes holds a receiver. The strengthening is `ToldIsHeld` (a receiver is open
exactly for what the client was told, and none is closed): a disciplined client then
gives back one count for one receiver, and the last count can only be its own.
The cardinality facts rest on the library's finite-set theorems; the connections are
assumed finite (`ConnsAssumption`), as a process has finitely many descriptors.

`ImplementsPubSub` is `Undisciplined = {} => (Spec => PS!Spec)`: each of PubSub's cursors is
read off a connection's receiver, open or not; a step moves one cursor, ends all of a
connection's, or broadcasts. It needs `ToldIsHeld` too, since PubSub lets only members
read. It is the safety half of the property `ServesMembers`; the other half is fairness.

`SubscriptionLocksProofs` proves `LocksMakeCallsAtomic`: `Spec => CallsAreAtomic`, that is,
SubscriptionLocks implements SubscriptionManager. The invariant (`LockInv`: the types,
`CountsHeld`, `ProjectsHeld`) says who holds which lock at which place of a call. Nobody
asks for the counts lock but to write it, and an unsubscribe that has removed a count
keeps it until the channel is gone: two removals cannot be under way at once, so at most
one project is shown with a count it no longer has.

`EventLoopProofs` proves, for any files, directories, bursts and bounds:

- `Types`: `Spec => []TypeOK`;
- `SeenIsStored`: `Spec => []SeenIsDurable`. What is added to it (`DurableInv`) is that an
  event about to be announced is stored already: the one in the loop's hand from its
  fourth step on, and that of every attribute request;
- `CatchUpMissesNothing`: `Spec => []CatchUpComplete`. A stored event is in the client's
  answer, or broadcast since it subscribed, or on its way to the broadcast (`CatchUpInv`):
  the third case is why the property holds at every moment and not only when all is quiet;
- `PatchesSuffice`: `Spec => []PatchesRebuildTree`. `PatchInv` compares the last patch heard
  of each node with the tree as announced so far, which differs from the tree by the one
  patch in the loop's hand; of nodes without a patch the client has the daemon's picture.

`ProjectRegistryProofs` proves, without any premise beside the named assumptions, for any
clients, directories, names and number of pending writes:

- `Types`: `Spec => []TypeOK`, and `NoProjectStaysBlind`: `Spec => []NoBlindProject`, through
  crashes, failing writes and the command line. `BlindInv` adds that a daemon lists
  nothing before it restores, and while it restores nothing its own watcher does not have;
- `RestoreIsExact`: `Spec => RestoreSettles`. `RestoreInv`: each row is still to be restored
  and untouched, or map, tree and table say the same of it, or it has strayed;
- `WatchersFollowProjects`: `Spec => []WatchersAgree`. `AloneInv`: a project that has not
  raced is the concern of one request at most, and the place of that request accounts for
  the difference between its entry and its watcher;
- `TableFollowsProjects`: `Spec => []StoreAgrees`. `StoreInv`: of a project that has neither
  raced nor strayed one write at most is pending, and its row is what the daemon has of it
  once that write, or the one the request under way will leave, is done.

`KnowledgeProofs`, for any agents, files, contents, events, permits, writers and pruners:

- `KnowledgeTypes`: `KnowledgeSpec => []KnowledgeTypeOK`;
- `ListedStaysCounted`: `TrackerSpec => []ListedIsCounted`. `ResetsUnlisted`: a file that a
  prune has decided to reset is listed by nobody but agents that reported it since. It
  holds at the first lock of `prune_stale` although the clock is read twice, because what
  is stale at one reading is stale at a later one;
- `AwarenessIsConsistent`: `AwarenessSpec => []AwarenessConsistent`. Added are `ToldIsStored`,
  `AnswerIsNew` (what the four reads have so far is not older than what the client was
  told before it asked) and `AgentIsCounted` (between the third read and the fourth the
  file stays counted unless a report or prune ran, which `raced` remembers), on top of
  the tracker's invariant;
- `VersionMeansTables`: `StorageSpec => []RecordedImpliesTables`, since who is about to
  record the version has seen the tables, and no statement drops one;
- `AcceptedEventsKept`: `StorageSpec => []AcceptedKept`, since a prune's cutoff was computed
  on some day up to now and is never younger than the retention allows;
- `CacheFollows`: `PipelineSpec => []CacheFollowsEvents`. `FilesFollow` follows the only task
  of an undisturbed file through its places; `WaitersQueue` (who is queued waits and is
  there once) is what makes a granted permit's step the task's own.

`TreesProofs`, for any names, order of names, paths, disks, roots, files and contents:

- `TreesTypes`: `TreesSpec => []TreesTypeOK`, the well-formedness of every tree. The work is
  in `AddKeepsForm` and `RemoveKeepsForm`. `AddsBelow`: of a path's ancestors those in the
  tree are an initial segment, so add_node changes one list, that of the last of them,
  and makes the rest. `InsertKeepsOrder`: the positions whose key comes before the new one
  are an initial segment too, because the list is in order, so the binary search has one
  answer and the list stays in order. `Removed`: a list without one element keeps its
  order;
- `ReplayingFollows`: `TreeSpec => []ReplicaFollows`, inductive as it stands;
- `LastHashIsOfTheFile`: `WatcherSpec => []LastHashIsCurrent`, whatever is registered, half
  registered or gone. Not inductive alone, because the callback takes no hash for a
  deletion: `DeletedIsGone` says that when the last report
  of a file on its way is its deletion, nothing on the disk could be hashed.

`ProcessesProofs`, for any machines, calls, processes, topics and bounds:

- `ProcessesTypes`: `ProcessesSpec => []ProcessesTypeOK`;
- `OneDaemonServes`: `ProcessSpec => []OneDaemon`. `OneDaemon` says nothing of a start that has
  passed the check and not yet written. The strengthening is `PidWritten` (a PID in the
  file is that of a process that has written it), `PidStays` (who has written it and lives
  still has it there), `CheckHolds` (who has passed the check and not yet written is alone and the
  file names nobody alive, so its write overwrites nobody) and `SocketStays` (the socket path leads to
  who serves). All but the first are conditional on no two starts having been between
  check and write at once;
- `ActiveStaysRouted`: `GatewaySpec => []ActiveIsRouted`. `Routed` is stronger: whoever was
  heard from, and of whose name no stream ended since it registered, has an entry seen no
  earlier, so reaping by last_seen can only take what has been silent;
- `TrackedStaysSubscribed`: `PluginSpec => []TrackedIsSubscribed`. `PluginInv` follows a
  tracked project through the copy, the rounds of resubscription and the commands;
- `ClientTypes`: `ClientSpec => []ClientTypeOK`; `AnswersAreOwn`: `ClientSpec => []OwnAnswer`. For Rust and Node ids decide; for Python
  `OneUnderWay` is needed: until a call has slipped, one call waits, and the one line or
  request under way is its own;
- `CleanSyncsComplete`: `SyncSpec => []CleanSyncComplete`. `SentIsKept`: what was sent to the
  sync under way is in the inbox, in the batch or in the store, itself or another event of
  its file and second; `AcknowledgedFound` says the same of ended syncs and the store;
  `RowsBorn` and `RowsLabelled` say what rows there can be, so that a row taken for a
  duplicate is one of that file and second (`FoundIsStored`).

With these, every invariant that a passing run checks is a theorem as well, and so are three of the
action and refinement properties in full (`InOrderOnce`, `RestoreSettles`,
`CallsAreAtomic`) and a fourth in its safety half (`ServesMembers`). The theorems assume the
named ASSUMEs of the modules, which TLC evaluates on each instance, and, where it is said
above, `Undisciplined = {}`.

Only model-checked: liveness (`EventuallyPassed`, `HangUpNoticed`, `ClosedNoticed`,
`ReturnsUnlessCrossed`, `EventuallyHandled`, `WaitersServed`, `CallsSettle`, and the
fairness of `ServesMembers`), which needs fairness and ENABLED and is out of the
prover's reach; and the four counterexamples, which are no theorems.

## 6. Plan

Every part of the system that has behaviour of its own is modelled, and every safety
property of a run is proved. What is left, in order of importance:

1. The safety half of the liveness properties, as theorems: that a task of the pipeline
   that waits is in the semaphore's queue, and that the crossing of the two locks is the
   only cycle of waiting (`ReturnsUnlessCrossed` rests on it).
2. What TauriPlugin's and ClientTransports' histories (`refused`, `slipped`) leave open,
   stated as narrower exceptions.
3. A composition of ProjectRegistry and EventLoop: which events of a project that is
   unwatched and watched again reach whom.
4. Sync with two projects of one peer and a third machine.

## 7. Not modelled, and why

- Text: JSON of requests and notifications (`protocol.rs`), prompts and replies of the
  LLM, language tables, glob matching of the path filter and of build patterns (which
  names match is a constant), formatting of relative times, logging.
- Configuration (`config.rs`) and `install-service`, which read or write one file;
  `status`, `events` and `awareness` of the command line, which read the store once.
- Wrappers of one call each: the Python and TypeScript client classes, the plugin's
  query commands, the Rust builder. Three of them do not fit what they call: the Rust
  client's `watch_project` decodes a string where the daemon answers an object, some
  wrappers call methods "watch" and "events" that the daemon does not have, and the
  Python `sync_client` hands a function to what awaits a coroutine. A model in which the
  names of methods are abstracted cannot show this, and a single call does.
- Functions without a caller outside tests: `process_line`, `calculate_pass_rate`,
  `get_by_hash`, `invalidate`.
- SQLite itself: a statement is atomic, a transaction commits or leaves nothing.
- Time is abstracted: the 10 ms of a pass is a choice, not a clock; where the length of
  time matters (staleness, silence, retention, seconds of a timestamp) there is a
  clock with few values.

Never constructed by the daemon, and modelled on their own account: the gRPC server,
SyncManager, the gateway, the attributor and the hashes of the watcher.
