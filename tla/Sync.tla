-------------------------------- MODULE Sync --------------------------------
(***************************************************************************)
(* Cross-machine sync: every machine's SyncManager pulls one project from  *)
(* the other machine's gRPC service, which replays its history and then    *)
(* streams what it publishes.                                              *)
(*                                                                         *)
(* A row of a store is an event under a machine's label; crossing the wire *)
(* it keeps its whole seconds only and takes the label of the machine that *)
(* reads it.  Original times are taken to have a fraction of a second, all *)
(* different.  Stores are sets: a row read twice in one sync, from history *)
(* and from the stream, is inserted twice, which no property tells apart.  *)
(***************************************************************************)
EXTENDS Integers, FiniteSets

CONSTANTS
  Machines,
  SyncEvents,
  Home,     \* Home[e], the machine whose disk it happens on
  PathOf,   \* PathOf[e], the file it is about
  Cap,      \* messages the response channel holds, 32 in the code
  MaxNow    \* bound: seconds

ASSUME SyncAssumption ==
  /\ \E a, b \in Machines : a # b /\ Machines = {a, b}
  /\ Home \in [SyncEvents -> Machines] /\ DOMAIN PathOf = SyncEvents
  /\ Cap \in Nat /\ MaxNow \in Nat

VARIABLES
  now,
  born,         \* the second each event happened in
  store,        \* the rows of each machine's store
  unpublished,  \* rows stored and not yet broadcast
  lastSync,     \* SyncManager.last_sync, for the one peer
  pull,         \* each machine's sync_peer and the peer's sync_events with it
  acknowledged, \* history: rows of the peer sent to a sync that ended Ok
  gap           \* history: rows of its own the peer announced between the query
                \* and the subscription of the last sync that was not dropped

syncVars == <<now, born, store, unpublished, lastSync, pull, acknowledged, gap>>

Unborn == MaxNow + 1
Row == [event: SyncEvents, label: Machines, whole: BOOLEAN]

Peer(p) == CHOOSE m \in Machines : m # p

NoPull == [at |-> "idle", sent |-> {}, inbox |-> {}, batch |-> {}, live |-> FALSE]
Pull == [at: {"idle", "replay", "streaming"}, sent: SUBSET Row, inbox: SUBSET Row,
         batch: SUBSET Row, live: BOOLEAN]

SyncTypeOK ==
  /\ now \in 0..MaxNow /\ born \in [SyncEvents -> 0..Unborn]
  /\ store \in [Machines -> SUBSET Row] /\ unpublished \in [Machines -> SUBSET Row]
  /\ lastSync \in [Machines -> 0..MaxNow]
  /\ pull \in [Machines -> Pull]
  /\ acknowledged \in [Machines -> SUBSET Row] /\ gap \in [Machines -> SUBSET Row]

SyncInit ==
  /\ now = 0 /\ born = [e \in SyncEvents |-> Unborn]
  /\ store = [m \in Machines |-> {}] /\ unpublished = [m \in Machines |-> {}]
  /\ lastSync = [m \in Machines |-> 0]
  /\ pull = [m \in Machines |-> NoPull]
  /\ acknowledged = [m \in Machines |-> {}] /\ gap = [m \in Machines |-> {}]

(* file_event_to_message and message_to_file_event, read on p: whole seconds, *)
(* and p's own machine id.                                                 *)
Converted(row, p) == [event |-> row.event, label |-> p, whole |-> TRUE]

(* event_exists: the same path, time and machine id. *)
SameEvent(r, s) ==
  /\ PathOf[r.event] = PathOf[s.event] /\ r.label = s.label
  /\ r.whole = s.whole
  /\ IF r.whole THEN born[r.event] = born[s.event] ELSE r.event = s.event
Exists(p, row) == \E s \in store[p] : SameEvent(row, s)

(* The query of sync_events: the peer's rows since p's last sync. *)
History(p) == {r \in store[Peer(p)] : born[r.event] >= lastSync[p]}

-----------------------------------------------------------------------------
SecondPasses ==
  /\ now < MaxNow
  /\ now' = now + 1
  /\ UNCHANGED <<born, store, unpublished, lastSync, pull, acknowledged, gap>>

(* The event loop stores an event of its own machine, and will publish it. *)
Happens(e) ==
  LET row == [event |-> e, label |-> Home[e], whole |-> FALSE]
  IN  /\ born[e] = Unborn
      /\ born' = [born EXCEPT ![e] = now]
      /\ store' = [store EXCEPT ![Home[e]] = @ \cup {row}]
      /\ unpublished' = [unpublished EXCEPT ![Home[e]] = @ \cup {row}]
      /\ UNCHANGED <<now, lastSync, pull, acknowledged, gap>>

(* publish_event on m: the bridge of the peer's live sync gets the row; a  *)
(* sync still between its query and its subscription does not.             *)
Publishes(m, row) ==
  LET p == Peer(m)
  IN  /\ row \in unpublished[m]
      /\ unpublished' = [unpublished EXCEPT ![m] = @ \ {row}]
      /\ pull' = IF pull[p].live
                 THEN [pull EXCEPT ![p].inbox = @ \cup {row}, ![p].sent = @ \cup {row}]
                 ELSE pull
      /\ gap' = IF pull[p].at = "replay" /\ row \notin pull[p].sent /\ ~row.whole
                THEN [gap EXCEPT ![p] = @ \cup {row}]
                ELSE gap
      /\ UNCHANGED <<now, born, store, lastSync, acknowledged>>

(* sync_peer connects and calls sync_events, which queries the history. *)
Asks(p) ==
  /\ pull[p].at = "idle"
  /\ pull' = [pull EXCEPT ![p] =
       [NoPull EXCEPT !.at = "replay", !.sent = History(p)]]
  /\ gap' = [gap EXCEPT ![p] = {}]
  /\ UNCHANGED <<now, born, store, unpublished, lastSync, acknowledged>>

(* sync_events queues the history and then subscribes.  The response, and  *)
(* with it the reader of the queue, comes only after: a history longer     *)
(* than the queue waits for ever.                                          *)
Replayed(p) ==
  /\ pull[p].at = "replay" /\ Cardinality(pull[p].sent) <= Cap
  /\ pull' = [pull EXCEPT ![p].at = "streaming", ![p].inbox = pull[p].sent,
                          ![p].live = TRUE]
  /\ UNCHANGED <<now, born, store, unpublished, lastSync, acknowledged, gap>>

(* Seeded fault: a message already in the store ends the sync. *)
StopsAtKnown(p, row) ==
  /\ pull[p].at = "streaming" /\ row \in pull[p].inbox
  /\ pull' = [pull EXCEPT
       ![p].inbox = IF Exists(p, Converted(row, p)) THEN {} ELSE @ \ {row},
       ![p].batch = IF Exists(p, Converted(row, p)) THEN @ ELSE @ \cup {Converted(row, p)}]
  /\ UNCHANGED <<now, born, store, unpublished, lastSync, acknowledged, gap>>

(* The loop of sync_peer takes a message: skipped when it carries our own  *)
(* machine id, which no peer's message does once rows are relabelled, or   *)
(* when its converted form is stored.                                      *)
Reads(p, row) ==
  LET skipped == row.label = p \/ Exists(p, Converted(row, p))
  IN  /\ pull[p].at = "streaming" /\ row \in pull[p].inbox
      /\ pull' = [pull EXCEPT ![p].inbox = @ \ {row},
            ![p].batch = IF skipped THEN @ ELSE @ \cup {Converted(row, p)}]
      /\ UNCHANGED <<now, born, store, unpublished, lastSync, acknowledged, gap>>

(* The bridge ends: its receiver lagged, or the project's channel is gone. *)
BridgeEnds(p) ==
  /\ pull[p].live
  /\ pull' = [pull EXCEPT ![p].live = FALSE]
  /\ UNCHANGED <<now, born, store, unpublished, lastSync, acknowledged, gap>>

(* The stream is over: insert_events stores the batch, to be published in  *)
(* turn, and last_sync becomes the time of this moment.                    *)
Finishes(p) ==
  /\ pull[p].at = "streaming" /\ ~pull[p].live /\ pull[p].inbox = {}
  /\ store' = [store EXCEPT ![p] = @ \cup pull[p].batch]
  /\ unpublished' = [unpublished EXCEPT ![p] = @ \cup pull[p].batch]
  /\ lastSync' = [lastSync EXCEPT ![p] = now]
  /\ acknowledged' = [acknowledged EXCEPT ![p] = @ \cup pull[p].sent]
  /\ pull' = [pull EXCEPT ![p] = NoPull]
  /\ UNCHANGED <<now, born, gap>>

(* Any error, of the connection, the stream or the insert: the batch is    *)
(* lost and last_sync stays.                                               *)
Drops(p) ==
  /\ pull[p].at # "idle"
  /\ pull' = [pull EXCEPT ![p] = NoPull]
  /\ gap' = [gap EXCEPT ![p] = {}]
  /\ UNCHANGED <<now, born, store, unpublished, lastSync, acknowledged>>

SyncNext ==
  \/ SecondPasses
  \/ \E e \in SyncEvents : Happens(e)
  \/ \E m \in Machines : \E row \in unpublished[m] : Publishes(m, row)
  \/ \E p \in Machines :
       \/ Asks(p) \/ Replayed(p) \/ BridgeEnds(p) \/ Finishes(p) \/ Drops(p)
       \/ \E row \in pull[p].inbox : Reads(p, row)

SyncSpec == SyncInit /\ [][SyncNext]_syncVars

-----------------------------------------------------------------------------
(* What the peer sent of history and stream is in the store once the sync  *)
(* has ended without an error and will not be asked for again: skipping    *)
(* duplicates, the batch at the end and the new last_sync lose none of it  *)
(* but for another event of the same file in the same second, which the    *)
(* whole seconds of the wire make one with it.                             *)
CleanSyncComplete ==
  \A p \in Machines : \A row \in acknowledged[p] :
    \/ Converted(row, p) \in store[p]
    \/ \E e \in SyncEvents \ {row.event} :
         /\ PathOf[e] = PathOf[row.event] /\ born[e] = born[row.event]
         /\ [event |-> e, label |-> p, whole |-> TRUE] \in store[p]

(* The comment at grpc.rs:467: events between the query and the            *)
(* subscription could be missed, which the client makes up for by asking   *)
(* from some seconds before.  So the next sync would ask for what fell     *)
(* into the gap of the last.                                               *)
GapIsAskedAgain ==
  \A p \in Machines : pull[p].at = "idle" =>
    \A row \in gap[p] : born[row.event] >= lastSync[p]

=============================================================================
