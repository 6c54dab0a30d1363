---------------------------- MODULE Subscriptions ----------------------------
(***************************************************************************)
(* Live event delivery: the connection tasks of the socket server          *)
(* (handle_connection, socket.rs) around the SubscriptionManager.  The     *)
(* daemon's event loop broadcasts; each connection task polls one          *)
(* tokio broadcast receiver per project it subscribed to and writes what   *)
(* it finds to its client.                                                 *)
(*                                                                         *)
(* A task does nothing else while it writes, and a write waits for as long *)
(* as the socket is full: until the client, which may never do so, reads.  *)
(* It does nothing else while a handler runs either, and a handler may     *)
(* never return: a subscribe and an unsubscribe whose two locks cross      *)
(* (SubscriptionLocks) wait for each other, and everyone who needs the     *)
(* locks waits for them.                                                   *)
(*                                                                         *)
(* The broadcasts of a project are numbered 1, 2, ... in the order they    *)
(* are made.  A channel holds the Capacity most recent ones, so that a     *)
(* receiver is its next number; when the channel is dropped the receiver   *)
(* keeps the number of the last broadcast it can still read.               *)
(***************************************************************************)
EXTENDS SubscriptionManager, FiniteSets

CONSTANTS
  Conns,          \* client connections (a slot is reused by a later connection)
  Undisciplined,  \* those whose client may unsubscribe without a subscription
  Slow,           \* those whose client may let its socket fill up
  Capacity,       \* broadcast::channel(256)
  MaxPublished    \* bound: broadcasts made for each project

ASSUME ConnsAssumption ==
  IsFiniteSet(Conns) /\ Undisciplined \subseteq Conns /\ Slow \subseteq Conns
ASSUME CapacityAssumption == Capacity \in Nat \ {0}
ASSUME MaxPublishedAssumption == MaxPublished \in [Projects -> Nat]

VARIABLES
  published,  \* [Projects -> Nat], broadcasts made so far
  conn,       \* connection task and its peer: free, open, or hungup by the client
  rx,         \* ConnectionState.subscriptions: a receiver for each project
  todo,       \* subscriptions the current pass of the loop has still to poll
  hand,       \* the project whose notification the task is writing, if any
  answering,  \* tasks that are writing the response to a request
  full,       \* connections whose socket takes nothing more until the client reads
  stuck,      \* tasks inside a handler that waits for ever
  told,       \* history: projects the client is subscribed to, by the answers
  got         \* history: broadcasts written to the client, by project

vars == <<channel, counts, published, conn, rx, todo, hand, answering, full, stuck,
          told, got>>

Receiver == [st: {"none", "open", "closed"}, from: Nat, next: Nat, tail: Nat]

NoReceiver == [st |-> "none", from |-> 0, next |-> 0, tail |-> 0]

TypeOK ==
  /\ ManagerTypeOK
  /\ published \in [Projects -> Nat]
  /\ conn \in [Conns -> {"free", "open", "hungup"}]
  /\ rx \in [Conns -> [Projects -> Receiver]]
  /\ todo \in [Conns -> SUBSET Projects]
  /\ hand \in [Conns -> SUBSET Projects]
  /\ answering \subseteq Conns /\ full \subseteq Conns /\ stuck \subseteq Conns
  /\ told \in [Conns -> SUBSET Projects]
  /\ got \in [Conns -> [Projects -> SUBSET Int]]

Init ==
  /\ ManagerInit
  /\ published = [p \in Projects |-> 0]
  /\ conn = [c \in Conns |-> "free"]
  /\ rx = [c \in Conns |-> [p \in Projects |-> NoReceiver]]
  /\ todo = [c \in Conns |-> {}]
  /\ hand = [c \in Conns |-> {}]
  /\ answering = {} /\ full = {} /\ stuck = {}
  /\ told = [c \in Conns |-> {}]
  /\ got = [c \in Conns |-> [p \in Projects |-> {}]]

-----------------------------------------------------------------------------
(* The tokio broadcast receiver. *)

Held(c) == {p \in Projects : rx[c][p].st # "none"}

(* The last broadcast connection c's receiver for p can ever see, so far. *)
End(c, p) == IF rx[c][p].st = "open" THEN published[p] ELSE rx[c][p].tail

(* Unread broadcasts beyond the ring's size have been overwritten. *)
Lags(c, p) == End(c, p) - rx[c][p].next >= Capacity

HasMessage(c, p) == rx[c][p].next <= End(c, p) /\ ~Lags(c, p)

(* Seeded fault: a re-subscription reads the channel from its beginning. *)
ReplayingReceiver(p) ==
  [st |-> "open", from |-> 1, next |-> 1, tail |-> 0]

(* tx.subscribe(): a new receiver starts behind what was already sent. *)
FreshReceiver(p) ==
  [st |-> "open", from |-> published[p] + 1, next |-> published[p] + 1, tail |-> 0]

(* Dropping the sender leaves its receivers what is still in the ring. *)
SenderDropped(r, p) ==
  IF r.st = "open" THEN [r EXCEPT !.st = "closed", !.tail = published[p]] ELSE r

-----------------------------------------------------------------------------
(* The task runs: it is neither in a write nor in a handler for ever. *)
Running(c) == hand[c] = {} /\ c \notin answering /\ c \notin stuck

(* ... and it polls, or has polled all and waits for a request. *)
Polling(c, p) == p \in todo[c] /\ Running(c)
Waiting(c) == conn[c] # "free" /\ todo[c] = {} /\ Running(c)

(* The number of the notification of p that is being written. *)
InHand(c, p) == rx[c][p].next - 1

writeVars == <<hand, answering, full, stuck>>

-----------------------------------------------------------------------------
(* Seeded faults. *)

LagJumpsToTail(c, p) ==
  /\ Polling(c, p) /\ Lags(c, p)
  /\ rx' = [rx EXCEPT ![c][p].next = End(c, p) + 1]
  /\ todo' = [todo EXCEPT ![c] = @ \ {p}]
  /\ UNCHANGED <<channel, counts, published, conn, writeVars, told, got>>

LagLeavesCursor(c, p) ==
  /\ Polling(c, p) /\ Lags(c, p)
  /\ todo' = [todo EXCEPT ![c] = @ \ {p}]
  /\ UNCHANGED <<channel, counts, published, conn, rx, writeVars, told, got>>

PollsFirstOnly(c) ==
  /\ conn[c] = "open" /\ Waiting(c) /\ Held(c) # {}
  /\ todo' = [todo EXCEPT ![c] = {CHOOSE p \in Held(c) : TRUE}]
  /\ UNCHANGED <<channel, counts, published, conn, rx, writeVars, told, got>>

WriteErrorIgnored(c) == conn[c] = "hungup" /\ hand[c] # {} /\ UNCHANGED vars

ClosedIgnored(c, p) ==
  /\ Polling(c, p) /\ rx[c][p].st = "closed" /\ rx[c][p].next > End(c, p)
  /\ todo' = [todo EXCEPT ![c] = @ \ {p}]
  /\ UNCHANGED <<channel, counts, published, conn, rx, writeVars, told, got>>

-----------------------------------------------------------------------------
(* The client connects: SocketServer::run spawns handle_connection. *)
Connect(c) ==
  /\ conn[c] = "free"
  /\ conn' = [conn EXCEPT ![c] = "open"]
  /\ UNCHANGED <<channel, counts, published, rx, todo, writeVars, told, got>>

(* The client goes away; the task has not noticed yet. *)
HangUp(c) ==
  /\ conn[c] = "open"
  /\ conn' = [conn EXCEPT ![c] = "hungup"]
  /\ UNCHANGED <<channel, counts, published, rx, todo, writeVars, told, got>>

(* The client reads what fills its socket. *)
Drains(c) ==
  /\ conn[c] = "open" /\ c \in full
  /\ full' = full \ {c}
  /\ UNCHANGED <<channel, counts, published, conn, rx, todo, hand, answering, stuck,
                 told, got>>

(* The task returns: ConnectionState is dropped with its receivers.  No    *)
(* unsubscribe is made for them.                                           *)
TaskEnds(c) ==
  /\ conn' = [conn EXCEPT ![c] = "free"]
  /\ rx' = [rx EXCEPT ![c] = [p \in Projects |-> NoReceiver]]
  /\ todo' = [todo EXCEPT ![c] = {}]
  /\ hand' = [hand EXCEPT ![c] = {}]
  /\ answering' = answering \ {c}
  /\ full' = full \ {c}
  /\ told' = [told EXCEPT ![c] = {}]
  /\ got' = [got EXCEPT ![c] = [p \in Projects |-> {}]]
  /\ UNCHANGED <<channel, counts, published, stuck>>

(* A handler returns and its response is to be written: t is what the      *)
(* client is subscribed to by what was answered.                           *)
Answers(c, t) ==
  /\ answering' = answering \cup {c}
  /\ told' = [told EXCEPT ![c] = t]
  /\ UNCHANGED <<published, conn, todo, hand, full, stuck, got>>

(* Once two handlers have crossed nobody gets the two locks any more. *)
LocksFree == stuck = {}

(* handle_subscribe: the new receiver replaces one held for the project.   *)
Subscribe(c, p) ==
  /\ Waiting(c) /\ LocksFree
  /\ ManagerSubscribe(p)
  /\ rx' = [rx EXCEPT ![c][p] = FreshReceiver(p)]
  /\ Answers(c, told[c] \cup {p})

MayUnsubscribe(c, p) == p \in told[c] \/ c \in Undisciplined

(* handle_unsubscribe when the shared channel survives. *)
UnsubscribeShared(c, p) ==
  /\ Waiting(c) /\ LocksFree /\ MayUnsubscribe(c, p)
  /\ ~DropsChannel(p)
  /\ ManagerUnsubscribe(p)
  /\ rx' = [rx EXCEPT ![c][p] = NoReceiver]
  /\ Answers(c, told[c] \ {p})

(* handle_unsubscribe that drops the channel, under every connection that  *)
(* still holds a receiver of it.                                           *)
UnsubscribeLast(c, p) ==
  /\ Waiting(c) /\ LocksFree /\ MayUnsubscribe(c, p)
  /\ DropsChannel(p)
  /\ ManagerUnsubscribe(p)
  /\ rx' = [d \in Conns |->
       [rx[d] EXCEPT ![p] = IF d = c THEN NoReceiver ELSE SenderDropped(@, p)]]
  /\ Answers(c, told[c] \ {p})

(* An unsubscribe that is to drop a channel holds one lock and a subscribe *)
(* (of another connection, or of a gRPC stream) the other: neither returns.*)
Crosses(c, p) ==
  /\ Waiting(c) /\ LocksFree /\ MayUnsubscribe(c, p)
  /\ DropsChannel(p)
  /\ stuck' = {c}
  /\ UNCHANGED <<channel, counts, published, conn, rx, todo, hand, answering, full,
                 told, got>>

(* The other handler, and that of any later request, waits behind it. *)
WaitsBehind(c) ==
  /\ Waiting(c) /\ ~LocksFree
  /\ stuck' = stuck \cup {c}
  /\ UNCHANGED <<channel, counts, published, conn, rx, todo, hand, answering, full,
                 told, got>>

(* broadcast(): without a channel the notification reaches nobody. *)
Broadcast(p) ==
  /\ published[p] < MaxPublished[p] /\ LocksFree
  /\ published' = [published EXCEPT ![p] = @ + 1]
  /\ UNCHANGED <<channel, counts, conn, rx, todo, writeVars, told, got>>

-----------------------------------------------------------------------------
(* One try_recv of the pass over conn_state.subscriptions, by outcome. *)

(* Ok: the notification is the task's, and is to be written. *)
Takes(c, p) ==
  /\ Polling(c, p) /\ HasMessage(c, p)
  /\ rx' = [rx EXCEPT ![c][p].next = @ + 1]
  /\ todo' = [todo EXCEPT ![c] = @ \ {p}]
  /\ hand' = [hand EXCEPT ![c] = @ \cup {p}]
  /\ UNCHANGED <<channel, counts, published, conn, answering, full, stuck, told, got>>

FindEmpty(c, p) ==
  /\ Polling(c, p) /\ rx[c][p].st = "open" /\ rx[c][p].next > End(c, p)
  /\ todo' = [todo EXCEPT ![c] = @ \ {p}]
  /\ UNCHANGED <<channel, counts, published, conn, rx, writeVars, told, got>>

(* TryRecvError::Lagged: the receiver moves to the oldest one retained. *)
FindLagged(c, p) ==
  /\ Polling(c, p) /\ Lags(c, p)
  /\ rx' = [rx EXCEPT ![c][p].next = End(c, p) - Capacity + 1]
  /\ todo' = [todo EXCEPT ![c] = @ \ {p}]
  /\ UNCHANGED <<channel, counts, published, conn, writeVars, told, got>>

(* TryRecvError::Closed: forget the receiver and start the pass again. *)
FindClosed(c, p) ==
  /\ Polling(c, p) /\ rx[c][p].st = "closed" /\ rx[c][p].next > End(c, p)
  /\ rx' = [rx EXCEPT ![c][p] = NoReceiver]
  /\ todo' = [todo EXCEPT ![c] = Held(c) \ {p}]
  /\ UNCHANGED <<channel, counts, published, conn, writeVars, told, got>>

Poll(c) ==
  \E p \in Projects :
    Takes(c, p) \/ FindEmpty(c, p) \/ FindLagged(c, p) \/ FindClosed(c, p)

(* write_all of a notification has written it all, and perhaps filled the  *)
(* socket with it.                                                         *)
Deliver(c, p) ==
  /\ p \in hand[c] /\ conn[c] = "open" /\ c \notin full
  /\ got' = [got EXCEPT ![c][p] = @ \cup {InHand(c, p)}]
  /\ hand' = [hand EXCEPT ![c] = @ \ {p}]
  /\ full' \in {full, full \cup ({c} \cap Slow)}
  /\ UNCHANGED <<channel, counts, published, conn, rx, todo, answering, stuck, told>>

(* It fails because the client hung up: the task returns. *)
DeliverFails(c) == conn[c] = "hungup" /\ hand[c] # {} /\ TaskEnds(c)

(* write_response, after which the loop starts its next pass. *)
Responds(c) ==
  /\ c \in answering /\ conn[c] = "open" /\ c \notin full
  /\ answering' = answering \ {c}
  /\ todo' = [todo EXCEPT ![c] = Held(c)]
  /\ full' \in {full, full \cup ({c} \cap Slow)}
  /\ UNCHANGED <<channel, counts, published, conn, rx, hand, stuck, told, got>>

RespondFails(c) == conn[c] = "hungup" /\ c \in answering /\ TaskEnds(c)

Write(c) ==
  \/ \E p \in Projects : Deliver(c, p)
  \/ DeliverFails(c)
  \/ Responds(c)
  \/ RespondFails(c)

(* No request within 10 ms: the next pass begins. *)
Timer(c) ==
  /\ conn[c] = "open" /\ Waiting(c) /\ Held(c) # {}
  /\ todo' = [todo EXCEPT ![c] = Held(c)]
  /\ UNCHANGED <<channel, counts, published, conn, rx, writeVars, told, got>>

(* next_line() reports the end of the stream. *)
Eof(c) == conn[c] = "hungup" /\ Waiting(c) /\ TaskEnds(c)

Client(c) ==
  \/ Connect(c)
  \/ HangUp(c)
  \/ Drains(c)
  \/ WaitsBehind(c)
  \/ \E p \in Projects :
       \/ Subscribe(c, p)
       \/ UnsubscribeShared(c, p)
       \/ UnsubscribeLast(c, p)
       \/ Crosses(c, p)

Task(c) == Poll(c) \/ Write(c) \/ Timer(c) \/ Eof(c)

Next ==
  \/ \E c \in Conns : Client(c) \/ Task(c)
  \/ \E p \in Projects : Broadcast(p)

Spec == Init /\ [][Next]_vars

(* Tokio keeps running a connection task that has something to do.  It has *)
(* nothing to do while its socket is full or its handler waits for a lock. *)
FairSpec == Spec /\ \A c \in Conns : WF_vars(Task(c))

-----------------------------------------------------------------------------
(* What a connection task writes of a project comes after everything it    *)
(* wrote of it before: in the order of the broadcasts and none twice,      *)
(* whatever re-subscriptions, lags and channel replacements lie between.   *)
InOrderOnce ==
  [][\A c \in Conns, p \in Projects :
       Deliver(c, p) => \A m \in got[c][p] : m < InHand(c, p)]_vars

(* What a receiver was there for and has passed over was written to the    *)
(* client, is being written, or is no longer among the Capacity newest:    *)
(* the ring buffer and the Lagged branch lose nothing that was retained.   *)
LostOnlyToLag ==
  \A c \in Conns, p \in Projects :
    rx[c][p].st # "none" =>
      \A n \in rx[c][p].from .. rx[c][p].next - 1 :
        \/ n \in got[c][p]
        \/ p \in hand[c] /\ n = InHand(c, p)
        \/ n <= End(c, p) - Capacity

(* A client that was told it is subscribed and is still connected has a    *)
(* receiver on the project's live channel: it gets what is broadcast next. *)
(* "Subscribers receive events for their project" (subscriptions.rs:44).   *)
SubscribersAttached ==
  \A c \in Conns, p \in Projects :
    conn[c] = "open" /\ p \in told[c] => rx[c][p].st = "open" /\ p \in channel

(* The count of a project never falls below the receivers that live on its *)
(* channel, so that unsubscribe cannot drop a channel in use.              *)
CountCoversReceivers ==
  \A p \in Projects :
    Cardinality({c \in Conns : rx[c][p].st = "open"}) <= counts[p]

(* The client reads again whenever it has let its socket fill up. *)
KeepsReading(c) == []<>(c \notin full)

(* Broadcast n is behind connection c: written, lost to a lag, or given up *)
(* with the receiver.                                                      *)
Passed(c, p, n) ==
  \/ rx[c][p].st = "none"
  \/ rx[c][p].next > n /\ ~(p \in hand[c] /\ n = InHand(c, p))

(* While its client keeps reading, every broadcast a receiver is there for *)
(* is passed by its task in the end, unless a handler of that connection   *)
(* waits for ever.                                                         *)
EventuallyPassed ==
  \A c \in Conns :
    KeepsReading(c) =>
      \A p \in Projects : \A n \in 1 .. MaxPublished[p] :
        (rx[c][p].st # "none" /\ rx[c][p].from <= n /\ n <= End(c, p))
          ~> (Passed(c, p, n) \/ c \in stuck)

(* A client that hung up, its socket full or not, keeps neither its task   *)
(* nor its receivers for ever, unless the task is in a handler that never  *)
(* returns.                                                                *)
HangUpNoticed ==
  \A c \in Conns : conn[c] = "hungup" ~> conn[c] = "free" \/ c \in stuck

(* A receiver whose channel was dropped is noticed and removed, if the     *)
(* client keeps reading and no handler of the connection waits for ever.   *)
ClosedNoticed ==
  \A c \in Conns :
    KeepsReading(c) =>
      \A p \in Projects :
        rx[c][p].st = "closed" ~> rx[c][p].st # "closed" \/ c \in stuck

-----------------------------------------------------------------------------
(* The abstract view: membership is what the client was told, and a        *)
(* member's cursor is the last broadcast its task has read and written.    *)
PS == INSTANCE PubSub WITH
  member <- told,
  cursor <- [c \in Conns |->
              [p \in Projects |->
                IF p \notin told[c] THEN 0
                ELSE IF p \in hand[c] THEN rx[c][p].next - 2
                ELSE rx[c][p].next - 1]]

(* With disciplined clients the connection tasks, the receivers, the ring  *)
(* buffers and the shared counts implement publish/subscribe, and the      *)
(* polling loop serves every project of every member that keeps reading    *)
(* and has no handler that waits for ever.                                 *)
ServesMembers ==
  /\ PS!Spec
  /\ \A c \in Conns :
       KeepsReading(c) /\ []<>(c \notin stuck) => \A p \in Projects : PS!Serves(c, p)

=============================================================================
