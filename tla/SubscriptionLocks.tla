-------------------------- MODULE SubscriptionLocks --------------------------
(***************************************************************************)
(* SubscriptionManager at the grain of its awaits.  Inner.projects and     *)
(* Inner.counts sit behind one tokio RwLock each; a task gives up the CPU  *)
(* whenever it waits for one, and what it holds stays held.                *)
(*                                                                         *)
(* tokio's RwLock is fair: requests are served in arrival order, a reader  *)
(* behind a waiting writer waits too.  A lock is therefore the sequence of *)
(* requests made and not yet released, and a request is granted when it is *)
(* first, or when it and all before it are reads.                          *)
(***************************************************************************)
EXTENDS SubscriptionManager, Sequences, FiniteSets

CONSTANTS
  Conns,          \* connection tasks, which call subscribe
  Unsubscribers,  \* those of them that also call unsubscribe
  Publisher       \* the event loop, which calls broadcast

ASSUME TasksAssumption == Unsubscribers \subseteq Conns /\ Publisher \notin Conns

Tasks == Conns \cup {Publisher}

VARIABLES
  projectsLock,   \* requests on Inner.projects, oldest first
  countsLock,     \* requests on Inner.counts
  pc,             \* where each task is: idle, or what it waits for
  arg             \* the project of the call in progress

vars == <<channel, counts, projectsLock, countsLock, pc, arg>>

Request == [task: Tasks, mode: {"read", "write"}]

Places == {"idle", "subProjects", "subCounts", "unsubCounts", "unsubProjects",
           "castProjects"}

TypeOK ==
  /\ ManagerTypeOK
  /\ projectsLock \in Seq(Request) /\ countsLock \in Seq(Request)
  /\ pc \in [Tasks -> Places]
  /\ arg \in [Tasks -> Projects]

Init ==
  /\ ManagerInit
  /\ projectsLock = <<>> /\ countsLock = <<>>
  /\ pc = [t \in Tasks |-> "idle"]
  /\ arg \in {[t \in Tasks |-> p] : p \in Projects}

-----------------------------------------------------------------------------
(* The fair RwLock. *)

Asks(lock, t, m) == Append(lock, [task |-> t, mode |-> m])

Granted(lock, t) ==
  \E i \in 1 .. Len(lock) :
    /\ lock[i].task = t
    /\ i = 1 \/ \A j \in 1 .. i : lock[j].mode = "read"

(* A task has one request at a lock at most. *)
Released(lock, t) ==
  LET i == CHOOSE j \in 1 .. Len(lock) : lock[j].task = t
  IN  IF \E j \in 1 .. Len(lock) : lock[j].task = t
      THEN SubSeq(lock, 1, i - 1) \o SubSeq(lock, i + 1, Len(lock))
      ELSE lock

Goto(t, place) == pc' = [pc EXCEPT ![t] = place]

-----------------------------------------------------------------------------
(* Seeded faults. *)

CountsReleasedEarly(t) ==
  /\ pc[t] = "unsubCounts" /\ Granted(countsLock, t) /\ DropsChannel(arg[t])
  /\ counts' = [counts EXCEPT ![arg[t]] = 0]
  /\ countsLock' = Released(countsLock, t)
  /\ projectsLock' = Asks(projectsLock, t, "write")
  /\ Goto(t, "unsubProjects")
  /\ UNCHANGED <<channel, arg>>

ProjectsKept(t) ==
  /\ pc[t] = "castProjects" /\ Granted(projectsLock, t)
  /\ Goto(t, "idle")
  /\ UNCHANGED <<channel, counts, projectsLock, countsLock, arg>>

-----------------------------------------------------------------------------
(* subscribe: projects.write().await, then counts.write().await. *)

(* Bound: calls under way on p never take its count beyond MaxCount. *)
Room(p) ==
  counts[p] + Cardinality({t \in Conns :
    pc[t] \in {"subProjects", "subCounts"} /\ arg[t] = p}) < MaxCount

SubscribeCalled(t, p) ==
  /\ pc[t] = "idle" /\ Room(p)
  /\ arg' = [arg EXCEPT ![t] = p]
  /\ projectsLock' = Asks(projectsLock, t, "write")
  /\ Goto(t, "subProjects")
  /\ UNCHANGED <<channel, counts, countsLock>>

SubscribeHasProjects(t) ==
  /\ pc[t] = "subProjects" /\ Granted(projectsLock, t)
  /\ countsLock' = Asks(countsLock, t, "write")
  /\ Goto(t, "subCounts")
  /\ UNCHANGED <<channel, counts, projectsLock, arg>>

(* No await follows: both maps change and both guards are dropped at once. *)
SubscribeHasBoth(t) ==
  /\ pc[t] = "subCounts" /\ Granted(countsLock, t)
  /\ ManagerSubscribe(arg[t])
  /\ projectsLock' = Released(projectsLock, t)
  /\ countsLock' = Released(countsLock, t)
  /\ Goto(t, "idle")
  /\ UNCHANGED arg

(* unsubscribe: counts.write().await, and only for the last subscription   *)
(* projects.write().await, with counts still held.                         *)

UnsubscribeCalled(t, p) ==
  /\ pc[t] = "idle"
  /\ arg' = [arg EXCEPT ![t] = p]
  /\ countsLock' = Asks(countsLock, t, "write")
  /\ Goto(t, "unsubCounts")
  /\ UNCHANGED <<channel, counts, projectsLock>>

UnsubscribeKeepsChannel(t) ==
  /\ pc[t] = "unsubCounts" /\ Granted(countsLock, t) /\ ~DropsChannel(arg[t])
  /\ ManagerUnsubscribe(arg[t])
  /\ countsLock' = Released(countsLock, t)
  /\ Goto(t, "idle")
  /\ UNCHANGED <<projectsLock, arg>>

UnsubscribeRemovesCount(t) ==
  /\ pc[t] = "unsubCounts" /\ Granted(countsLock, t) /\ DropsChannel(arg[t])
  /\ counts' = [counts EXCEPT ![arg[t]] = 0]
  /\ projectsLock' = Asks(projectsLock, t, "write")
  /\ Goto(t, "unsubProjects")
  /\ UNCHANGED <<channel, countsLock, arg>>

UnsubscribeRemovesChannel(t) ==
  /\ pc[t] = "unsubProjects" /\ Granted(projectsLock, t)
  /\ channel' = channel \ {arg[t]}
  /\ projectsLock' = Released(projectsLock, t)
  /\ countsLock' = Released(countsLock, t)
  /\ Goto(t, "idle")
  /\ UNCHANGED <<counts, arg>>

(* broadcast: projects.read().await around the send. *)

BroadcastCalled(p) ==
  /\ pc[Publisher] = "idle"
  /\ arg' = [arg EXCEPT ![Publisher] = p]
  /\ projectsLock' = Asks(projectsLock, Publisher, "read")
  /\ Goto(Publisher, "castProjects")
  /\ UNCHANGED <<channel, counts, countsLock>>

BroadcastSends(t) ==
  /\ pc[t] = "castProjects" /\ Granted(projectsLock, t)
  /\ projectsLock' = Released(projectsLock, t)
  /\ Goto(t, "idle")
  /\ UNCHANGED <<channel, counts, countsLock, arg>>

(* What a task does once its call is under way. *)
Proceed(t) ==
  \/ SubscribeHasProjects(t)
  \/ SubscribeHasBoth(t)
  \/ UnsubscribeKeepsChannel(t)
  \/ UnsubscribeRemovesCount(t)
  \/ UnsubscribeRemovesChannel(t)
  \/ BroadcastSends(t)

Next ==
  \/ \E p \in Projects :
       \/ BroadcastCalled(p)
       \/ \E t \in Conns : SubscribeCalled(t, p)
       \/ \E t \in Unsubscribers : UnsubscribeCalled(t, p)
  \/ \E t \in Tasks : Proceed(t)

Spec == Init /\ [][Next]_vars

(* Tokio polls a task whose lock request has been granted. *)
FairSpec == Spec /\ \A t \in Tasks : WF_vars(Proceed(t))

-----------------------------------------------------------------------------
(* The calls are atomic to one another: seen from outside the locks, the   *)
(* two maps change as in SubscriptionManager.  A count removed under the   *)
(* counts lock is not gone before the channel is.                          *)
Removing(p) == \E t \in Conns : pc[t] = "unsubProjects" /\ arg[t] = p

Atomic == INSTANCE SubscriptionManager WITH
  counts <- [p \in Projects |-> IF Removing(p) THEN 1 ELSE counts[p]]

CallsAreAtomic == Atomic!ManagerSpec

(* subscribe holds projects and waits for counts while unsubscribe holds   *)
(* counts and waits for projects.                                          *)
Crossed ==
  \E a, b \in Conns : pc[a] = "subCounts" /\ pc[b] = "unsubProjects"

(* The crossing of the two lock orders is the only thing that can keep a   *)
(* call from returning: without it every subscribe, unsubscribe and        *)
(* broadcast gets its locks, in turn.                                      *)
ReturnsUnlessCrossed ==
  \A t \in Tasks : pc[t] # "idle" ~> (pc[t] = "idle" \/ Crossed)

(* handle_unsubscribe answers its request: "Returns: true"                 *)
(* (socket.rs:533).                                                        *)
UnsubscribeReturns ==
  \A t \in Unsubscribers :
    pc[t] \in {"unsubCounts", "unsubProjects"} ~> pc[t] = "idle"

=============================================================================
