------------------------- MODULE SubscriptionManager -------------------------
(***************************************************************************)
(* The two maps of SubscriptionManager (server/src/subscriptions.rs):      *)
(* Inner.projects, which owns one broadcast channel per project, and       *)
(* Inner.counts, the number of subscriptions taken out on it.  Each call   *)
(* is one step here; SubscriptionLocks shows that the two RwLocks give     *)
(* that atomicity.                                                         *)
(***************************************************************************)
EXTENDS Integers

CONSTANTS
  Projects,   \* project ids, the keys of both maps
  MaxCount    \* bound: subscriptions outstanding on one project

ASSUME MaxCountAssumption == MaxCount \in Nat

VARIABLES
  channel,    \* Inner.projects: the projects that have a broadcast channel
  counts      \* Inner.counts: subscriptions per project, 0 when there is no entry

managerVars == <<channel, counts>>

ManagerTypeOK ==
  /\ channel \subseteq Projects
  /\ counts \in [Projects -> 0 .. MaxCount]

ManagerInit ==
  /\ channel = {}
  /\ counts = [p \in Projects |-> 0]

-----------------------------------------------------------------------------
(* Seeded faults: forms of the calls below that a slip in the code would give. *)

UncountedResubscribe(p) ==
  /\ counts[p] < MaxCount
  /\ channel' = channel \cup {p}
  /\ counts' = IF p \in channel THEN counts ELSE [counts EXCEPT ![p] = @ + 1]

ChannelOutlivesCount(p) ==
  /\ counts' = [counts EXCEPT ![p] = IF @ > 0 THEN @ - 1 ELSE 0]
  /\ UNCHANGED channel

UnguardedDecrement(p) ==
  /\ counts' = [counts EXCEPT ![p] = @ - 1]
  /\ channel' = IF counts[p] = 1 THEN channel \ {p} ELSE channel

DroppedOneTooEarly(p) == counts[p] \in {1, 2}

-----------------------------------------------------------------------------
(* subscribe(): find or create the channel, count the subscription. *)
ManagerSubscribe(p) ==
  /\ counts[p] < MaxCount
  /\ channel' = channel \cup {p}
  /\ counts' = [counts EXCEPT ![p] = @ + 1]

(* The last counted subscription goes away: the channel goes with it. *)
DropsChannel(p) == counts[p] = 1

(* unsubscribe(): nothing happens to a project without an entry. *)
ManagerUnsubscribe(p) ==
  /\ counts' = [counts EXCEPT ![p] = IF @ > 0 THEN @ - 1 ELSE 0]
  /\ channel' = IF DropsChannel(p) THEN channel \ {p} ELSE channel

ManagerNext == \E p \in Projects : ManagerSubscribe(p) \/ ManagerUnsubscribe(p)

ManagerSpec == ManagerInit /\ [][ManagerNext]_managerVars

-----------------------------------------------------------------------------
(* subscribe and unsubscribe keep the two maps in step: a project has a    *)
(* channel exactly while some subscription on it is counted.               *)
ChannelIffCounted == \A p \in Projects : p \in channel <=> counts[p] > 0

=============================================================================
