---------------------------- MODULE AgentTracker ----------------------------
(***************************************************************************)
(* The agent tracker, fed by report_agent_activity, read by the event loop *)
(* and by the queries, and pruned by whoever calls prune_stale_agents.     *)
(*                                                                         *)
(* The tracker has two locks, one over the agents and one over the         *)
(* reference counts, and no call holds both: a report first changes the    *)
(* agent's files and then the count of its file, prune_stale first removes *)
(* agents and then resets counts.  last_seen is what the client says.  One *)
(* prune runs at a time.                                                   *)
(***************************************************************************)
EXTENDS Integers

CONSTANTS
  Agents,
  AgentFiles,   \* relative paths; the tracker knows no projects
  Reporters,    \* connection tasks that call the tracker
  Timeout,      \* stale_timeout, 300 s by default
  MaxClock,     \* bound: time
  MaxRefs       \* bound: reports counted of a file

ASSUME ClockAssumption == Timeout \in Nat /\ MaxClock \in Nat /\ MaxRefs \in Nat

VARIABLES
  clock,
  tracked,    \* AgentTracker.agents: files and last_seen, by agent
  refs,       \* AgentTracker.file_references, 0 for no entry
  report,     \* each connection's report, between the two locks
  prune,      \* prune_stale, between the two locks: files to reset
  recounted,  \* history: files counted since that prune_stale collected
  lost        \* history: files a prune reset though they were counted meanwhile

trackerVars == <<clock, tracked, refs, report, prune, recounted, lost>>

Time == 0..MaxClock
Known == DOMAIN tracked
NotPruning == {}

TrackerTypeOK ==
  /\ clock \in Time
  /\ Known \subseteq Agents
  /\ \A a \in Known : tracked[a] \in [files: SUBSET AgentFiles, seen: Time]
  /\ refs \in [AgentFiles -> 0..MaxRefs]
  /\ report \subseteq Reporters \X AgentFiles
  /\ prune \subseteq AgentFiles /\ recounted \subseteq AgentFiles /\ lost \subseteq AgentFiles

TrackerInit ==
  /\ clock = 0
  /\ tracked = <<>>
  /\ refs = [f \in AgentFiles |-> 0]
  /\ report = {} /\ prune = NotPruning /\ recounted = {} /\ lost = {}

Lists(a, f) == a \in Known /\ f \in tracked[a].files
Counting(f) == \E r \in report : r[2] = f

IsStale(a, now) == now - tracked[a].seen > Timeout

(* get_all_agents, and what query_agents answers when asked about a file. *)
Fresh == {a \in Known : ~IsStale(a, clock)}
WorkingOn(f) == {a \in Fresh : Lists(a, f)}

-----------------------------------------------------------------------------
ClockTicks ==
  /\ clock < MaxClock
  /\ clock' = clock + 1
  /\ UNCHANGED <<tracked, refs, report, prune, recounted, lost>>

(* AgentActivity: what it says beside these four is passed on to queries.  *)
Activity == [agent: Agents, file: AgentFiles, ts: Time, done: BOOLEAN]

(* update_from_activity, the first lock: an agent is made on its first     *)
(* report, last_seen becomes the client's timestamp, older or newer, and   *)
(* the file is listed, or with `done` no longer.                           *)
Reports(c, activity) ==
  /\ \A r \in report : r[1] # c
  /\ LET a == activity.agent  f == activity.file
         files == IF a \in Known THEN tracked[a].files ELSE {}
         now == [files |-> IF activity.done THEN files \ {f} ELSE files \cup {f},
                 seen |-> activity.ts]
     IN  /\ tracked' = [x \in Known \cup {a} |-> IF x = a THEN now ELSE tracked[x]]
         /\ report' = report \cup {<<c, f>>}
  /\ UNCHANGED <<clock, refs, prune, recounted, lost>>

(* The second lock: every report counts, `done` or not. *)
Counts(c, f) ==
  /\ <<c, f>> \in report /\ refs[f] < MaxRefs
  /\ refs' = [refs EXCEPT ![f] = @ + 1]
  /\ report' = report \ {<<c, f>>}
  /\ recounted' = IF prune = NotPruning THEN {} ELSE recounted \cup {f}
  /\ lost' = lost \ {f}
  /\ UNCHANGED <<clock, tracked, prune>>

(* Seeded fault: the claim of an agent that is not stale is not looked at. *)
OfAnyStale(stale) == UNION {tracked[a].files : a \in stale}

(* Files to reset: those of stale agents that no fresh one lists. *)
OnlyStale(stale) ==
  (UNION {tracked[a].files : a \in stale}) \ (UNION {tracked[a].files : a \in Known \ stale})

(* prune_stale, the first lock.  The agents are classified and then, at a  *)
(* later reading of the clock, removed.                                    *)
PruneCollects(later) ==
  /\ prune = NotPruning /\ later <= MaxClock
  /\ LET stale == {a \in Known : IsStale(a, clock)}
         gone == {a \in Known : IsStale(a, later)}
     IN  /\ gone # {}
         /\ tracked' = [a \in Known \ gone |-> tracked[a]]
         /\ prune' = OnlyStale(stale)
  /\ clock' = later
  /\ recounted' = {}
  /\ UNCHANGED <<refs, report, lost>>

(* Seeded fault: one reference less, below zero for a file not yet counted. *)
OneReferenceLess ==
  /\ prune # NotPruning
  /\ refs' = [f \in AgentFiles |-> IF f \in prune THEN refs[f] - 1 ELSE refs[f]]
  /\ prune' = NotPruning
  /\ recounted' = {}
  /\ lost' = lost \cup (recounted \cap prune)
  /\ UNCHANGED <<clock, tracked, report>>

(* The second lock.  Files counted since lose that count too. *)
PruneResets ==
  /\ prune # NotPruning
  /\ refs' = [f \in AgentFiles |-> IF f \in prune THEN 0 ELSE refs[f]]
  /\ prune' = NotPruning
  /\ recounted' = {}
  /\ lost' = lost \cup (recounted \cap prune)
  /\ UNCHANGED <<clock, tracked, report>>

TrackerNext ==
  \/ ClockTicks
  \/ \E c \in Reporters, activity \in Activity : activity.ts <= clock /\ Reports(c, activity)
  \/ \E c \in Reporters, f \in AgentFiles : Counts(c, f)
  \/ \E later \in {clock, clock + 1} : PruneCollects(later)
  \/ PruneResets

TrackerSpec == TrackerInit /\ [][TrackerNext]_trackerVars

-----------------------------------------------------------------------------
(* A file some agent is tracked on has a reference, but between the two    *)
(* locks of a report on it, or when it was counted between the two locks   *)
(* of a prune that then reset it.                                          *)
ListedIsCounted ==
  \A f \in AgentFiles : (\E a \in Known : Lists(a, f)) =>
    refs[f] > 0 \/ Counting(f) \/ f \in lost

=============================================================================
