----------------------------- MODULE Awareness -----------------------------
(***************************************************************************)
(* query_awareness of one file, beside what changes its answer: the event  *)
(* loop and attribute requests, which store an event and then tell         *)
(* subscribers of it, and the agent tracker.                               *)
(*                                                                         *)
(* build_awareness reads the latest stored event, the analysis, the active *)
(* agent and the number of references one after another, each on its own.  *)
(* The analysis it reads is that of analysis.db beside the store; the      *)
(* pipeline writes to the store's own file, so there is never one, and     *)
(* only whether reading it fails is modelled.  Events, agents and the      *)
(* query name the file alike here: the code compares paths as they are.    *)
(***************************************************************************)
EXTENDS AgentTracker

CONSTANTS
  LookedAt,     \* the file asked about
  Occurrences,  \* bound: events of that file
  NoAgent

ASSUME AwarenessAssumption == LookedAt \in AgentFiles /\ NoAgent \notin Agents

VARIABLES
  occurrence,  \* each event: its stamp, and how far its maker is with it
  told,        \* stamp of the newest stored event subscribers were told of
  ask          \* one query_awareness; each starts from what is there

awarenessVars == <<occurrence, told, ask>>

Never == -1
Unmade == [at |-> "unmade", stamp |-> Never]
NoQuery == [at |-> "idle", since |-> Never, last |-> Never, agent |-> NoAgent,
            references |-> 0, raced |-> FALSE]

AwarenessTypeOK ==
  /\ TrackerTypeOK
  /\ occurrence \in [Occurrences ->
       [at: {"unmade", "made", "stored", "failed", "told"}, stamp: Time \cup {Never}]]
  /\ told \in Time \cup {Never}
  /\ ask \in [at: {"idle", "latest", "analysis", "agent", "references", "answered", "null"},
              since: Time \cup {Never}, last: Time \cup {Never}, agent: Agents \cup {NoAgent},
              references: 0..MaxRefs, raced: BOOLEAN]

AwarenessInit ==
  /\ TrackerInit
  /\ occurrence = [o \in Occurrences |-> Unmade]
  /\ told = Never
  /\ ask = NoQuery

Rows == {o \in Occurrences : occurrence[o].at \in {"stored", "told"}}

OccurrenceGoes(o, place) == occurrence' = [occurrence EXCEPT ![o].at = place]

-----------------------------------------------------------------------------
(* The watcher's callback or an attribute request makes an event, stamped  *)
(* at once and stored at some later time.                                  *)
Happens(o) ==
  /\ occurrence[o] = Unmade
  /\ occurrence' = [occurrence EXCEPT ![o] = [at |-> "made", stamp |-> clock]]
  /\ UNCHANGED <<told, ask>>

(* The loop tells of a failed insert all the same, which counts for        *)
(* nothing here.                                                           *)
Stores(o) ==
  /\ occurrence[o].at = "made"
  /\ OccurrenceGoes(o, "stored") \/ OccurrenceGoes(o, "failed")
  /\ UNCHANGED <<told, ask>>

(* publish_event. *)
Tells(o) ==
  /\ occurrence[o].at = "stored"
  /\ OccurrenceGoes(o, "told")
  /\ told' = IF occurrence[o].stamp > told THEN occurrence[o].stamp ELSE told
  /\ UNCHANGED ask

-----------------------------------------------------------------------------
(* Two locks of the tracker are apart while a report or a prune runs.      *)
Racing == Counting(LookedAt) \/ LookedAt \in prune \cup lost

Asks ==
  /\ ask = NoQuery
  /\ ask' = [NoQuery EXCEPT !.at = "latest", !.since = told]
  /\ UNCHANGED <<occurrence, told>>

(* Seeded fault: ORDER BY left out. *)
AnyRow == Rows

(* get_latest: a row with the greatest stamp. *)
Latest == {o \in Rows : \A x \in Rows : occurrence[x].stamp <= occurrence[o].stamp}

(* No event: the answer is null. *)
ReadsLatest ==
  /\ ask.at = "latest"
  /\ \/ \E o \in Latest :
          ask' = [ask EXCEPT !.at = "analysis", !.last = occurrence[o].stamp]
     \/ Latest = {} /\ ask' = [ask EXCEPT !.at = "null"]
  /\ UNCHANGED <<occurrence, told>>

(* No analysis is there; the counts stay 0. *)
ReadsAnalysis ==
  /\ ask.at = "analysis"
  /\ ask' = [ask EXCEPT !.at = "agent"]
  /\ UNCHANGED <<occurrence, told>>

(* An error of the store or of the cache is answered with null too, and    *)
(* the client may ask again.                                               *)
ReadFails ==
  /\ ask.at \in {"latest", "analysis"}
  /\ ask' = NoQuery
  /\ UNCHANGED <<occurrence, told>>

(* get_active_agent: of the agents that are not stale and list the file,   *)
(* one seen last; two seen in the same second are alike.                   *)
Active ==
  LET on == WorkingOn(LookedAt)
      newest == {a \in on : \A b \in on : tracked[b].seen <= tracked[a].seen}
  IN  IF newest = {} THEN {NoAgent} ELSE newest

ReadsAgent ==
  /\ ask.at = "agent"
  /\ \E a \in Active : ask' = [ask EXCEPT !.at = "references", !.agent = a, !.raced = Racing]
  /\ UNCHANGED <<occurrence, told>>

(* get_reference_count, and the answer. *)
ReadsReferences ==
  /\ ask.at = "references"
  /\ ask' = [ask EXCEPT !.at = "answered", !.references = refs[LookedAt],
                        !.raced = @ \/ Racing]
  /\ UNCHANGED <<occurrence, told>>

(* A prune that resets the file between those two readings. *)
TrackerMoves ==
  /\ TrackerNext
  /\ ask' = IF ask.at = "references" THEN [ask EXCEPT !.raced = @ \/ Racing'] ELSE ask
  /\ UNCHANGED <<occurrence, told>>

(* The gRPC query_awareness builds the same answer; it reports a failed    *)
(* read, leaves out the references and looks the active agent up again.    *)
Query == Asks \/ ReadsLatest \/ ReadsAnalysis \/ ReadFails \/ ReadsAgent \/ ReadsReferences

AwarenessNext ==
  \/ TrackerMoves
  \/ UNCHANGED trackerVars /\ (Query \/ \E o \in Occurrences : Happens(o) \/ Stores(o) \/ Tells(o))

AwarenessSpec == AwarenessInit /\ [][AwarenessNext]_<<trackerVars, awarenessVars>>

-----------------------------------------------------------------------------
(* An answer is not older than the newest event its client was told of     *)
(* before it asked, and null only when there was none, in whatever order   *)
(* events are stamped, stored and told of; and it names an active agent    *)
(* only with a reference to the file, unless a report or a prune of the    *)
(* file ran while the two were read.                                       *)
AwarenessConsistent ==
  /\ ask.at \in {"answered", "null"} => ask.since <= ask.last
  /\ ask.at = "answered" /\ ask.agent # NoAgent => ask.references > 0 \/ ask.raced

=============================================================================
