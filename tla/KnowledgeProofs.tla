-------------------------- MODULE KnowledgeProofs --------------------------
(***************************************************************************)
(* What the daemon knows beyond events, for any agents, files, tasks and   *)
(* processes: the agent tracker, the awareness query above it, the SQLite  *)
(* file and the analysis pipeline.                                         *)
(***************************************************************************)
EXTENDS MCKnowledge, FiniteSetTheorems, SequenceTheorems, TLAPS

-----------------------------------------------------------------------------
(* The agent tracker. *)

(* The clock, last_seen and the counts are numbers. *)
LEMMA TrackerNumbers ==
  ASSUME TrackerTypeOK
  PROVE  /\ clock \in Nat
         /\ refs \in [AgentFiles -> Nat]
         /\ \A a \in Known : tracked[a].seen \in Int /\ tracked[a].files \subseteq AgentFiles
  BY ClockAssumption DEF TrackerTypeOK, Time

(* What a prune will reset is listed by nobody but who reported it since. *)
ResetsUnlisted ==
  \A f \in prune : (\E a \in Known : Lists(a, f)) => Counting(f) \/ f \in recounted

TrackerInv == TrackerTypeOK /\ ResetsUnlisted /\ ListedIsCounted

(* AgentTracker::new: no agents, no references. *)
LEMMA TrackerInitially == TrackerInit => TrackerInv
<1> SUFFICES ASSUME TrackerInit PROVE TrackerInv
  OBVIOUS
<1>1. Known = {}
  BY DEF TrackerInit, Known
<1>2. TrackerTypeOK
  BY <1>1, ClockAssumption DEF TrackerInit, TrackerTypeOK, NotPruning, Time
<1> QED
  BY <1>1, <1>2 DEF TrackerInit, TrackerInv, ResetsUnlisted, ListedIsCounted, NotPruning

(* update_from_activity changes its own agent, by its own file. *)
LEMMA Reported ==
  ASSUME NEW c \in Reporters, NEW activity \in Activity, Reports(c, activity)
  PROVE  /\ Known' = Known \cup {activity.agent}
         /\ \A a \in Known' : a # activity.agent => tracked'[a] = tracked[a]
         /\ tracked'[activity.agent].seen = activity.ts
         /\ tracked'[activity.agent].files \subseteq
              {activity.file} \cup (IF activity.agent \in Known
                                    THEN tracked[activity.agent].files ELSE {})
         /\ report' = report \cup {<<c, activity.file>>}
  BY DEF Reports, Known

(* No report, prune or tick takes the tracker out of its types. *)
LEMMA TrackerTypesStep == TrackerTypeOK /\ [TrackerNext]_trackerVars => TrackerTypeOK'
<1> SUFFICES ASSUME TrackerTypeOK, [TrackerNext]_trackerVars PROVE TrackerTypeOK'
  OBVIOUS
<1> USE DEF TrackerTypeOK
<1>1. CASE ClockTicks
  BY <1>1, ClockAssumption DEF ClockTicks, Time, Known
<1>2. ASSUME NEW c \in Reporters, NEW activity \in Activity, Reports(c, activity)
      PROVE  TrackerTypeOK'
  <2>1. activity \in [agent: Agents, file: AgentFiles, ts: Time, done: BOOLEAN]
    BY DEF Activity
  <2>2. UNCHANGED <<clock, refs, prune, recounted, lost>>
    BY <1>2 DEF Reports
  <2>3. \A a \in Known' : tracked'[a] \in [files: SUBSET AgentFiles, seen: Time]
    BY <1>2, <2>1 DEF Reports, Known
  <2>4. Known' \subseteq Agents /\ report' \subseteq Reporters \X AgentFiles
    BY <1>2, <2>1, Reported
  <2> QED
    BY <2>2, <2>3, <2>4
<1>3. ASSUME NEW c \in Reporters, NEW f \in AgentFiles, Counts(c, f) PROVE TrackerTypeOK'
  BY <1>3, ClockAssumption DEF Counts, Known, Time
<1>4. ASSUME NEW later \in {clock, clock + 1}, PruneCollects(later) PROVE TrackerTypeOK'
  <2> DEFINE stale == {a \in Known : IsStale(a, clock)}
             gone == {a \in Known : IsStale(a, later)}
  <2>1. clock' \in Time
    BY <1>4, ClockAssumption DEF PruneCollects, Time
  <2>2. tracked' = [a \in Known \ gone |-> tracked[a]] /\ prune' = OnlyStale(stale)
        /\ recounted' = {} /\ UNCHANGED <<refs, report, lost>>
    BY <1>4 DEF PruneCollects
  <2>3. OnlyStale(stale) \subseteq AgentFiles
    BY DEF OnlyStale
  <2> QED
    BY <2>1, <2>2, <2>3 DEF Known
<1>5. CASE PruneResets
  BY <1>5, ClockAssumption DEF PruneResets, NotPruning, Known
<1>6. CASE UNCHANGED trackerVars
  BY <1>6 DEF trackerVars, Known
<1> QED
  BY <1>1, <1>2, <1>3, <1>4, <1>5, <1>6 DEF TrackerNext

(* A report leaves a file it lists uncounted only until its second lock. *)
LEMMA ReportStep ==
  ASSUME TrackerInv, NEW c \in Reporters, NEW activity \in Activity, Reports(c, activity)
  PROVE  ResetsUnlisted' /\ ListedIsCounted'
<1> DEFINE a == activity.agent
           f == activity.file
<1>2. UNCHANGED <<clock, refs, prune, recounted, lost>>
  BY DEF Reports
<1>4. Counting(f)' /\ \A g : Counting(g) => Counting(g)'
  <2>1. <<c, f>>[2] = f /\ <<c, f>> \in report' /\ report \subseteq report'
    BY Reported
  <2> QED
    BY <2>1 DEF Counting
<1>5. \A g : g # f /\ (\E x \in Known' : Lists(x, g)') => \E x \in Known : Lists(x, g)
  BY Reported DEF Lists
<1> QED
  BY <1>2, <1>4, <1>5 DEF TrackerInv, ResetsUnlisted, ListedIsCounted

(* The second lock counts the file, and a prune under way knows of it. *)
LEMMA CountStep ==
  ASSUME TrackerInv, NEW c \in Reporters, NEW f \in AgentFiles, Counts(c, f)
  PROVE  ResetsUnlisted' /\ ListedIsCounted'
<1>1. UNCHANGED <<clock, tracked, prune>> /\ refs' = [refs EXCEPT ![f] = @ + 1]
  BY DEF Counts
<1>3. refs'[f] > 0 /\ \A g \in AgentFiles : refs[g] > 0 => refs'[g] > 0
  BY <1>1, TrackerNumbers DEF TrackerInv
<1>4. \A g : g # f /\ Counting(g) => Counting(g)'
  <2> SUFFICES ASSUME NEW g, g # f, NEW r \in report, r[2] = g PROVE Counting(g)'
    BY DEF Counting
  <2>1. r # <<c, f>>
    OBVIOUS
  <2> QED
    BY <2>1 DEF Counting, Counts
<1>5. \A g : g # f /\ g \in lost => g \in lost'
  BY DEF Counts
<1>6. prune # {} => recounted' = recounted \cup {f}
  BY DEF Counts, NotPruning
<1>7. ResetsUnlisted'
  BY <1>1, <1>4, <1>6 DEF TrackerInv, ResetsUnlisted, Lists, Known
<1>8. ListedIsCounted'
  BY <1>1, <1>3, <1>4, <1>5 DEF TrackerInv, ListedIsCounted, Lists, Known
<1> QED
  BY <1>7, <1>8

(* What is stale at one reading of the clock is stale at a later one. *)
LEMMA StaysStale ==
  ASSUME TrackerTypeOK, NEW a \in Known, NEW later \in Int, later >= clock, IsStale(a, clock)
  PROVE  IsStale(a, later)
  BY ClockAssumption, TrackerNumbers DEF IsStale

(* The first lock of prune_stale: an agent that stays was not stale, and   *)
(* the files it lists are not to be reset.                                 *)
LEMMA CollectStep ==
  ASSUME TrackerInv, NEW later \in {clock, clock + 1}, PruneCollects(later)
  PROVE  ResetsUnlisted' /\ ListedIsCounted'
<1> DEFINE stale == {a \in Known : IsStale(a, clock)}
           gone == {a \in Known : IsStale(a, later)}
<1>1. later \in Nat /\ later >= clock
  BY TrackerNumbers DEF TrackerInv
<1>2. stale \subseteq gone
  BY <1>1, StaysStale DEF TrackerInv
<1>3. /\ clock' = later /\ UNCHANGED <<refs, report, lost>>
      /\ tracked' = [a \in Known \ gone |-> tracked[a]]
      /\ prune' = OnlyStale(stale)
  BY DEF PruneCollects
<1>4. /\ Known' = Known \ gone
      /\ \A a \in Known' : tracked'[a] = tracked[a]
  BY <1>3 DEF Known
<1>6. \A f, a : Lists(a, f)' => Lists(a, f) /\ a \in Known \ stale
  BY <1>2, <1>4 DEF Lists
<1>7. ResetsUnlisted'
  BY <1>3, <1>6 DEF ResetsUnlisted, OnlyStale, Lists
<1>8. ListedIsCounted'
  BY <1>3, <1>6 DEF TrackerInv, ListedIsCounted, Counting, Lists
<1> QED
  BY <1>7, <1>8

(* The second lock of prune_stale. *)
LEMMA ResetStep ==
  ASSUME TrackerInv, PruneResets
  PROVE  ResetsUnlisted' /\ ListedIsCounted'
<1>1. /\ UNCHANGED <<clock, tracked, report>> /\ prune' = {}
      /\ refs' = [f \in AgentFiles |-> IF f \in prune THEN 0 ELSE refs[f]]
      /\ lost' = lost \cup (recounted \cap prune)
  BY DEF PruneResets, NotPruning
<1>3. ResetsUnlisted'
  BY <1>1 DEF ResetsUnlisted
<1>4. ListedIsCounted'
  BY <1>1, TrackerNumbers DEF TrackerInv, ResetsUnlisted, ListedIsCounted, Counting, Lists, Known
<1> QED
  BY <1>3, <1>4

(* Every lock region of the tracker keeps the invariant. *)
LEMMA TrackerStep == TrackerInv /\ [TrackerNext]_trackerVars => TrackerInv'
<1> SUFFICES ASSUME TrackerInv, [TrackerNext]_trackerVars
             PROVE  ResetsUnlisted' /\ ListedIsCounted'
  BY TrackerTypesStep DEF TrackerInv
<1>1. CASE ClockTicks
  BY <1>1 DEF ClockTicks, TrackerInv, ResetsUnlisted, ListedIsCounted, Known, Lists, Counting
<1>2. ASSUME NEW c \in Reporters, NEW activity \in Activity, Reports(c, activity)
      PROVE  ResetsUnlisted' /\ ListedIsCounted'
  BY <1>2, ReportStep
<1>3. ASSUME NEW c \in Reporters, NEW f \in AgentFiles, Counts(c, f)
      PROVE  ResetsUnlisted' /\ ListedIsCounted'
  BY <1>3, CountStep
<1>4. ASSUME NEW later \in {clock, clock + 1}, PruneCollects(later)
      PROVE  ResetsUnlisted' /\ ListedIsCounted'
  BY <1>4, CollectStep
<1>5. CASE PruneResets
  BY <1>5, ResetStep
<1>6. CASE UNCHANGED trackerVars
  BY <1>6 DEF trackerVars, TrackerInv, ResetsUnlisted, ListedIsCounted, Known, Lists, Counting
<1> QED
  BY <1>1, <1>2, <1>3, <1>4, <1>5, <1>6 DEF TrackerNext

(* update_from_activity and prune_stale, each in two locks: a file some    *)
(* agent is tracked on has a reference, but between the two locks of a     *)
(* report on it, or when it was counted between the two of a prune.        *)
THEOREM ListedStaysCounted == TrackerSpec => []ListedIsCounted
<1>1. TrackerInv => ListedIsCounted
  BY DEF TrackerInv
<1> QED
  BY TrackerInitially, TrackerStep, <1>1, PTL DEF TrackerSpec

-----------------------------------------------------------------------------
(* The awareness query. *)

(* ORDER BY timestamp LIMIT 1 finds a row where there is one. *)
LEMMA SomeRowIsLatest ==
  ASSUME AwarenessTypeOK, Rows # {}
  PROVE  Latest # {}
<1> DEFINE T == {MaxClock - occurrence[o].stamp : o \in Rows}
<1>1. \A o \in Rows : MaxClock - occurrence[o].stamp \in Nat /\ occurrence[o].stamp \in Int
  BY ClockAssumption DEF AwarenessTypeOK, Rows, Time, Never
<1>2. T \subseteq Nat /\ T # {}
  BY <1>1
<1> HIDE DEF T
<1>3. PICK x \in T : \A y \in T : ~ (<<y, x>> \in OpToRel(<, Nat))
  BY <1>2, NatLessThanWellFounded, WFMin
<1>4. \A y \in T : ~ (y < x)
  BY <1>2, <1>3 DEF OpToRel
<1>5. PICK o \in Rows : x = MaxClock - occurrence[o].stamp
  BY DEF T
<1>6. ASSUME NEW p \in Rows PROVE occurrence[p].stamp <= occurrence[o].stamp
  <2>1. MaxClock - occurrence[p].stamp \in T
    BY DEF T
  <2>2. ~ (MaxClock - occurrence[p].stamp < MaxClock - occurrence[o].stamp)
    BY <1>4, <1>5, <2>1
  <2> QED
    BY <1>1, <2>2, ClockAssumption
<1> QED
  BY <1>6 DEF Latest

(* Subscribers were told of stored events only; a query reads stamps no    *)
(* older than what its client had been told; and while it reads the agent  *)
(* and the count undisturbed, the count stands.                            *)
ToldIsStored == told = Never \/ \E o \in Rows : told <= occurrence[o].stamp

AnswerIsNew == IF ask.at = "latest" THEN ask.since <= told ELSE ask.since <= ask.last

AgentIsCounted ==
  /\ ask.at = "references" /\ ~ask.raced /\ ask.agent # NoAgent =>
       ~Racing /\ refs[LookedAt] > 0
  /\ ask.at = "answered" /\ ~ask.raced /\ ask.agent # NoAgent => ask.references > 0

AwarenessInv ==
  AwarenessTypeOK /\ TrackerInv /\ ToldIsStored /\ AnswerIsNew /\ AgentIsCounted

(* No event yet, and no query. *)
LEMMA AwarenessInitially == AwarenessInit => AwarenessInv
<1> SUFFICES ASSUME AwarenessInit PROVE AwarenessInv
  OBVIOUS
<1>1. TrackerInv
  BY TrackerInitially DEF AwarenessInit
<1>2. AwarenessTypeOK
  BY <1>1, ClockAssumption DEF AwarenessInit, AwarenessTypeOK, TrackerInv, NoQuery, Unmade, Never
<1> QED
  BY <1>1, <1>2 DEF AwarenessInit, AwarenessInv, ToldIsStored, AnswerIsNew, AgentIsCounted,
                    NoQuery, Never

(* What query_awareness, the event loop and the tracker do keeps the types. *)
LEMMA AwarenessTypesStep ==
  AwarenessTypeOK /\ [AwarenessNext]_<<trackerVars, awarenessVars>> => AwarenessTypeOK'
<1> SUFFICES ASSUME AwarenessTypeOK, [AwarenessNext]_<<trackerVars, awarenessVars>>
             PROVE  AwarenessTypeOK'
  OBVIOUS
<1>0. TrackerTypeOK'
  BY TrackerTypesStep DEF AwarenessTypeOK, AwarenessNext, TrackerMoves
<1> USE DEF AwarenessTypeOK
<1>1. CASE TrackerMoves
  BY <1>0, <1>1 DEF TrackerMoves
<1>2. ASSUME NEW o \in Occurrences, Happens(o) \/ Stores(o) \/ Tells(o), UNCHANGED trackerVars
      PROVE  AwarenessTypeOK'
  BY <1>0, <1>2 DEF Happens, Stores, Tells, OccurrenceGoes, TrackerTypeOK
<1>3. ASSUME Query, UNCHANGED trackerVars PROVE AwarenessTypeOK'
  <2>1. CASE Asks \/ ReadFails
    <3>1. /\ NoQuery \in [at: {"idle"}, since: {Never}, last: {Never}, agent: {NoAgent},
                           references: 0..MaxRefs, raced: {FALSE}]
          /\ NoQuery.at = "idle"
      BY ClockAssumption DEF NoQuery
    <3>2. CASE Asks
      BY <1>0, <3>1, <3>2 DEF Asks
    <3>3. CASE ReadFails
      BY <1>0, <3>1, <3>3 DEF ReadFails
    <3> QED
      BY <2>1, <3>2, <3>3
  <2>2. CASE ReadsLatest \/ ReadsAnalysis
    BY <1>0, <2>2 DEF ReadsLatest, ReadsAnalysis, Latest, Rows
  <2>3. CASE ReadsAgent
    <3>1. Active \subseteq Agents \cup {NoAgent}
      BY DEF Active, WorkingOn, Fresh, TrackerTypeOK
    <3>2. Racing \in BOOLEAN
      BY DEF Racing, Counting
    <3> QED
      BY <1>0, <2>3, <3>1, <3>2 DEF ReadsAgent
  <2>4. CASE ReadsReferences
    <3>1. Racing \in BOOLEAN
      BY DEF Racing, Counting
    <3> QED
      BY <1>0, <2>4, <3>1, AwarenessAssumption DEF ReadsReferences, TrackerTypeOK
  <2> QED
    BY <1>3, <2>1, <2>2, <2>3, <2>4 DEF Query
<1>4. CASE UNCHANGED <<trackerVars, awarenessVars>>
  BY <1>0, <1>4 DEF awarenessVars
<1> QED
  BY <1>1, <1>2, <1>3, <1>4 DEF AwarenessNext

(* Events are stamped, stored and told of in any order. *)
LEMMA ToldStep ==
  ASSUME AwarenessTypeOK, ToldIsStored, [AwarenessNext]_<<trackerVars, awarenessVars>>
  PROVE  /\ ToldIsStored'
         /\ told \in Int /\ told' \in Int /\ told <= told'
<1>0. /\ told \in Int
      /\ \A o \in Occurrences : occurrence[o].stamp \in Int
  BY ClockAssumption DEF AwarenessTypeOK, Time, Never
<1>1. CASE UNCHANGED <<occurrence, told>>
  BY <1>0, <1>1 DEF ToldIsStored, Rows
<1>2. ASSUME NEW o \in Occurrences, Happens(o) PROVE ToldIsStored' /\ told' = told
  BY <1>2 DEF Happens, ToldIsStored, Rows, AwarenessTypeOK, Unmade
<1>3. ASSUME NEW o \in Occurrences, Stores(o) PROVE ToldIsStored' /\ told' = told
  BY <1>3 DEF Stores, OccurrenceGoes, ToldIsStored, Rows, AwarenessTypeOK
<1>4. ASSUME NEW o \in Occurrences, Tells(o)
      PROVE  ToldIsStored' /\ told' \in Int /\ told <= told'
  <2>1. /\ \A p \in Occurrences : occurrence'[p].stamp = occurrence[p].stamp
        /\ Rows' = Rows /\ o \in Rows
    BY <1>4 DEF Tells, OccurrenceGoes, Rows, AwarenessTypeOK
  <2> QED
    BY <1>0, <1>4, <2>1 DEF Tells, ToldIsStored, Rows
<1>5. \/ UNCHANGED <<occurrence, told>>
      \/ \E o \in Occurrences : Happens(o) \/ Stores(o) \/ Tells(o)
  BY DEF AwarenessNext, awarenessVars, TrackerMoves, Query, Asks, ReadsLatest, ReadsAnalysis,
         ReadFails, ReadsAgent, ReadsReferences
<1>6. told' = told => told' \in Int /\ told <= told'
  BY <1>0
<1> QED
  BY <1>0, <1>1, <1>2, <1>3, <1>4, <1>5, <1>6

(* get_latest reads after its client was told. *)
LEMMA AnswerStep ==
  ASSUME AwarenessTypeOK, ToldIsStored, AnswerIsNew,
         [AwarenessNext]_<<trackerVars, awarenessVars>>
  PROVE  AnswerIsNew'
<1>0. /\ told \in Int /\ told' \in Int /\ told <= told'
      /\ ask.since \in Int /\ ask.last \in Int /\ NoQuery.since = Never /\ NoQuery.last = Never
      /\ NoQuery.at = "idle" /\ Never \in Int
  BY ToldStep, ClockAssumption DEF AwarenessTypeOK, Time, Never, NoQuery
<1>1. CASE UNCHANGED ask
  BY <1>0, <1>1 DEF AnswerIsNew
<1>2. CASE TrackerMoves
  <2>1. UNCHANGED told /\ ask'.at = ask.at /\ ask'.since = ask.since /\ ask'.last = ask.last
    BY <1>2 DEF TrackerMoves, AwarenessTypeOK
  <2> QED
    BY <2>1 DEF AnswerIsNew
<1>3. CASE Asks
  <2>1. ask'.at = "latest" /\ ask'.since = told /\ told' = told
    BY <1>3 DEF Asks, NoQuery
  <2> QED
    BY <1>0, <2>1 DEF AnswerIsNew
<1>4. CASE ReadsLatest
  <2>1. CASE Latest = {}
    <3>1. ask.since <= Never
      BY <1>4, <2>1, SomeRowIsLatest DEF ToldIsStored, AnswerIsNew, ReadsLatest
    <3>2. ask'.at = "null" /\ ask'.since = ask.since /\ ask'.last = ask.last
      BY <1>4, <2>1 DEF ReadsLatest, AwarenessTypeOK
    <3>3. Never <= ask.last
      BY ClockAssumption DEF AwarenessTypeOK, Never, Time
    <3> QED
      BY <1>0, <3>1, <3>2, <3>3 DEF AnswerIsNew
  <2>2. ASSUME NEW o \in Latest, ask' = [ask EXCEPT !.at = "analysis", !.last = occurrence[o].stamp]
        PROVE  AnswerIsNew'
    <3>1. ask'.at = "analysis" /\ ask'.since = ask.since /\ ask'.last = occurrence[o].stamp
      BY <2>2 DEF AwarenessTypeOK
    <3>2. \A x \in Rows : occurrence[x].stamp <= occurrence[o].stamp /\ occurrence[x].stamp \in Int
      BY ClockAssumption DEF Latest, Rows, AwarenessTypeOK, Time, Never
    <3>3. told <= occurrence[o].stamp /\ occurrence[o].stamp \in Int
      BY <1>0, <3>2, ClockAssumption DEF ToldIsStored, AwarenessTypeOK, Latest, Rows, Time, Never
    <3>4. ask.since <= told
      BY <1>4 DEF ReadsLatest, AnswerIsNew
    <3> QED
      BY <1>0, <3>1, <3>3, <3>4 DEF AnswerIsNew
  <2> QED
    BY <1>4, <2>1, <2>2 DEF ReadsLatest
<1>5. CASE ReadFails
  BY <1>0, <1>5 DEF ReadFails, AnswerIsNew
<1>6. CASE ReadsAnalysis \/ ReadsAgent \/ ReadsReferences
  <2>1. /\ ask.at \notin {"latest"} /\ ask'.at # "latest"
        /\ ask'.since = ask.since /\ ask'.last = ask.last
    BY <1>6 DEF ReadsAnalysis, ReadsAgent, ReadsReferences, AwarenessTypeOK
  <2> QED
    BY <2>1 DEF AnswerIsNew
<1> QED
  BY <1>1, <1>2, <1>3, <1>4, <1>5, <1>6
     DEF AwarenessNext, awarenessVars, Query, Happens, Stores, Tells

(* The agent and the count are read under two locks; only a report or a    *)
(* prune of the file can come between.                                     *)
LEMMA AgentStep ==
  ASSUME AwarenessTypeOK, TrackerInv, AgentIsCounted,
         [AwarenessNext]_<<trackerVars, awarenessVars>>
  PROVE  AgentIsCounted'
<1>1. CASE UNCHANGED <<trackerVars, ask>>
  BY <1>1 DEF AgentIsCounted, trackerVars, Racing, Counting
<1>2. CASE TrackerMoves
  <2>1. CASE ask.at # "references"
    BY <1>2, <2>1 DEF TrackerMoves, AgentIsCounted
  <2>2. ASSUME ask.at = "references", ~ask'.raced, ask'.agent # NoAgent
        PROVE  ~Racing' /\ refs'[LookedAt] > 0
    <3>1. ask' = [ask EXCEPT !.raced = @ \/ Racing']
      BY <1>2, <2>2 DEF TrackerMoves
    <3>2. ~ask.raced /\ ~Racing' /\ ask.agent # NoAgent
      BY <2>2, <3>1 DEF AwarenessTypeOK
    <3>3. ~Racing /\ refs[LookedAt] > 0
      BY <2>2, <3>2 DEF AgentIsCounted
    <3>4. refs'[LookedAt] = refs[LookedAt] \/ refs'[LookedAt] = refs[LookedAt] + 1
      BY <1>2, <3>3, AwarenessAssumption, TrackerNumbers
         DEF TrackerMoves, TrackerNext, ClockTicks, Reports, Counts, PruneCollects, PruneResets,
             Racing, TrackerInv
    <3>5. refs[LookedAt] \in Nat
      BY AwarenessAssumption, TrackerNumbers DEF TrackerInv
    <3> QED
      BY <3>2, <3>3, <3>4, <3>5
  <2>3. ask.at = "references" => ask'.at = "references"
    BY <1>2 DEF TrackerMoves, AwarenessTypeOK
  <2> QED
    BY <2>1, <2>2, <2>3 DEF AgentIsCounted
<1>3. CASE ReadsAgent /\ UNCHANGED trackerVars
  <2>1. PICK a \in Active : ask' = [ask EXCEPT !.at = "references", !.agent = a, !.raced = Racing]
    BY <1>3 DEF ReadsAgent
  <2>2. ask'.at = "references" /\ ask'.agent = a /\ ask'.raced = Racing
    BY <2>1 DEF AwarenessTypeOK
  <2>3. a # NoAgent => Lists(a, LookedAt) /\ a \in Known
    BY DEF Active, WorkingOn, Fresh
  <2>4. a # NoAgent /\ ~Racing => refs[LookedAt] > 0
    BY <2>3, AwarenessAssumption DEF TrackerInv, ListedIsCounted, Racing
  <2>5. Racing' = Racing /\ refs' = refs
    BY <1>3 DEF trackerVars, Racing, Counting
  <2> QED
    BY <2>2, <2>4, <2>5 DEF AgentIsCounted
<1>4. CASE ReadsReferences /\ UNCHANGED trackerVars
  <2>1. /\ ask.at = "references" /\ ask'.at = "answered" /\ ask'.references = refs[LookedAt]
        /\ ask'.agent = ask.agent /\ ask'.raced = (ask.raced \/ Racing)
    BY <1>4 DEF ReadsReferences, AwarenessTypeOK
  <2> QED
    BY <2>1 DEF AgentIsCounted
<1>5. CASE Asks \/ ReadsLatest \/ ReadsAnalysis \/ ReadFails
  <2>1. ask'.at \notin {"references", "answered"}
    <3>1. CASE Asks
      BY <3>1 DEF Asks, NoQuery
    <3>3. CASE ReadFails
      BY <3>3 DEF ReadFails, NoQuery
    <3>2. CASE ReadsLatest \/ ReadsAnalysis
      BY <3>2 DEF ReadsLatest, ReadsAnalysis, AwarenessTypeOK
    <3> QED
      BY <1>5, <3>1, <3>2, <3>3
  <2> QED
    BY <2>1 DEF AgentIsCounted
<1> QED
  BY <1>1, <1>2, <1>3, <1>4, <1>5
     DEF AwarenessNext, awarenessVars, Query, Happens, Stores, Tells

(* build_awareness reads the latest event, the active agent and the count  *)
(* of references one after another: the answer is not older than what its  *)
(* client had been told, is null only when nothing had been stored, and    *)
(* names an agent only with a reference unless a report or a prune raced.  *)
THEOREM AwarenessIsConsistent == AwarenessSpec => []AwarenessConsistent
<1>1. AwarenessInv /\ [AwarenessNext]_<<trackerVars, awarenessVars>> => AwarenessInv'
  <2> SUFFICES ASSUME AwarenessInv, [AwarenessNext]_<<trackerVars, awarenessVars>>
               PROVE  AwarenessInv'
    OBVIOUS
  <2>1. [TrackerNext]_trackerVars
    BY DEF AwarenessNext, TrackerMoves
  <2>2. TrackerInv'
    BY <2>1, TrackerStep DEF AwarenessInv
  <2> QED
    BY <2>2, AwarenessTypesStep, ToldStep, AnswerStep, AgentStep DEF AwarenessInv
<1>2. AwarenessInv => AwarenessConsistent
  <2> SUFFICES ASSUME AwarenessInv PROVE AwarenessConsistent
    OBVIOUS
  <2>1. ask.at \in {"answered", "null"} => ask.since <= ask.last
    BY DEF AwarenessInv, AnswerIsNew
  <2>2. ask.at = "answered" /\ ask.agent # NoAgent => ask.references > 0 \/ ask.raced
    BY DEF AwarenessInv, AgentIsCounted
  <2> QED
    BY <2>1, <2>2 DEF AwarenessConsistent
<1> QED
  BY AwarenessInitially, <1>1, <1>2, PTL DEF AwarenessSpec

-----------------------------------------------------------------------------
(* The SQLite file. *)

(* Statements of writers, migrations and prunes keep the types. *)
LEMMA StorageTypesInit == StorageInit => StorageTypeOK
  BY DaysAssumption DEF StorageInit, StorageTypeOK, Days

(* Every statement of a writer, a migration or a prune keeps the types. *)
LEMMA StorageTypesStep == StorageTypeOK /\ [StorageNext]_storageVars => StorageTypeOK'
<1> SUFFICES ASSUME StorageTypeOK, [StorageNext]_storageVars PROVE StorageTypeOK'
  OBVIOUS
<1> USE DEF StorageTypeOK
<1>1. ASSUME NEW w \in Writers, WriterStep(w) PROVE StorageTypeOK'
  <2>1. CASE OpensStore(w) \/ StoreIsOpen(w) \/ WriterStops(w)
    BY <2>1 DEF OpensStore, StoreIsOpen, WriterStops, WriterGoes
  <2>2. CASE BatchCommits(w)
    <3>1. writer[w] \in InBatch
      BY <2>2 DEF BatchCommits, Closed, Opening, Open
    <3> QED
      BY <2>2, <3>1 DEF BatchCommits, WriterGoes, InBatch
  <2>3. ASSUME NEW t \in Tables, CreatesTable(w, t) PROVE StorageTypeOK'
    BY <2>3 DEF CreatesTable, Creates
  <2>4. ASSUME NEW e \in Events, Inserts(w, e) PROVE StorageTypeOK'
    BY <2>4 DEF Inserts, WriterGoes
  <2>5. ASSUME NEW e \in Events, BatchInserts(w, e) PROVE StorageTypeOK'
    <3>1. writer[w] \in InBatch
      BY <2>5 DEF BatchInserts, Closed, Opening, Open
    <3> QED
      BY <2>5, <3>1 DEF BatchInserts, InBatch
  <2>6. ASSUME NEW batch \in Batches, BeginsBatch(w, batch) PROVE StorageTypeOK'
    BY <2>6, BatchesAssumption DEF BeginsBatch, WriterGoes, InBatch
  <2> QED
    BY <1>1, <2>1, <2>2, <2>3, <2>4, <2>5, <2>6 DEF WriterStep
<1>2. ASSUME NEW p \in Pruners, PrunerStep(p) PROVE StorageTypeOK'
  <2>1. CASE StartsPrune(p)
    <3>1. day - Retention \in Int
      BY DaysAssumption DEF Days
    <3> QED
      BY <2>1, <3>1 DEF StartsPrune, PrunerGoes, Migrating, Deleting
  <2>2. CASE Migrated(p) \/ Records(p)
    <3>1. pruner[p] \in Migrating
      BY <2>2 DEF Migrated, Records, Resting, Migrating, Deleting
    <3> QED
      BY <2>2, <3>1 DEF Migrated, Records, PrunerGoes, Migrating, Deleting
  <2>3. CASE DeletesEvents(p)
    <3>1. pruner[p] \in Deleting
      BY <2>3 DEF DeletesEvents, Resting, Migrating, Deleting
    <3> QED
      BY <2>3, <3>1 DEF DeletesEvents, PrunerGoes, Deleting
  <2>4. CASE EndsPrune(p) \/ PrunerStops(p)
    BY <2>4 DEF EndsPrune, PrunerStops, PrunerGoes
  <2>5. ASSUME NEW t \in Tables, MigrationCreates(p, t) PROVE StorageTypeOK'
    BY <2>5 DEF MigrationCreates, Creates
  <2> QED
    BY <1>2, <2>1, <2>2, <2>3, <2>4, <2>5 DEF PrunerStep
<1>3. CASE DayPasses
  BY <1>3, DaysAssumption DEF DayPasses, Days
<1>4. CASE UNCHANGED storageVars
  BY <1>4 DEF storageVars
<1> QED
  BY <1>1, <1>2, <1>3, <1>4 DEF StorageNext

(* A pruner that is about to record the version has seen all the tables,   *)
(* and no table is dropped.                                                *)
RecordInv ==
  /\ StorageTypeOK
  /\ RecordedImpliesTables
  /\ \A p \in Pruners : pruner[p].at = "record" => Missing(Tables) = {}

(* No statement drops a table: a schema that is complete stays so. *)
LEMMA TablesStay ==
  ASSUME StorageTypeOK, [StorageNext]_storageVars, Missing(Tables) = {}
  PROVE  Missing(Tables)' = {}
<1>1. TablesOfStore \subseteq Tables
  BY DEF Tables, TablesOfStore
<1>2. \A w \in Writers, t \in Tables : ~CreatesTable(w, t)
  BY <1>1 DEF CreatesTable, Missing
<1>3. \A p \in Pruners, t \in Tables : ~MigrationCreates(p, t)
  BY DEF MigrationCreates
<1>4. UNCHANGED tables
  BY <1>2, <1>3
     DEF StorageNext, WriterStep, PrunerStep, DayPasses, storageVars, OpensStore, StoreIsOpen,
         BatchCommits, WriterStops, Inserts, BatchInserts, BeginsBatch, StartsPrune, Migrated,
         Records, DeletesEvents, EndsPrune, PrunerStops
<1> QED
  BY <1>4 DEF Missing

(* EventStore::new and ensure_schema create the tables, each in its own    *)
(* form; the version is recorded only when all are there, also when a      *)
(* process ends between two statements.                                    *)
THEOREM VersionMeansTables == StorageSpec => []RecordedImpliesTables
<1>1. StorageInit => RecordInv
  BY StorageTypesInit DEF StorageInit, RecordInv, RecordedImpliesTables, Resting
<1>2. RecordInv /\ [StorageNext]_storageVars => RecordInv'
  <2> SUFFICES ASSUME RecordInv, [StorageNext]_storageVars PROVE RecordInv'
    OBVIOUS
  <2>1. StorageTypeOK /\ StorageTypeOK'
    BY StorageTypesStep DEF RecordInv
  <2>2. Missing(Tables) = {} => Missing(Tables)' = {}
    BY <2>1, TablesStay
  <2>3. ASSUME NEW p \in Pruners, PrunerStep(p)
        PROVE  /\ version' = 1 /\ version = 0 => Missing(Tables) = {}
               /\ \A q \in Pruners : pruner'[q].at = "record" => Missing(Tables) = {}
    <3>0. \A q \in Pruners \ {p} : pruner'[q] = pruner[q]
      BY <2>1, <2>3
         DEF PrunerStep, StartsPrune, Migrated, Records, DeletesEvents, EndsPrune, PrunerStops,
             MigrationCreates, PrunerGoes, StorageTypeOK
    <3>1. CASE Records(p)
      <4>1. pruner[p] \in Migrating /\ pruner[p].at = "record"
        BY <2>1, <3>1 DEF Records, StorageTypeOK, Resting, Migrating, Deleting
      <4>2. pruner'[p].at # "record"
        BY <2>1, <3>1, <4>1 DEF Records, PrunerGoes, StorageTypeOK, Migrating, Resting
      <4> QED
        BY <3>0, <4>1, <4>2 DEF RecordInv
    <3>2. CASE Migrated(p)
      BY <3>2 DEF Migrated
    <3>3. CASE StartsPrune(p) \/ DeletesEvents(p) \/ EndsPrune(p) \/ PrunerStops(p)
      <4>1. pruner'[p].at # "record" /\ version' = version
        <5>1. CASE StartsPrune(p)
          BY <2>1, <5>1 DEF StartsPrune, PrunerGoes, StorageTypeOK
        <5>2. CASE DeletesEvents(p)
          <6>1. pruner[p] \in Deleting
            BY <2>1, <5>2 DEF DeletesEvents, StorageTypeOK, Resting, Migrating, Deleting
          <6> QED
            BY <2>1, <5>2, <6>1 DEF DeletesEvents, PrunerGoes, StorageTypeOK, Deleting
        <5>3. CASE EndsPrune(p) \/ PrunerStops(p)
          BY <2>1, <5>3 DEF EndsPrune, PrunerStops, PrunerGoes, StorageTypeOK, Resting
        <5> QED
          BY <3>3, <5>1, <5>2, <5>3
      <4> QED
        BY <3>0, <4>1 DEF RecordInv
    <3>4. CASE \E t \in Tables : MigrationCreates(p, t)
      BY <3>4 DEF MigrationCreates, RecordInv
    <3> QED
      BY <2>3, <3>1, <3>2, <3>3, <3>4 DEF PrunerStep
  <2>4. CASE UNCHANGED <<version, pruner>>
    BY <2>1, <2>2, <2>4 DEF RecordInv, RecordedImpliesTables
  <2>5. \/ UNCHANGED <<version, pruner>>
        \/ \E p \in Pruners : PrunerStep(p)
    BY DEF StorageNext, WriterStep, DayPasses, storageVars, OpensStore, StoreIsOpen,
           BatchCommits, WriterStops, Inserts, BatchInserts, BeginsBatch, CreatesTable
  <2>6. version \in {0, 1} /\ version' \in {0, 1}
    BY <2>1 DEF StorageTypeOK
  <2>7. ASSUME \E p \in Pruners : PrunerStep(p) PROVE RecordInv'
    <3>1. version' = 1 => Missing(Tables)' = {}
      BY <2>2, <2>3, <2>6, <2>7 DEF RecordInv, RecordedImpliesTables
    <3>2. \A q \in Pruners : pruner'[q].at = "record" => Missing(Tables)' = {}
      BY <2>2, <2>3, <2>7
    <3> QED
      BY <2>1, <3>1, <3>2 DEF RecordInv, RecordedImpliesTables
  <2> QED
    BY <2>4, <2>5, <2>7
<1>3. RecordInv => RecordedImpliesTables
  BY DEF RecordInv
<1> QED
  BY <1>1, <1>2, <1>3, PTL DEF StorageSpec

(* A prune took its cutoff on some day up to now. *)
KeepInv ==
  /\ StorageTypeOK
  /\ AcceptedKept
  /\ \A p \in Pruners : pruner[p].at # "resting" => pruner[p].cutoff <= day - Retention

(* insert, insert_batch and prune_events_before by writers and pruners of  *)
(* several processes: an event whose insert returned Ok stays while it is  *)
(* not older than the retention, and of a batch that did not commit        *)
(* nothing is there.                                                       *)
THEOREM AcceptedEventsKept == StorageSpec => []AcceptedKept
<1>1. StorageInit => KeepInv
  BY StorageTypesInit DEF StorageInit, KeepInv, AcceptedKept, Resting
<1>2. KeepInv /\ [StorageNext]_storageVars => KeepInv'
  <2> SUFFICES ASSUME KeepInv, [StorageNext]_storageVars PROVE KeepInv'
    OBVIOUS
  <2>1. StorageTypeOK /\ StorageTypeOK'
    BY StorageTypesStep DEF KeepInv
  <2>2. day \in Int /\ Retention \in Int /\ \A e \in Events : Stamp[e] \in Int
    BY <2>1, DaysAssumption DEF StorageTypeOK, Days
  <2>3. ASSUME NEW w \in Writers, WriterStep(w) PROVE KeepInv'
    <3>1. UNCHANGED <<day, pruner>>
      BY <2>3 DEF WriterStep, OpensStore, StoreIsOpen, BatchCommits, WriterStops, Inserts,
                  BatchInserts, BeginsBatch, CreatesTable
    <3>2. \/ UNCHANGED <<rows, accepted>>
          \/ \E s : rows' = rows \cup s /\ accepted' = accepted \cup s
      BY <2>3 DEF WriterStep, OpensStore, StoreIsOpen, BatchCommits, WriterStops, Inserts,
                  BatchInserts, BeginsBatch, CreatesTable
    <3>3. AcceptedKept'
      BY <3>1, <3>2 DEF KeepInv, AcceptedKept
    <3> QED
      BY <2>1, <3>1, <3>3 DEF KeepInv
  <2>4. ASSUME NEW p \in Pruners, PrunerStep(p) PROVE KeepInv'
    <3>0. UNCHANGED <<day, accepted>> /\ \A q \in Pruners \ {p} : pruner'[q] = pruner[q]
      BY <2>1, <2>4
         DEF PrunerStep, StartsPrune, Migrated, Records, DeletesEvents, EndsPrune, PrunerStops,
             MigrationCreates, PrunerGoes, StorageTypeOK
    <3>1. pruner'[p].at # "resting" => pruner'[p].cutoff <= day - Retention
      <4>1. CASE StartsPrune(p)
        BY <2>1, <2>2, <4>1 DEF StartsPrune, PrunerGoes, StorageTypeOK
      <4>2. CASE Migrated(p) \/ Records(p)
        <5>1. pruner[p] \in Migrating
          BY <2>1, <4>2 DEF Migrated, Records, StorageTypeOK, Resting, Migrating, Deleting
        <5>2. pruner'[p] = Resting \/ pruner'[p].cutoff = pruner[p].cutoff
          BY <2>1, <4>2, <5>1 DEF Migrated, Records, PrunerGoes, StorageTypeOK, Migrating
        <5> QED
          BY <5>1, <5>2 DEF KeepInv, Resting, Migrating
      <4>3. CASE DeletesEvents(p)
        <5>1. pruner[p] \in Deleting
          BY <2>1, <4>3 DEF DeletesEvents, StorageTypeOK, Resting, Migrating, Deleting
        <5>2. pruner'[p].cutoff = pruner[p].cutoff
          BY <2>1, <4>3, <5>1 DEF DeletesEvents, PrunerGoes, StorageTypeOK, Deleting
        <5> QED
          BY <5>1, <5>2 DEF KeepInv, Deleting
      <4>4. CASE EndsPrune(p) \/ PrunerStops(p)
        BY <2>1, <4>4 DEF EndsPrune, PrunerStops, PrunerGoes, StorageTypeOK, Resting
      <4>5. CASE \E t \in Tables : MigrationCreates(p, t)
        BY <4>5 DEF MigrationCreates, KeepInv
      <4> QED
        BY <2>4, <4>1, <4>2, <4>3, <4>4, <4>5 DEF PrunerStep
    <3>2. AcceptedKept'
      <4>1. CASE DeletesEvents(p)
        <5>1. rows' = {e \in rows : Stamp[e] >= pruner[p].cutoff}
          BY <4>1 DEF DeletesEvents
        <5>2. pruner[p] \in Deleting
          BY <2>1, <4>1 DEF DeletesEvents, StorageTypeOK, Resting, Migrating, Deleting
        <5>3. pruner[p].cutoff \in Int /\ pruner[p].cutoff <= day - Retention
          BY <5>2 DEF KeepInv, Deleting
        <5>4. rows \subseteq Events /\ accepted \subseteq Events
          BY <2>1 DEF StorageTypeOK
        <5> QED
          BY <2>2, <3>0, <5>1, <5>3, <5>4 DEF KeepInv, AcceptedKept
      <4>2. CASE UNCHANGED rows
        BY <3>0, <4>2 DEF KeepInv, AcceptedKept
      <4> QED
        BY <2>4, <4>1, <4>2 DEF PrunerStep, StartsPrune, Migrated, Records, EndsPrune,
                                PrunerStops, MigrationCreates
    <3> QED
      BY <2>1, <3>0, <3>1, <3>2 DEF KeepInv
  <2>5. CASE DayPasses
    <3>1. day' = day + 1 /\ UNCHANGED <<rows, accepted, pruner>>
      BY <2>5 DEF DayPasses
    <3>2. AcceptedKept'
      BY <2>1, <2>2, <3>1 DEF KeepInv, AcceptedKept, StorageTypeOK
    <3>3. \A p \in Pruners : pruner[p].at # "resting" => pruner[p].cutoff \in Int
      BY <2>1 DEF StorageTypeOK, Migrating, Deleting, Resting
    <3> QED
      BY <2>1, <2>2, <3>1, <3>2, <3>3 DEF KeepInv
  <2>6. CASE UNCHANGED storageVars
    BY <2>1, <2>6 DEF storageVars, KeepInv, AcceptedKept
  <2> QED
    BY <2>3, <2>4, <2>5, <2>6 DEF StorageNext
<1>3. KeepInv => AcceptedKept
  BY DEF KeepInv
<1> QED
  BY <1>1, <1>2, <1>3, PTL DEF StorageSpec

-----------------------------------------------------------------------------
(* The analysis pipeline. *)

(* What is written down of a task at each place of analyze_file. *)
LEMMA PlaceTypes ==
  ASSUME PipelineTypeOK, NEW t \in Tasks
  PROVE  /\ task[t].at \in {"idle", "fresh", "waiting", "reading", "putting", "second",
                            "announcing", "llm", "enhanced"}
         /\ At(t, "idle") => task[t] = Idle
         /\ task[t].at \in {"fresh", "waiting", "reading"} => task[t] \in Asking
         /\ task[t].at \in {"putting", "second", "announcing"} => task[t] \in Having
         /\ task[t].at \in {"llm", "enhanced"} => task[t] \in Enhancing
  BY DEF PipelineTypeOK, At, Idle, Asking, Having, Enhancing

(* FileAnalyzer::analyze counts lines and todos. *)
LEMMA AnalysisType ==
  ASSUME NEW content \in Contents, NEW hash \in Contents
  PROVE  Analyze(content, hash) \in Analyses
<1>1. content \in Seq(LineKinds)
  BY ContentsAssumption
<1>2. Len(content) \in Nat /\ DOMAIN content = 1 .. Len(content)
  BY <1>1
<1>3. IsFiniteSet({i \in DOMAIN content : content[i] = "todo"})
  <2>1. IsFiniteSet(1 .. Len(content))
    BY <1>2, FS_Interval
  <2>2. {i \in DOMAIN content : content[i] = "todo"} \in SUBSET (1 .. Len(content))
    BY <1>2
  <2> QED
    BY <2>1, <2>2, FS_Subset
<1>4. CountTodos(content) \in Nat
  BY <1>3, FS_CardinalityType DEF CountTodos
<1> QED
  BY <1>2, <1>4 DEF Analyze, Analyses, CountLines

(* Who is in the queue of the semaphore waits for it, and is there once. *)
WaitersQueue ==
  /\ \A i \in 1 .. Len(permitQ) : At(permitQ[i], "waiting")
  /\ \A i, j \in 1 .. Len(permitQ) : permitQ[i] = permitQ[j] => i = j

(* A task that leaves a place other than waiting disturbs no waiter. *)
LEMMA QueueKept ==
  ASSUME PipelineTypeOK, WaitersQueue, NEW t \in Tasks, NEW r, TaskGoes(t, r),
         ~At(t, "waiting"), UNCHANGED permitQ
  PROVE  WaitersQueue'
<1>1. \A i \in 1 .. Len(permitQ) : permitQ[i] \in Tasks /\ permitQ[i] # t
  BY DEF PipelineTypeOK, WaitersQueue
<1>2. \A u \in Tasks \ {t} : task'[u] = task[u]
  BY DEF TaskGoes, PipelineTypeOK
<1> QED
  BY <1>1, <1>2 DEF WaitersQueue, At

(* Semaphore::acquire, both sides. *)
LEMMA QueueGrows ==
  ASSUME PipelineTypeOK, WaitersQueue, NEW t \in Tasks, Queues(t)
  PROVE  WaitersQueue' /\ permitQ' \in Seq(Tasks)
<1>1. permitQ \in Seq(Tasks) /\ permitQ' = Append(permitQ, t)
  BY DEF Queues, PipelineTypeOK
<1>2. /\ permitQ' \in Seq(Tasks) /\ Len(permitQ') = Len(permitQ) + 1
      /\ \A i \in 1 .. Len(permitQ) : permitQ'[i] = permitQ[i]
      /\ permitQ'[Len(permitQ) + 1] = t
  BY <1>1, AppendProperties
<1>3. Len(permitQ) \in Nat /\ \A i \in 1 .. Len(permitQ) : permitQ[i] \in Tasks
  BY <1>1
<1>4. task[t] \in Asking /\ ~At(t, "waiting")
  BY PlaceTypes DEF Queues, At
<1>5. /\ \A u \in Tasks \ {t} : task'[u] = task[u]
      /\ task'[t].at = "waiting"
  BY <1>4 DEF Queues, TaskGoes, PipelineTypeOK, Asking
<1>6. \A i \in 1 .. Len(permitQ) : permitQ[i] # t /\ At(permitQ[i], "waiting")
  BY <1>4 DEF WaitersQueue
<1>7. \A i \in 1 .. Len(permitQ') : task'[permitQ'[i]].at = "waiting"
  BY <1>2, <1>3, <1>5, <1>6 DEF At
<1>8. \A i, j \in 1 .. Len(permitQ') : permitQ'[i] = permitQ'[j] => i = j
  BY <1>2, <1>3, <1>6 DEF WaitersQueue
<1> QED
  BY <1>2, <1>7, <1>8 DEF WaitersQueue, At

(* A permit goes to the task that waited longest: the queue loses its head. *)
LEMMA QueueShrinks ==
  ASSUME PipelineTypeOK, WaitersQueue, NEW t \in Tasks, Acquires(t)
  PROVE  WaitersQueue' /\ permitQ' \in Seq(Tasks) /\ At(t, "waiting")
<1>1. permitQ \in Seq(Tasks) /\ permitQ # <<>> /\ permitQ' = Tail(permitQ) /\ Head(permitQ) = t
  BY DEF Acquires, PipelineTypeOK
<1>2. /\ permitQ' \in Seq(Tasks) /\ Len(permitQ') = Len(permitQ) - 1 /\ permitQ[1] = t
      /\ \A i \in 1 .. Len(permitQ') : permitQ'[i] = permitQ[i + 1]
  BY <1>1, HeadTailProperties
<1>3. Len(permitQ) \in Nat /\ Len(permitQ) >= 1
  BY <1>1, EmptySeq
<1>4. \A i \in 1 .. Len(permitQ') : /\ permitQ'[i] = permitQ[i + 1] /\ i + 1 \in 1 .. Len(permitQ)
                                    /\ permitQ[i + 1] # permitQ[1] /\ permitQ[i + 1] \in Tasks
  BY <1>1, <1>2, <1>3 DEF WaitersQueue
<1>5. \A u \in Tasks \ {t} : task'[u] = task[u]
  BY DEF Acquires, TaskGoes, PipelineTypeOK
<1>6. \A i \in 1 .. Len(permitQ') : task'[permitQ'[i]].at = "waiting"
  BY <1>2, <1>4, <1>5 DEF WaitersQueue, At
<1>7. \A i, j \in 1 .. Len(permitQ') : permitQ'[i] = permitQ'[j] => i = j
  BY <1>2, <1>3, <1>4 DEF WaitersQueue
<1> QED
  BY <1>2, <1>3, <1>6, <1>7 DEF WaitersQueue, At

(* schedule_analysis, analyze_file and the prune keep the types. *)
PipelineTypes == PipelineTypeOK /\ WaitersQueue

(* No task has been spawned. *)
LEMMA PipelineTypesInit == PipelineInit => PipelineTypes
  BY EmptySeq DEF PipelineInit, PipelineTypes, PipelineTypeOK, WaitersQueue

(* A task that goes on without touching the queue keeps the types. *)
LEMMA TaskTyped ==
  ASSUME PipelineTypes, NEW t \in Tasks, NEW r \in {Idle} \cup Asking \cup Having \cup Enhancing,
         TaskGoes(t, r), ~At(t, "waiting"), UNCHANGED <<disk, permitQ, latest>>,
         cached' \in [Files -> Analyses \cup {NoAnalysis}], disturbed' \in [Files -> BOOLEAN]
  PROVE  PipelineTypes'
<1>1. WaitersQueue'
  BY QueueKept DEF PipelineTypes
<1> QED
  BY <1>1 DEF PipelineTypes, PipelineTypeOK, TaskGoes

(* CacheStore::put writes an analysis of the file. *)
LEMMA PutTyped ==
  ASSUME PipelineTypeOK, NEW f \in Files, NEW result \in Analyses, Put(f, result)
  PROVE  cached' \in [Files -> Analyses \cup {NoAnalysis}] /\ disturbed' \in [Files -> BOOLEAN]
  BY DEF PipelineTypeOK, Put, Disturbs

(* Every step of a task, the clock and the disk keeps the types and the    *)
(* queue.                                                                  *)
LEMMA PipelineTypesStep == PipelineTypes /\ [PipelineNext]_pipelineVars => PipelineTypes'
<1> SUFFICES ASSUME PipelineTypes, [PipelineNext]_pipelineVars PROVE PipelineTypes'
  OBVIOUS
<1>0. PipelineTypeOK /\ WaitersQueue
  BY DEF PipelineTypes
<1>1. ASSUME NEW f \in Files, FileChanges(f) PROVE PipelineTypes'
  BY <1>0, <1>1 DEF FileChanges, PipelineTypes, PipelineTypeOK, WaitersQueue, At
<1>2. ASSUME NEW t \in Tasks, NEW f \in Files, NEW hash \in Contents, Schedule(t, f, hash)
      PROVE  PipelineTypes'
  <2>1. [at |-> "fresh", file |-> f, hash |-> hash] \in Asking
    BY DEF Asking
  <2>2. PipelineTypeOK'
    BY <1>0, <1>2, <2>1 DEF Schedule, PipelineTypeOK, TaskGoes
  <2>3. WaitersQueue'
    BY <1>0, <1>2, QueueKept DEF Schedule, At
  <2> QED
    BY <2>2, <2>3 DEF PipelineTypes
<1>3. ASSUME NEW t \in Tasks, Tier1(t) PROVE PipelineTypes'
  <2>1. CASE Queues(t)
    <3>1. task[t] \in Asking
      BY <1>0, <2>1, PlaceTypes DEF Queues, At
    <3>2. [task[t] EXCEPT !.at = "waiting"] \in Asking
      BY <3>1 DEF Asking
    <3> QED
      BY <1>0, <2>1, <3>2, QueueGrows DEF Queues, PipelineTypes, PipelineTypeOK, TaskGoes
  <2>2. CASE ChecksFresh(t)
    BY <1>0, <2>2, TaskTyped DEF ChecksFresh, At, PipelineTypeOK
  <2>3. CASE Acquires(t)
    <3>1. task[t] \in Asking
      BY <1>0, <2>3, QueueShrinks, PlaceTypes DEF At
    <3>2. [task[t] EXCEPT !.at = "reading"] \in Asking
      BY <3>1 DEF Asking
    <3> QED
      BY <1>0, <2>3, <3>2, QueueShrinks DEF Acquires, PipelineTypes, PipelineTypeOK, TaskGoes
  <2>4. CASE Analyzes(t)
    <3>1. task[t] \in Asking
      BY <1>0, <2>4, PlaceTypes DEF Analyzes, At
    <3>2. disk[task[t].file] \in Contents /\ task[t].hash \in Contents /\ task[t].file \in Files
      BY <1>0, <2>4, <3>1 DEF Analyzes, PipelineTypeOK, Asking
    <3>3. Analyze(disk[task[t].file], task[t].hash) \in Analyses
      BY <3>2, AnalysisType
    <3>4. [at |-> "putting", file |-> task[t].file,
           result |-> Analyze(disk[task[t].file], task[t].hash)] \in Having
      BY <3>2, <3>3 DEF Having
    <3> QED
      BY <1>0, <2>4, <3>4, TaskTyped DEF Analyzes, At, PipelineTypeOK
  <2>5. CASE CannotAnalyze(t)
    BY <1>0, <2>5, TaskTyped DEF CannotAnalyze, At, PipelineTypeOK, Disturbs
  <2>6. CASE Puts(t)
    <3>1. task[t] \in Having /\ task[t].file \in Files /\ task[t].result \in Analyses
      BY <1>0, <2>6, PlaceTypes DEF Puts, At, Having
    <3>2. PICK place \in {"second", "announcing"} : TaskGoes(t, [task[t] EXCEPT !.at = place])
      BY <2>6 DEF Puts
    <3>3. [task[t] EXCEPT !.at = place] \in Having
      BY <3>1 DEF Having
    <3> QED
      BY <1>0, <2>6, <3>1, <3>2, <3>3, PutTyped, TaskTyped DEF Puts, At
  <2> QED
    BY <1>3, <2>1, <2>2, <2>3, <2>4, <2>5, <2>6 DEF Tier1
<1>4. ASSUME NEW t \in Tasks, Tier2(t) \/ Announces(t) PROVE PipelineTypes'
  <2>1. CASE ReadsAgain(t)
    <3>1. task[t] \in Having /\ task[t].file \in Files /\ task[t].result \in Analyses
      BY <1>0, <2>1, PlaceTypes DEF ReadsAgain, At, Having
    <3>2. [task[t] EXCEPT !.at = "announcing"] \in Having
      BY <3>1 DEF Having
    <3>3. disk[task[t].file] # NoContent =>
            [at |-> "llm", file |-> task[t].file, result |-> task[t].result,
             prompt |-> disk[task[t].file]] \in Enhancing
      BY <1>0, <3>1 DEF Enhancing, PipelineTypeOK
    <3> QED
      BY <1>0, <2>1, <3>2, <3>3, TaskTyped DEF ReadsAgain, At, PipelineTypeOK
  <2>2. CASE LlmFails(t)
    <3>1. task[t] \in Enhancing
      BY <1>0, <2>2, PlaceTypes DEF LlmFails, At
    <3>2. [at |-> "announcing", file |-> task[t].file, result |-> task[t].result] \in Having
      BY <3>1 DEF Enhancing, Having
    <3> QED
      BY <1>0, <2>2, <3>2, TaskTyped DEF LlmFails, At, PipelineTypeOK
  <2>3. CASE LlmAnswers(t)
    <3>1. task[t] \in Enhancing
      BY <1>0, <2>3, PlaceTypes DEF LlmAnswers, At
    <3>2. Enhanced(task[t].result, task[t].prompt) \in Analyses
      BY <3>1 DEF Enhancing, Enhanced, Analyses
    <3>3. [task[t] EXCEPT !.at = "enhanced", !.result = Enhanced(@, task[t].prompt)] \in Enhancing
      BY <3>1, <3>2 DEF Enhancing
    <3> QED
      BY <1>0, <2>3, <3>3, TaskTyped DEF LlmAnswers, At, PipelineTypeOK
  <2>4. CASE PutsEnhanced(t)
    <3>1. task[t] \in Enhancing /\ task[t].file \in Files /\ task[t].result \in Analyses
      BY <1>0, <2>4, PlaceTypes DEF PutsEnhanced, At, Enhancing
    <3>2. [at |-> "announcing", file |-> task[t].file, result |-> task[t].result] \in Having
      BY <3>1 DEF Having
    <3> QED
      BY <1>0, <2>4, <3>1, <3>2, PutTyped, TaskTyped DEF PutsEnhanced, At
  <2>5. CASE Announces(t)
    BY <1>0, <2>5, TaskTyped DEF Announces, At, PipelineTypeOK
  <2> QED
    BY <1>4, <2>1, <2>2, <2>3, <2>4, <2>5 DEF Tier2
<1>5. CASE PruneAnalysis
  BY <1>0, <1>5 DEF PruneAnalysis, PipelineTypes, PipelineTypeOK, WaitersQueue, At
<1>6. CASE UNCHANGED pipelineVars
  BY <1>0, <1>6 DEF pipelineVars, PipelineTypes, PipelineTypeOK, WaitersQueue, At
<1> QED
  BY <1>1, <1>2, <1>3, <1>4, <1>5, <1>6 DEF PipelineNext

(* A task works on the hash of its file's last event, and beyond the first *)
(* write the cache holds its result, but for the answer of the LLM it is   *)
(* about to write.                                                         *)
Follows(t) ==
  LET f == task[t].file IN
  /\ task[t].at \in {"fresh", "waiting", "reading"} => task[t].hash = latest[f]
  /\ task[t].at \in {"putting", "second", "llm", "enhanced", "announcing"} =>
       task[t].result.hash = latest[f]
  /\ task[t].at \in {"second", "llm", "announcing"} => cached[f] = task[t].result

FilesFollow ==
  \A f \in Files : ~disturbed[f] =>
    /\ \A t, u \in TasksOf(f) : t = u
    /\ \A t \in TasksOf(f) : Follows(t)
    /\ TasksOf(f) = {} /\ latest[f] # NoContent => IsFresh(f, latest[f])

(* A step of analyze_file that neither starts nor ends a task. *)
LEMMA TaskMoves ==
  ASSUME PipelineTypeOK, FilesFollow, NEW t \in Tasks, NEW f \in Files, NEW r, TaskGoes(t, r),
         ~At(t, "idle"), task[t].file = f, r.at # "idle", r.file = f, UNCHANGED latest,
         \A g \in Files \ {f} : cached'[g] = cached[g] /\ disturbed'[g] = disturbed[g],
         ~disturbed'[f] => ~disturbed[f] /\ (Follows(t) => Follows(t)')
  PROVE  FilesFollow'
<1>1. task'[t] = r /\ \A u \in Tasks \ {t} : task'[u] = task[u]
  BY DEF TaskGoes, PipelineTypeOK
<1>2. \A g : TasksOf(g)' = TasksOf(g)
  BY <1>1 DEF TasksOf, At
<1>3. ASSUME NEW g \in Files \ {f}, ~disturbed'[g]
      PROVE  /\ \A u \in TasksOf(g)' : Follows(u)'
             /\ \A u, v \in TasksOf(g)' : u = v
             /\ TasksOf(g)' = {} /\ latest'[g] # NoContent => IsFresh(g, latest[g])'
  <2>1. \A u \in TasksOf(g) : task'[u] = task[u] /\ task[u].file = g
    BY <1>1 DEF TasksOf, At
  <2> QED
    BY <1>2, <1>3, <2>1 DEF FilesFollow, Follows, IsFresh
<1>4. t \in TasksOf(f)
  BY DEF TasksOf
<1> QED
  BY <1>2, <1>3, <1>4 DEF FilesFollow

(* A task that ends leaves its file alone. *)
LEMMA TaskEnds ==
  ASSUME PipelineTypeOK, FilesFollow, NEW t \in Tasks, NEW f \in Files, TaskGoes(t, Idle),
         ~At(t, "idle"), task[t].file = f, UNCHANGED <<latest, cached>>,
         \A g \in Files \ {f} : disturbed'[g] = disturbed[g],
         ~disturbed'[f] => ~disturbed[f] /\ (Follows(t) => IsFresh(f, latest[f]))
  PROVE  FilesFollow'
<1>1. task'[t] = Idle /\ \A u \in Tasks \ {t} : task'[u] = task[u]
  BY DEF TaskGoes, PipelineTypeOK
<1>2. \A g \in Files \ {f} : TasksOf(g)' = TasksOf(g)
  BY <1>1 DEF TasksOf, At, Idle
<1>3. TasksOf(f)' = TasksOf(f) \ {t}
  BY <1>1 DEF TasksOf, At, Idle
<1>4. t \in TasksOf(f)
  BY DEF TasksOf
<1>5. ASSUME NEW g \in Files \ {f}, ~disturbed'[g]
      PROVE  /\ \A u \in TasksOf(g)' : Follows(u)'
             /\ \A u, v \in TasksOf(g)' : u = v
             /\ TasksOf(g)' = {} /\ latest'[g] # NoContent => IsFresh(g, latest[g])'
  <2>1. \A u \in TasksOf(g) : task'[u] = task[u] /\ task[u].file = g
    BY <1>1 DEF TasksOf, At
  <2> QED
    BY <1>2, <1>5, <2>1 DEF FilesFollow, Follows, IsFresh
<1>6. ~disturbed'[f] => TasksOf(f)' = {} /\ IsFresh(f, latest[f])'
  BY <1>3, <1>4 DEF FilesFollow, IsFresh
<1> QED
  BY <1>5, <1>6 DEF FilesFollow

(* A first task of a file starts with nothing disturbed. *)
LEMMA TaskStarts ==
  ASSUME PipelineTypeOK, FilesFollow, NEW t \in Tasks, NEW f \in Files, NEW hash \in Contents,
         Schedule(t, f, hash)
  PROVE  FilesFollow'
<1>0. At(t, "idle")
  BY DEF Schedule
<1>1. /\ task'[t] = [at |-> "fresh", file |-> f, hash |-> hash]
      /\ \A u \in Tasks \ {t} : task'[u] = task[u]
  BY DEF Schedule, TaskGoes, PipelineTypeOK
<1>2. /\ TasksOf(f)' = TasksOf(f) \cup {t}
      /\ \A g \in Files \ {f} : TasksOf(g)' = TasksOf(g)
  BY <1>0, <1>1 DEF TasksOf, At
<1>3. /\ UNCHANGED cached /\ latest'[f] = hash
      /\ disturbed'[f] = (TasksOf(f) # {})
      /\ \A g \in Files \ {f} : latest'[g] = latest[g] /\ disturbed'[g] = disturbed[g]
  BY DEF Schedule, PipelineTypeOK
<1>4. ASSUME NEW g \in Files \ {f}, ~disturbed'[g]
      PROVE  /\ \A u \in TasksOf(g)' : Follows(u)'
             /\ \A u, v \in TasksOf(g)' : u = v
             /\ TasksOf(g)' = {} /\ latest'[g] # NoContent => IsFresh(g, latest[g])'
  <2>1. \A u \in TasksOf(g) : task'[u] = task[u] /\ task[u].file = g
    BY <1>0, <1>1 DEF TasksOf, At
  <2> QED
    BY <1>2, <1>3, <1>4, <2>1 DEF FilesFollow, Follows, IsFresh
<1>5. Follows(t)'
  BY <1>1, <1>3 DEF Follows
<1>6. ~disturbed'[f] => TasksOf(f)' = {t}
  BY <1>2, <1>3
<1> QED
  BY <1>4, <1>5, <1>6 DEF FilesFollow

(* Every step of a task, of the disk and of the prune. *)
LEMMA FilesFollowStep ==
  PipelineTypeOK /\ WaitersQueue /\ FilesFollow /\ [PipelineNext]_pipelineVars => FilesFollow'
<1> SUFFICES ASSUME PipelineTypeOK, WaitersQueue, FilesFollow, [PipelineNext]_pipelineVars
             PROVE  FilesFollow'
  OBVIOUS
<1>1. ASSUME UNCHANGED <<task, cached, latest, disturbed>> PROVE FilesFollow'
  BY <1>1 DEF FilesFollow, TasksOf, Follows, IsFresh, At
<1>2. ASSUME NEW t \in Tasks, Tier1(t) PROVE FilesFollow'
  <2>1. CASE Queues(t)
    <3>1. task[t] \in Asking
      BY <2>1, PlaceTypes DEF Queues, At
    <3>2. PICK r \in Asking : r = [task[t] EXCEPT !.at = "waiting"]
      BY <3>1 DEF Asking
    <3>3. r.at = "waiting" /\ r.file = task[t].file /\ r.hash = task[t].hash /\ r.file \in Files
      BY <3>1, <3>2 DEF Asking
    <3>4. TaskGoes(t, r) /\ UNCHANGED <<cached, latest, disturbed>> /\ At(t, "fresh")
      BY <2>1, <3>2 DEF Queues
    <3>5. task'[t] = r
      BY <3>4 DEF TaskGoes, PipelineTypeOK
    <3>6. Follows(t) => Follows(t)'
      BY <3>3, <3>4, <3>5 DEF Follows, At
    <3> QED
      BY <3>3, <3>4, <3>6, TaskMoves DEF At
  <2>2. CASE ChecksFresh(t)
    <3>1. task[t] \in Asking
      BY <2>2, PlaceTypes DEF ChecksFresh, At
    <3>2. task[t].file \in Files
      BY <3>1 DEF Asking
    <3>3. Follows(t) => IsFresh(task[t].file, latest[task[t].file])
      BY <2>2 DEF ChecksFresh, Follows, At
    <3> QED
      BY <2>2, <3>2, <3>3, TaskEnds DEF ChecksFresh, At
  <2>3. CASE Acquires(t)
    <3>0. At(t, "waiting")
      BY <2>3, QueueShrinks
    <3>1. task[t] \in Asking
      BY <3>0, PlaceTypes DEF At
    <3>2. PICK r \in Asking : r = [task[t] EXCEPT !.at = "reading"]
      BY <3>1 DEF Asking
    <3>3. r.at = "reading" /\ r.file = task[t].file /\ r.hash = task[t].hash /\ r.file \in Files
      BY <3>1, <3>2 DEF Asking
    <3>4. TaskGoes(t, r) /\ UNCHANGED <<cached, latest, disturbed>>
      BY <2>3, <3>2 DEF Acquires
    <3>5. task'[t] = r
      BY <3>4 DEF TaskGoes, PipelineTypeOK
    <3>6. Follows(t) => Follows(t)'
      BY <3>0, <3>3, <3>4, <3>5 DEF Follows, At
    <3> QED
      BY <3>0, <3>3, <3>4, <3>6, TaskMoves DEF At
  <2>4. CASE Analyzes(t)
    <3>1. task[t] \in Asking
      BY <2>4, PlaceTypes DEF Analyzes, At
    <3>2. PICK content : content = disk[task[t].file]
      OBVIOUS
    <3>3. PICK r : r = [at |-> "putting", file |-> task[t].file,
                        result |-> Analyze(content, task[t].hash)]
      OBVIOUS
    <3>4. TaskGoes(t, r) /\ UNCHANGED <<cached, latest, disturbed>> /\ At(t, "reading")
      BY <2>4, <3>2, <3>3 DEF Analyzes
    <3>5. r.at = "putting" /\ r.file = task[t].file /\ r.file \in Files
          /\ r.result.hash = task[t].hash
      BY <3>1, <3>3 DEF Asking, Analyze
    <3>6. task'[t] = r
      BY <3>4 DEF TaskGoes, PipelineTypeOK
    <3>7. Follows(t) => Follows(t)'
      BY <3>4, <3>5, <3>6 DEF Follows, At
    <3> QED
      BY <3>4, <3>5, <3>7, TaskMoves DEF At
  <2>5. CASE CannotAnalyze(t)
    <3>1. task[t] \in Asking
      BY <2>5, PlaceTypes DEF CannotAnalyze, At
    <3>2. task[t].file \in Files
      BY <3>1 DEF Asking
    <3>3. /\ disturbed'[task[t].file]
          /\ \A g \in Files \ {task[t].file} : disturbed'[g] = disturbed[g]
      BY <2>5, <3>2 DEF CannotAnalyze, Disturbs, PipelineTypeOK
    <3> QED
      BY <2>5, <3>2, <3>3, TaskEnds DEF CannotAnalyze, At
  <2>6. CASE Puts(t)
    <3>1. task[t] \in Having
      BY <2>6, PlaceTypes DEF Puts, At
    <3>2. PICK place \in {"second", "announcing"} : TaskGoes(t, [task[t] EXCEPT !.at = place])
      BY <2>6 DEF Puts
    <3>3. PICK r : r = [task[t] EXCEPT !.at = place]
      OBVIOUS
    <3>4. r.at = place /\ r.file = task[t].file /\ r.result = task[t].result /\ r.file \in Files
      BY <3>1, <3>3 DEF Having
    <3>5. TaskGoes(t, r) /\ UNCHANGED latest /\ At(t, "putting")
      BY <2>6, <3>2, <3>3 DEF Puts
    <3>6. task'[t] = r
      BY <3>5 DEF TaskGoes, PipelineTypeOK
    <3>7. /\ \A g \in Files \ {r.file} : cached'[g] = cached[g] /\ disturbed'[g] = disturbed[g]
          /\ \/ cached'[r.file] = r.result /\ disturbed' = disturbed
             \/ disturbed'[r.file]
      BY <2>6, <3>4 DEF Puts, Put, Disturbs, PipelineTypeOK
    <3>8. ~disturbed'[r.file] => ~disturbed[r.file] /\ (Follows(t) => Follows(t)')
      BY <3>4, <3>5, <3>6, <3>7 DEF Follows, At
    <3> QED
      BY <3>4, <3>5, <3>7, <3>8, TaskMoves DEF At
  <2> QED
    BY <1>2, <2>1, <2>2, <2>3, <2>4, <2>5, <2>6 DEF Tier1
<1>3. ASSUME NEW t \in Tasks, Tier2(t) \/ Announces(t) PROVE FilesFollow'
  <2>1. CASE ReadsAgain(t)
    <3>1. task[t] \in Having
      BY <2>1, PlaceTypes DEF ReadsAgain, At
    <3>2. PICK r : /\ TaskGoes(t, r)
                   /\ r.at \in {"announcing", "llm"} /\ r.file = task[t].file
                   /\ r.result = task[t].result
      BY <2>1, <3>1 DEF ReadsAgain, Having
    <3>3. UNCHANGED <<cached, latest, disturbed>> /\ At(t, "second") /\ r.file \in Files
      BY <2>1, <3>1, <3>2 DEF ReadsAgain, Having
    <3>4. task'[t] = r
      BY <3>2 DEF TaskGoes, PipelineTypeOK
    <3>5. Follows(t) => Follows(t)'
      BY <3>2, <3>3, <3>4 DEF Follows, At
    <3> QED
      BY <3>2, <3>3, <3>5, TaskMoves DEF At
  <2>2. CASE LlmFails(t)
    <3>1. task[t] \in Enhancing
      BY <2>2, PlaceTypes DEF LlmFails, At
    <3>2. PICK r : /\ TaskGoes(t, r)
                   /\ r.at = "announcing" /\ r.file = task[t].file /\ r.result = task[t].result
      BY <2>2 DEF LlmFails
    <3>3. UNCHANGED <<cached, latest, disturbed>> /\ At(t, "llm") /\ r.file \in Files
      BY <2>2, <3>1, <3>2 DEF LlmFails, Enhancing
    <3>4. task'[t] = r
      BY <3>2 DEF TaskGoes, PipelineTypeOK
    <3>5. Follows(t) => Follows(t)'
      BY <3>2, <3>3, <3>4 DEF Follows, At
    <3> QED
      BY <3>2, <3>3, <3>5, TaskMoves DEF At
  <2>3. CASE LlmAnswers(t)
    <3>1. task[t] \in Enhancing
      BY <2>3, PlaceTypes DEF LlmAnswers, At
    <3>2. PICK r : r = [task[t] EXCEPT !.at = "enhanced", !.result = Enhanced(@, task[t].prompt)]
      OBVIOUS
    <3>3. Enhanced(task[t].result, task[t].prompt).hash = task[t].result.hash
      BY <3>1 DEF Enhancing, Enhanced, Analyses
    <3>4. r.at = "enhanced" /\ r.file = task[t].file /\ r.result.hash = task[t].result.hash
      BY <3>1, <3>2, <3>3 DEF Enhancing
    <3>5. TaskGoes(t, r) /\ UNCHANGED <<cached, latest, disturbed>> /\ At(t, "llm")
          /\ r.file \in Files
      BY <2>3, <3>1, <3>2, <3>4 DEF LlmAnswers, Enhancing
    <3>6. task'[t] = r
      BY <3>5 DEF TaskGoes, PipelineTypeOK
    <3>7. Follows(t) => Follows(t)'
      BY <3>4, <3>5, <3>6 DEF Follows, At
    <3> QED
      BY <3>4, <3>5, <3>7, TaskMoves DEF At
  <2>4. CASE PutsEnhanced(t)
    <3>1. task[t] \in Enhancing
      BY <2>4, PlaceTypes DEF PutsEnhanced, At
    <3>2. PICK r : /\ TaskGoes(t, r)
                   /\ r.at = "announcing" /\ r.file = task[t].file /\ r.result = task[t].result
      BY <2>4 DEF PutsEnhanced
    <3>3. UNCHANGED latest /\ At(t, "enhanced") /\ r.file \in Files
      BY <2>4, <3>1, <3>2 DEF PutsEnhanced, Enhancing
    <3>4. task'[t] = r
      BY <3>2 DEF TaskGoes, PipelineTypeOK
    <3>5. /\ \A g \in Files \ {r.file} : cached'[g] = cached[g] /\ disturbed'[g] = disturbed[g]
          /\ \/ cached'[r.file] = r.result /\ disturbed' = disturbed
             \/ disturbed'[r.file]
      BY <2>4, <3>2, <3>3 DEF PutsEnhanced, Put, Disturbs, PipelineTypeOK
    <3>6. ~disturbed'[r.file] => ~disturbed[r.file] /\ (Follows(t) => Follows(t)')
      BY <3>2, <3>3, <3>4, <3>5 DEF Follows, At
    <3> QED
      BY <3>2, <3>3, <3>5, <3>6, TaskMoves DEF At
  <2>5. CASE Announces(t)
    <3>1. task[t] \in Having
      BY <2>5, PlaceTypes DEF Announces, At
    <3>2. task[t].file \in Files
      BY <3>1 DEF Having
    <3>3. Follows(t) => IsFresh(task[t].file, latest[task[t].file])
      BY <2>5 DEF Announces, Follows, IsFresh, At
    <3> QED
      BY <2>5, <3>2, <3>3, TaskEnds DEF Announces, At
  <2> QED
    BY <1>3, <2>1, <2>2, <2>3, <2>4, <2>5 DEF Tier2
<1>4. CASE PruneAnalysis
  BY <1>4 DEF PruneAnalysis, FilesFollow
<1> QED
  BY <1>1, <1>2, <1>3, <1>4, TaskStarts DEF PipelineNext, FileChanges, pipelineVars

(* schedule_analysis spawns a task per event and AnalysisCache::put is an  *)
(* upsert: while the tasks of a file do not overlap, what one announces is *)
(* what the cache answers, and the file's entry ends with its last hash.   *)
THEOREM CacheFollows == PipelineSpec => []CacheFollowsEvents
<1> DEFINE Inv == PipelineTypes /\ FilesFollow
<1>1. PipelineInit => Inv
  <2> SUFFICES ASSUME PipelineInit PROVE Inv
    OBVIOUS
  <2>1. \A f \in Files : TasksOf(f) = {} /\ latest[f] = NoContent
    BY DEF PipelineInit, TasksOf, At, Idle
  <2> QED
    BY <2>1, PipelineTypesInit DEF FilesFollow
<1>2. Inv /\ [PipelineNext]_pipelineVars => Inv'
  BY PipelineTypesStep, FilesFollowStep DEF PipelineTypes
<1>3. Inv => CacheFollowsEvents
  BY DEF FilesFollow, CacheFollowsEvents, TasksOf, Follows, At
<1> QED
  BY <1>1, <1>2, <1>3, PTL DEF PipelineSpec

-----------------------------------------------------------------------------
(* All of them. *)

(* Every value the pipeline, the tracker, the query and the SQLite file    *)
(* keep has its type.                                                      *)
THEOREM KnowledgeTypes == KnowledgeSpec => []KnowledgeTypeOK
<1> DEFINE Inv == PipelineTypes /\ AwarenessTypeOK /\ StorageTypeOK
<1>1. KnowledgeInit => Inv
  BY PipelineTypesInit, AwarenessInitially, StorageTypesInit DEF KnowledgeInit, AwarenessInv
<1>2. Inv /\ [KnowledgeNext]_partVars => Inv'
  <2> SUFFICES ASSUME Inv, [KnowledgeNext]_partVars PROVE Inv'
    OBVIOUS
  <2>1. [PipelineNext]_pipelineVars
    BY DEF KnowledgeNext, partVars
  <2>2. [AwarenessNext]_<<trackerVars, awarenessVars>> \/ (TrackerNext /\ UNCHANGED awarenessVars)
    BY DEF KnowledgeNext, partVars
  <2>3. [StorageNext]_storageVars
    BY DEF KnowledgeNext, partVars
  <2>4. AwarenessTypeOK'
    <3>1. CASE [AwarenessNext]_<<trackerVars, awarenessVars>>
      BY <3>1, AwarenessTypesStep
    <3>2. CASE TrackerNext /\ UNCHANGED awarenessVars
      BY <3>2, TrackerTypesStep DEF AwarenessTypeOK, awarenessVars
    <3> QED
      BY <2>2, <3>1, <3>2
  <2> QED
    BY <2>1, <2>3, <2>4, PipelineTypesStep, StorageTypesStep
<1>3. Inv => KnowledgeTypeOK
  BY DEF KnowledgeTypeOK, PipelineTypes
<1> QED
  BY <1>1, <1>2, <1>3, PTL DEF KnowledgeSpec

=============================================================================
