-------------------------- MODULE AnalysisPipeline --------------------------
(***************************************************************************)
(* The analysis pipeline and the cache it fills.                           *)
(*                                                                         *)
(* Every event handed to schedule_analysis becomes a task of its own.  A   *)
(* task checks whether the cache has an entry with the event's hash, waits *)
(* for one of MaxConcurrent permits (served first come, first served),     *)
(* reads and analyses the file as it is then, puts the result into the     *)
(* cache and gives the permit back.  With an LLM and a known language it   *)
(* reads the file once more, asks, and puts the enhanced analysis; the LLM *)
(* may take for ever.  Last it announces the analysis.  No error stops a   *)
(* task before the announcement but that of the first reading.             *)
(*                                                                         *)
(* A content is the sequence of the kinds of its lines, and stands for its *)
(* own blake3 hash.                                                        *)
(***************************************************************************)
EXTENDS Naturals, Sequences, FiniteSets

CONSTANTS
  Files,
  Contents,       \* contents a file may have: sequences of LineKinds
  Spoken,         \* files whose extension LanguageRegistry knows
  UsesLlm,        \* whether the pipeline has an LLM client
  MaxConcurrent,  \* permits of the semaphore, 2 in PipelineConfig's default
  MaxTasks,       \* bound: analysis tasks alive at once
  NoContent       \* neither on the disk nor read

LineKinds == {"code", "note", "todo"}

ASSUME ContentsAssumption == Contents \subseteq Seq(LineKinds) /\ NoContent \notin Contents
ASSUME PermitsAssumption == MaxConcurrent \in Nat \ {0} /\ MaxTasks \in Nat
ASSUME LlmAssumption == UsesLlm \in BOOLEAN /\ Spoken \subseteq Files

VARIABLES
  disk,       \* what each file holds; NoContent: absent, too large, or not text
  task,       \* the tasks schedule_analysis spawned
  permitQ,    \* tasks waiting for a permit, in the order they asked
  cached,     \* the file_analysis table
  latest,     \* history: hash of the last event that was scheduled
  disturbed   \* history: since then tasks overlapped, a read or write failed, or a prune ran

pipelineVars == <<disk, task, permitQ, cached, latest, disturbed>>

Tasks == 1..MaxTasks

(* FileAnalysis: the counts are of the content first read, the imports,    *)
(* exports and hints of the content read for the LLM.                      *)
CountLines(content) == Len(content)
CountTodos(content) == Cardinality({i \in DOMAIN content : content[i] = "todo"})

Analyses == [hash: Contents, lines: Nat, todos: Nat, imports: Contents \cup {NoContent}]
NoAnalysis == [hash |-> NoContent]

Analyze(content, hash) ==
  [hash |-> hash, lines |-> CountLines(content), todos |-> CountTodos(content),
   imports |-> NoContent]

Idle == [at |-> "idle"]
Asking == [at: {"fresh", "waiting", "reading"}, file: Files, hash: Contents]
Having == [at: {"putting", "second", "announcing"}, file: Files, result: Analyses]
Enhancing == [at: {"llm", "enhanced"}, file: Files, result: Analyses, prompt: Contents]

PipelineTypeOK ==
  /\ disk \in [Files -> Contents \cup {NoContent}]
  /\ task \in [Tasks -> {Idle} \cup Asking \cup Having \cup Enhancing]
  /\ permitQ \in Seq(Tasks)
  /\ cached \in [Files -> Analyses \cup {NoAnalysis}]
  /\ latest \in [Files -> Contents \cup {NoContent}]
  /\ disturbed \in [Files -> BOOLEAN]

(* LlmFileAnalyzer::enhance; its counts stay those of tier 1. *)
Enhanced(result, prompt) == [result EXCEPT !.imports = prompt]

PipelineInit ==
  /\ disk \in [Files -> Contents \cup {NoContent}]
  /\ task = [t \in Tasks |-> Idle]
  /\ permitQ = <<>>
  /\ cached = [f \in Files |-> NoAnalysis]
  /\ latest = [f \in Files |-> NoContent]
  /\ disturbed = [f \in Files |-> FALSE]

At(t, place) == task[t].at = place
TasksOf(f) == {t \in Tasks : ~At(t, "idle") /\ task[t].file = f}
(* Seeded fault: the permit is kept through tier 2. *)
PermitHeldForLlm(t) == task[t].at \in {"reading", "putting", "second", "llm", "enhanced"}

HasPermit(t) == task[t].at \in {"reading", "putting"}
Holders == {t \in Tasks : HasPermit(t)}

TaskGoes(t, r) == task' = [task EXCEPT ![t] = r]
Disturbs(f) == disturbed' = [disturbed EXCEPT ![f] = TRUE]

-----------------------------------------------------------------------------
(* is_fresh: an entry with this hash.  get_if_fresh asks the same.         *)
IsFresh(f, hash) == cached[f].hash = hash

(* Seeded fault: INSERT OR IGNORE. *)
PutIfAbsent(f, result) ==
  \/ /\ cached' = IF cached[f] = NoAnalysis THEN [cached EXCEPT ![f] = result] ELSE cached
     /\ UNCHANGED disturbed
  \/ /\ Disturbs(f)
     /\ UNCHANGED cached

(* put is an upsert; an error of it is ignored. *)
Put(f, result) ==
  \/ /\ cached' = [cached EXCEPT ![f] = result]
     /\ UNCHANGED disturbed
  \/ /\ Disturbs(f)
     /\ UNCHANGED cached

-----------------------------------------------------------------------------
(* The file is written, deleted, or grows beyond max_file_size. *)
FileChanges(f) ==
  /\ \E content \in Contents \cup {NoContent} :
       disk' = [disk EXCEPT ![f] = content]
  /\ UNCHANGED <<task, permitQ, cached, latest, disturbed>>

(* Only a created or modified file whose event carries a hash gets beyond  *)
(* the first lines of analyze_file.  The hash is of a content the file has *)
(* had: dedup computed it when the event was made.                         *)
Schedule(t, f, hash) ==
  /\ At(t, "idle") /\ \A u \in 1..(t - 1) : ~At(u, "idle")
  /\ TaskGoes(t, [at |-> "fresh", file |-> f, hash |-> hash])
  /\ latest' = [latest EXCEPT ![f] = hash]
  /\ disturbed' = [disturbed EXCEPT ![f] = TasksOf(f) # {}]
  /\ UNCHANGED <<disk, permitQ, cached>>

ChecksFresh(t) ==
  /\ At(t, "fresh") /\ IsFresh(task[t].file, task[t].hash)
  /\ TaskGoes(t, Idle)
  /\ UNCHANGED <<disk, permitQ, cached, latest, disturbed>>

(* Stale, or the database would not open and an empty one in memory did. *)
Queues(t) ==
  /\ At(t, "fresh")
  /\ TaskGoes(t, [task[t] EXCEPT !.at = "waiting"])
  /\ permitQ' = Append(permitQ, t)
  /\ UNCHANGED <<disk, cached, latest, disturbed>>

Acquires(t) ==
  /\ permitQ # <<>> /\ Head(permitQ) = t
  /\ Cardinality(Holders) < MaxConcurrent
  /\ permitQ' = Tail(permitQ)
  /\ TaskGoes(t, [task[t] EXCEPT !.at = "reading"])
  /\ UNCHANGED <<disk, cached, latest, disturbed>>

Analyzes(t) ==
  /\ At(t, "reading") /\ disk[task[t].file] # NoContent
  /\ TaskGoes(t, [at |-> "putting", file |-> task[t].file,
                  result |-> Analyze(disk[task[t].file], task[t].hash)])
  /\ UNCHANGED <<disk, permitQ, cached, latest, disturbed>>

(* An error drops the permit and ends the task; nothing is announced. *)
CannotAnalyze(t) ==
  /\ At(t, "reading") /\ disk[task[t].file] = NoContent
  /\ TaskGoes(t, Idle)
  /\ Disturbs(task[t].file)
  /\ UNCHANGED <<disk, permitQ, cached, latest>>

(* The permit is given back when analyze_file returns, after the write. *)
HasTierTwo(f) == UsesLlm /\ f \in Spoken

Puts(t) ==
  /\ At(t, "putting")
  /\ Put(task[t].file, task[t].result)
  /\ TaskGoes(t, [task[t] EXCEPT !.at = IF HasTierTwo(task[t].file) THEN "second" ELSE "announcing"])
  /\ UNCHANGED <<disk, permitQ, latest>>

ReadsAgain(t) ==
  /\ At(t, "second")
  /\ LET f == task[t].file IN
     IF disk[f] = NoContent
     THEN TaskGoes(t, [task[t] EXCEPT !.at = "announcing"])
     ELSE TaskGoes(t, [at |-> "llm", file |-> f, result |-> task[t].result,
                       prompt |-> disk[f]])
  /\ UNCHANGED <<disk, permitQ, cached, latest, disturbed>>

(* The call fails, or its answer is not the JSON asked for. *)
LlmFails(t) ==
  /\ At(t, "llm")
  /\ TaskGoes(t, [at |-> "announcing", file |-> task[t].file, result |-> task[t].result])
  /\ UNCHANGED <<disk, permitQ, cached, latest, disturbed>>

LlmAnswers(t) ==
  /\ At(t, "llm")
  /\ TaskGoes(t, [task[t] EXCEPT !.at = "enhanced", !.result = Enhanced(@, task[t].prompt)])
  /\ UNCHANGED <<disk, permitQ, cached, latest, disturbed>>

PutsEnhanced(t) ==
  /\ At(t, "enhanced")
  /\ Put(task[t].file, task[t].result)
  /\ TaskGoes(t, [at |-> "announcing", file |-> task[t].file, result |-> task[t].result])
  /\ UNCHANGED <<disk, permitQ, latest>>

(* publish_analysis, with the counts of the result. *)
Announces(t) ==
  /\ At(t, "announcing")
  /\ TaskGoes(t, Idle)
  /\ UNCHANGED <<disk, permitQ, cached, latest, disturbed>>

(* prune_analysis_before compares the integer analyzed_at with a text, and *)
(* SQLite orders every integer before every text: it deletes every row.    *)
PruneAnalysis ==
  /\ cached' = [f \in Files |-> NoAnalysis]
  /\ disturbed' = [f \in Files |-> TRUE]
  /\ UNCHANGED <<disk, task, permitQ, latest>>

Tier1(t) == Queues(t) \/ ChecksFresh(t) \/ Acquires(t) \/ Analyzes(t) \/ CannotAnalyze(t) \/ Puts(t)
Tier2(t) == ReadsAgain(t) \/ LlmFails(t) \/ LlmAnswers(t) \/ PutsEnhanced(t)

PipelineNext ==
  \/ \E f \in Files : FileChanges(f)
  \/ \E t \in Tasks, f \in Files, hash \in Contents : Schedule(t, f, hash)
  \/ \E t \in Tasks : Tier1(t) \/ Tier2(t) \/ Announces(t)
  \/ PruneAnalysis

PipelineSpec == PipelineInit /\ [][PipelineNext]_pipelineVars

(* Tokio runs ready tasks and blocking closures; the LLM owes nothing. *)
PipelineFairness == \A t \in Tasks : WF_pipelineVars(Tier1(t))

-----------------------------------------------------------------------------
(* While the tasks of a file do not overlap and no read or write of theirs *)
(* fails, what a task announces is what the cache then answers, and the    *)
(* file's entry ends with the hash of its last event, through both tiers.  *)
CacheFollowsEvents ==
  \A f \in Files : ~disturbed[f] /\ latest[f] # NoContent =>
    /\ \A t \in TasksOf(f) : At(t, "announcing") => cached[f] = task[t].result
    /\ TasksOf(f) = {} => IsFresh(f, latest[f])

(* A task that waits for a permit gets one, however many calls of the LLM  *)
(* never return.                                                           *)
WaitersServed ==
  \A t \in Tasks : []<>~At(t, "waiting")

=============================================================================
