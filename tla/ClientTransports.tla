-------------------------- MODULE ClientTransports --------------------------
(***************************************************************************)
(* One connection of a client to the daemon, through the Rust, the Node or *)
(* the Python transport, chosen at the start.  The daemon's connection     *)
(* task answers requests one by one, in order, and pushes notifications    *)
(* between answers; a handler of it may wait for ever, and the task then   *)
(* does neither.                                                           *)
(*                                                                         *)
(* Rust and Node route a line by the id it carries.  Python takes the next *)
(* line for the answer of the call that holds its lock.  Methods differ in *)
(* their names, parameters and result types only; a line is the id it      *)
(* answers, with an outcome or an error alike, or Note.                    *)
(***************************************************************************)
EXTENDS Integers, Sequences

CONSTANTS
  MaxCalls,    \* bound: calls made on the connection
  NoteBuffer,  \* notifications the Rust client holds, 256 by default
  MaxNotes     \* bound: notifications pushed

ASSUME ClientAssumption == MaxCalls \in Nat /\ NoteBuffer \in Nat \ {0} /\ MaxNotes \in Nat

VARIABLES
  lang,       \* which of the three transports
  link,       \* "open", "shut" by the daemon, "closed" by the client
  outcome,    \* of each call; `by` is the id its answer carried
  pending,    \* calls registered for an answer (Rust, Node)
  requests,   \* lines on the way to the daemon
  lines,      \* lines on the way to the client
  reader,     \* the Rust reader task: "reading", "ending", "ended"
  listening,  \* somebody holds the Rust notification receiver
  notes,      \* notifications in its channel
  pushed,     \* notifications the daemon pushed
  silent,     \* a handler of the daemon waits for ever
  torn,       \* the last line written by the Rust client broke off
  slipped,    \* history: a Python call let go of its lock before its own line came
  garbled     \* history: Rust calls whose line ran on from a torn one

rustVars == <<reader, listening, notes, torn, garbled>>
clientVars ==
  <<lang, link, outcome, pending, requests, lines, pushed, silent, slipped, rustVars>>

Calls == 1..MaxCalls
Note == 0

ClientTypeOK ==
  /\ lang \in {"rust", "node", "python"} /\ link \in {"open", "shut", "closed"}
  /\ outcome \in [Calls -> [is: {"unsent", "registered", "waiting", "failed", "left", "answered"},
                           by: Calls \cup {Note}]]
  /\ pending \subseteq Calls
  /\ requests \in Seq(Calls) /\ lines \in Seq(Calls \cup {Note})
  /\ reader \in {"reading", "ending", "ended"}
  /\ listening \in BOOLEAN /\ notes \in 0..NoteBuffer /\ pushed \in 0..MaxNotes
  /\ silent \in BOOLEAN /\ torn \in BOOLEAN /\ slipped \in BOOLEAN /\ garbled \subseteq Calls

ClientInit ==
  /\ lang \in {"rust", "node", "python"}
  /\ link = "open"
  /\ outcome = [i \in Calls |-> [is |-> "unsent", by |-> Note]]
  /\ pending = {} /\ requests = <<>> /\ lines = <<>>
  /\ reader = "reading" /\ listening = TRUE /\ notes = 0 /\ pushed = 0
  /\ silent = FALSE /\ torn = FALSE /\ slipped = FALSE /\ garbled = {}

Registered(i) == outcome[i].is = "registered"
Waiting(i) == outcome[i].is = "waiting"
NoneUnderWay == \A i \in Calls : ~Registered(i) /\ ~Waiting(i)

(* Ids count up from 1. *)
NextCall(i) == outcome[i].is = "unsent" /\ \A j \in 1..i - 1 : outcome[j].is # "unsent"

Settles(i, how) == outcome' = [outcome EXCEPT ![i].is = how]
Answered(i, id) == outcome' = [outcome EXCEPT ![i] = [is |-> "answered", by |-> id]]
FailsAll(calls) ==
  outcome' = [i \in Calls |->
    IF i \in calls /\ Waiting(i) THEN [outcome[i] EXCEPT !.is = "failed"] ELSE outcome[i]]

-----------------------------------------------------------------------------
(* The daemon: handle_connection. *)
Answers ==
  /\ link = "open" /\ ~silent /\ requests # <<>>
  /\ lines' = Append(lines, Head(requests))
  /\ requests' = Tail(requests)
  /\ UNCHANGED <<lang, link, outcome, pending, pushed, silent, slipped, rustVars>>

(* The handler of the next request never returns: it waits for the locks   *)
(* of the subscriptions, crossed by another call (SubscriptionLocks).      *)
FallsSilent ==
  /\ link = "open" /\ ~silent /\ requests # <<>>
  /\ silent' = TRUE
  /\ UNCHANGED <<lang, link, outcome, pending, requests, lines, pushed, slipped, rustVars>>

Pushes ==
  /\ link = "open" /\ ~silent /\ pushed < MaxNotes
  /\ lines' = Append(lines, Note)
  /\ pushed' = pushed + 1
  /\ UNCHANGED <<lang, link, outcome, pending, requests, silent, slipped, rustVars>>

(* The connection's task ends, or the daemon with it. *)
HangsUp ==
  /\ link = "open"
  /\ link' = "shut"
  /\ requests' = <<>>
  /\ UNCHANGED <<lang, outcome, pending, lines, pushed, silent, slipped, rustVars>>

-----------------------------------------------------------------------------
(* Rust.  send_request borrows the client, so calls follow one another; a  *)
(* call is registered before its line is written.                          *)
RustCalls(i) ==
  /\ lang = "rust" /\ NextCall(i) /\ NoneUnderWay
  /\ pending' = pending \cup {i} /\ Settles(i, "registered")
  /\ UNCHANGED <<lang, link, requests, lines, pushed, silent, slipped, rustVars>>

(* A line that runs on from a torn one is answered with a parse error that *)
(* carries no id, which the reader passes over.  A call the reader drained *)
(* meanwhile finds that as its answer.                                     *)
RustWrites(i) ==
  /\ lang = "rust" /\ link = "open" /\ Registered(i)
  /\ IF torn THEN UNCHANGED requests ELSE requests' = Append(requests, i)
  /\ garbled' = IF torn THEN garbled \cup {i} ELSE garbled
  /\ torn' = FALSE
  /\ Settles(i, IF i \in pending THEN "waiting" ELSE "failed")
  /\ UNCHANGED <<lang, link, pending, lines, reader, listening, notes, pushed, silent, slipped>>

(* A write to a daemon that hung up fails and takes the registration back. *)
RustWriteFails(i) ==
  /\ lang = "rust" /\ link # "open" /\ Registered(i)
  /\ pending' = pending \ {i} /\ Settles(i, "failed")
  /\ UNCHANGED <<lang, link, requests, lines, pushed, silent, slipped, rustVars>>

(* The caller drops the future, waiting for its answer or while its line   *)
(* goes out, some of it perhaps written; the registration stays.           *)
RustLeaves(i) ==
  /\ lang = "rust" /\ (Registered(i) \/ Waiting(i))
  /\ Settles(i, "left")
  /\ \/ UNCHANGED torn
     \/ Registered(i) /\ link = "open" /\ torn' = TRUE
  /\ UNCHANGED <<lang, link, pending, requests, lines, reader, listening, notes, pushed, silent,
                 slipped, garbled>>

(* Seeded fault: a channel without a bound. *)
HeldUnbounded == IF listening THEN notes + 1 ELSE notes

(* A notification is kept while somebody listens and there is room. *)
Held == IF listening /\ notes < NoteBuffer THEN notes + 1 ELSE notes

(* The reader task.  An answer goes to the call registered under its id;   *)
(* a notification to the channel, or nowhere when that is full; with the   *)
(* receiver gone the reader stops.                                         *)
RustReads ==
  /\ lang = "rust" /\ reader = "reading" /\ lines # <<>>
  /\ lines' = Tail(lines)
  /\ LET line == Head(lines)
     IN  IF line = Note
         THEN /\ notes' = Held
              /\ reader' = IF listening THEN reader ELSE "ending"
              /\ UNCHANGED <<pending, outcome>>
         ELSE /\ pending' = pending \ {line}
              /\ IF line \in pending /\ Waiting(line) THEN Answered(line, line)
                 ELSE UNCHANGED outcome
              /\ UNCHANGED <<notes, reader>>
  /\ UNCHANGED <<lang, link, requests, listening, pushed, silent, torn, slipped, garbled>>

RustSeesEnd ==
  /\ lang = "rust" /\ reader = "reading" /\ lines = <<>> /\ link = "shut"
  /\ reader' = "ending"
  /\ UNCHANGED <<lang, link, outcome, pending, requests, lines, listening, notes, pushed, silent,
                 torn, slipped, garbled>>

(* Seeded fault: the reader ends and leaves the pending calls alone. *)
RustJustEnds ==
  /\ lang = "rust" /\ reader = "ending"
  /\ reader' = "ended"
  /\ UNCHANGED <<lang, link, outcome, pending, requests, lines, listening, notes, pushed, silent,
                 torn, slipped, garbled>>

(* Out of its loop the reader fails every pending call, once. *)
RustDrains ==
  /\ lang = "rust" /\ reader = "ending"
  /\ reader' = "ended"
  /\ pending' = {} /\ FailsAll(pending)
  /\ UNCHANGED <<lang, link, requests, lines, listening, notes, pushed, silent, torn, slipped,
                 garbled>>

RustReceives ==
  /\ lang = "rust" /\ listening /\ notes > 0
  /\ notes' = notes - 1
  /\ UNCHANGED <<lang, link, outcome, pending, requests, lines, reader, listening, pushed, silent,
                 torn, slipped, garbled>>

(* The receiver, taken out with take_notification_stream, is dropped. *)
RustStopsListening ==
  /\ lang = "rust" /\ listening
  /\ listening' = FALSE /\ notes' = 0
  /\ UNCHANGED <<lang, link, outcome, pending, requests, lines, reader, pushed, silent, torn,
                 slipped, garbled>>

-----------------------------------------------------------------------------
(* Node.  Calls overlap.  Nothing listens for the end of the socket: a     *)
(* write after it fails, but calls already pending wait for their timers.  *)
NodeCalls(i) ==
  /\ lang = "node" /\ NextCall(i)
  /\ IF link = "open"
     THEN /\ pending' = pending \cup {i} /\ requests' = Append(requests, i)
          /\ Settles(i, "waiting")
     ELSE Settles(i, "failed") /\ UNCHANGED <<pending, requests>>
  /\ UNCHANGED <<lang, link, lines, pushed, silent, slipped, rustVars>>

NodeTimesOut(i) ==
  /\ lang = "node" /\ i \in pending
  /\ pending' = pending \ {i} /\ Settles(i, "failed")
  /\ UNCHANGED <<lang, link, requests, lines, pushed, silent, slipped, rustVars>>

(* Seeded fault: an answer settles the call pending longest, not the one   *)
(* of its id.                                                              *)
NodeReadsInOrder ==
  /\ lang = "node" /\ link # "closed" /\ lines # <<>>
  /\ lines' = Tail(lines)
  /\ IF Head(lines) = Note \/ pending = {} THEN UNCHANGED <<pending, outcome>>
     ELSE LET oldest == CHOOSE i \in pending : \A j \in pending : i <= j
          IN  pending' = pending \ {oldest} /\ Answered(oldest, Head(lines))
  /\ UNCHANGED <<lang, link, requests, pushed, silent, slipped, rustVars>>

(* handleData: an answer nobody waits for any more is ignored. *)
NodeReads ==
  /\ lang = "node" /\ link # "closed" /\ lines # <<>>
  /\ lines' = Tail(lines)
  /\ pending' = pending \ {Head(lines)}
  /\ IF Head(lines) \in pending THEN Answered(Head(lines), Head(lines))
     ELSE UNCHANGED outcome
  /\ UNCHANGED <<lang, link, requests, pushed, silent, slipped, rustVars>>

NodeCloses ==
  /\ lang = "node" /\ link # "closed"
  /\ link' = "closed"
  /\ FailsAll(pending) /\ pending' = {}
  /\ requests' = <<>> /\ lines' = <<>>
  /\ UNCHANGED <<lang, pushed, silent, slipped, rustVars>>

-----------------------------------------------------------------------------
(* Python.  `call` holds a lock from its write to its line. *)
PythonCalls(i) ==
  /\ lang = "python" /\ NextCall(i) /\ NoneUnderWay
  /\ IF link = "open"
     THEN requests' = Append(requests, i) /\ Settles(i, "waiting")
     ELSE Settles(i, "failed") /\ UNCHANGED requests
  /\ UNCHANGED <<lang, link, pending, lines, pushed, silent, slipped, rustVars>>

(* Whatever line is next is the answer; a notification, having no result,  *)
(* is an invalid one, and leaves the call's own line for the next call.    *)
PythonReads(i) ==
  /\ lang = "python" /\ Waiting(i) /\ lines # <<>>
  /\ lines' = Tail(lines)
  /\ IF Head(lines) = Note THEN Settles(i, "failed") /\ slipped' = TRUE
     ELSE Answered(i, Head(lines)) /\ UNCHANGED slipped
  /\ UNCHANGED <<lang, link, pending, requests, pushed, silent, rustVars>>

PythonSeesEnd(i) ==
  /\ lang = "python" /\ Waiting(i) /\ lines = <<>> /\ link = "shut"
  /\ Settles(i, "failed")
  /\ UNCHANGED <<lang, link, pending, requests, lines, pushed, silent, slipped, rustVars>>

(* A timeout after 30 s, or the task is cancelled: the lock is released. *)
PythonGivesUp(i) ==
  /\ lang = "python" /\ Waiting(i)
  /\ Settles(i, "failed")
  /\ slipped' = TRUE
  /\ UNCHANGED <<lang, link, pending, requests, lines, pushed, silent, rustVars>>

-----------------------------------------------------------------------------
ClientNext ==
  \/ Answers \/ FallsSilent \/ Pushes \/ HangsUp
  \/ RustReads \/ RustSeesEnd \/ RustDrains \/ RustReceives \/ RustStopsListening
  \/ NodeReads \/ NodeCloses
  \/ \E i \in Calls :
       \/ RustCalls(i) \/ RustWrites(i) \/ RustWriteFails(i) \/ RustLeaves(i)
       \/ NodeCalls(i) \/ NodeTimesOut(i)
       \/ PythonCalls(i) \/ PythonReads(i) \/ PythonSeesEnd(i) \/ PythonGivesUp(i)

ClientSpec == ClientInit /\ [][ClientNext]_clientVars

(* The daemon answers what it reads unless it falls silent; a write goes   *)
(* out, the reader task runs, timers fire.  Whether anyone listens, leaves, *)
(* closes, hangs up or falls silent is not promised.                       *)
ClientFairness ==
  /\ WF_clientVars(Answers)
  /\ WF_clientVars(RustReads) /\ WF_clientVars(RustSeesEnd) /\ WF_clientVars(RustDrains)
  /\ WF_clientVars(NodeReads)
  /\ \A i \in Calls :
       /\ WF_clientVars(RustWrites(i)) /\ WF_clientVars(RustWriteFails(i))
       /\ WF_clientVars(NodeTimesOut(i))
       /\ WF_clientVars(PythonReads(i)) /\ WF_clientVars(PythonSeesEnd(i))
       /\ WF_clientVars(PythonGivesUp(i))

-----------------------------------------------------------------------------
(* A call that returns an answer returns its own, late answers, timeouts,  *)
(* abandoned calls and notifications notwithstanding.  A Python connection *)
(* keeps this until a call of it lets go of the lock before its line came. *)
OwnAnswer ==
  ~slipped => \A i \in Calls : outcome[i].is = "answered" => outcome[i].by = i

(* Who may be left waiting: a Rust call has no timeout of its own, and     *)
(* Python's starts when its line is written.  So nobody helps a caller of  *)
(* either when the daemon falls silent, nor a Rust caller whose reader     *)
(* stopped because nobody listens to notifications, or whose line ran on   *)
(* from a torn one.                                                        *)
LeftWaiting(i) ==
  \/ lang # "node" /\ silent
  \/ lang = "rust" /\ (~listening \/ i \in garbled)

(* Every other call comes to an end, answered, failed or given up: also    *)
(* one that is registered while the reader drains the pending calls of a   *)
(* connection the daemon shut, and one written to a shut connection.       *)
CallsSettle ==
  \A i \in Calls : []<>(~(Registered(i) \/ Waiting(i)) \/ LeftWaiting(i))

=============================================================================
