--------------------------- MODULE DaemonProcess ---------------------------
(***************************************************************************)
(* Processes of `ambient-fsd start`, the PID file and the socket file they *)
(* share, SIGTERM and `ambient-fsd stop`.                                  *)
(*                                                                         *)
(* A start asks whether a daemon runs before it forks, in prepare_start    *)
(* and in start, and after it, in PidFile::create; the last one decides,   *)
(* the others only refuse earlier.  A process here is the child that goes  *)
(* on, or the start itself with --foreground.  Its id is not used again.   *)
(***************************************************************************)
EXTENDS Integers, FiniteSets

CONSTANTS
  Processes,
  Nobody,   \* there is no PID file
  Blank     \* it is there and empty

ASSUME ProcessAssumption == Nobody \notin Processes /\ Blank \notin Processes /\ Nobody # Blank

VARIABLES
  stage,      \* of each process
  handled,    \* it has a SIGTERM handler
  flagged,    \* the handler has set the shutdown flag
  pidFile,    \* whose PID the file holds
  socketAt,   \* which process the socket path leads to
  contended   \* history: two starts were between their check and their write at once

processVars == <<stage, handled, flagged, pidFile, socketAt, contended>>

Stages ==
  {"none", "forked", "checked", "writing", "written", "ready", "serving", "closing", "removed",
   "dead"}

ProcessTypeOK ==
  /\ stage \in [Processes -> Stages]
  /\ handled \in [Processes -> BOOLEAN] /\ flagged \in [Processes -> BOOLEAN]
  /\ pidFile \in Processes \cup {Nobody, Blank} /\ socketAt \in Processes \cup {Nobody}
  /\ contended \in BOOLEAN

ProcessInit ==
  /\ stage = [d \in Processes |-> "none"]
  /\ handled = [d \in Processes |-> FALSE] /\ flagged = [d \in Processes |-> FALSE]
  /\ pidFile = Nobody /\ socketAt = Nobody
  /\ contended = FALSE

Lives(d) == stage[d] \notin {"none", "dead"}
Becomes(d, s) == stage' = [stage EXCEPT ![d] = s]

(* Seeded fault: only a daemon that serves counts as running. *)
DaemonAnswers == pidFile \in Processes /\ stage[pidFile] = "serving"

(* is_running: the file names a process that exists. *)
IsRunning == pidFile \in Processes /\ Lives(pidFile)

-----------------------------------------------------------------------------
(* The parent leaves, the child goes on; or fork fails. *)
Forks(d) ==
  /\ stage[d] = "none" /\ ~IsRunning /\ pidFile # Blank
  /\ Becomes(d, "forked") \/ Becomes(d, "dead")
  /\ UNCHANGED <<handled, flagged, pidFile, socketAt, contended>>

(* PidFile::create takes a file it cannot read a PID from for a stale one. *)
Checks(d) ==
  /\ stage[d] = "forked" /\ ~IsRunning
  /\ Becomes(d, "checked")
  /\ contended' = (contended \/ \E x \in Processes : stage[x] \in {"checked", "writing"})
  /\ UNCHANGED <<handled, flagged, pidFile, socketAt>>

(* AlreadyRunning, or InvalidPid before the fork: the process ends without *)
(* touching a thing.                                                       *)
Refused(d) ==
  /\ \/ stage[d] \in {"none", "forked"} /\ IsRunning
     \/ stage[d] = "none" /\ pidFile = Blank
  /\ Becomes(d, "dead")
  /\ UNCHANGED <<handled, flagged, pidFile, socketAt, contended>>

(* fs::write empties the file and then writes. *)
TruncatesPid(d) ==
  /\ stage[d] = "checked"
  /\ Becomes(d, "writing")
  /\ pidFile' = Blank
  /\ UNCHANGED <<handled, flagged, socketAt, contended>>

WritesPid(d) ==
  /\ stage[d] = "writing"
  /\ Becomes(d, "written")
  /\ pidFile' = d
  /\ UNCHANGED <<handled, flagged, socketAt, contended>>

(* The thread of setup_signals registers for SIGTERM when it gets to run. *)
HandlesSigterm(d) ==
  /\ stage[d] \in {"written", "ready", "serving", "closing", "removed"} /\ ~handled[d]
  /\ handled' = [handled EXCEPT ![d] = TRUE]
  /\ UNCHANGED <<stage, flagged, pidFile, socketAt, contended>>

(* The log file becomes the output; if it cannot, the process ends and     *)
(* leaves its PID behind.                                                  *)
Redirects(d) ==
  /\ stage[d] = "written"
  /\ Becomes(d, "ready") \/ Becomes(d, "dead")
  /\ UNCHANGED <<handled, flagged, pidFile, socketAt, contended>>

(* SocketServer::bind removes the socket file, whoever listens behind it,  *)
(* and binds it anew.                                                      *)
Binds(d) == socketAt' = d

(* DaemonServer::new, watcher, restore and the first prune succeed; run    *)
(* binds, registers its own handlers and enters its loop.                  *)
Serves(d) ==
  /\ stage[d] = "ready"
  /\ Becomes(d, "serving")
  /\ Binds(d)
  /\ handled' = [handled EXCEPT ![d] = TRUE]
  /\ UNCHANGED <<flagged, pidFile, contended>>

(* An error on the way, or in the loop: the PID file stays. *)
Fails(d) ==
  /\ stage[d] \in {"ready", "serving"}
  /\ Becomes(d, "dead")
  /\ UNCHANGED <<handled, flagged, pidFile, socketAt, contended>>

(* Killed, or the machine restarted, at any point. *)
Crashes(d) ==
  /\ Lives(d)
  /\ Becomes(d, "dead")
  /\ UNCHANGED <<handled, flagged, pidFile, socketAt, contended>>

(* `ambient-fsd stop`: SIGTERM to the process of the PID file, which is    *)
(* fatal as long as nothing handles it.                                    *)
Stops ==
  /\ IsRunning
  /\ IF handled[pidFile]
     THEN flagged' = [flagged EXCEPT ![pidFile] = TRUE] /\ UNCHANGED stage
     ELSE Becomes(pidFile, "dead") /\ UNCHANGED flagged
  /\ UNCHANGED <<handled, pidFile, socketAt, contended>>

(* The loop of run sees the signal or, at a tick, the flag: `running` is   *)
(* cleared and the watcher stopped.                                        *)
Leaves(d) ==
  /\ stage[d] = "serving" /\ flagged[d]
  /\ Becomes(d, "closing")
  /\ UNCHANGED <<handled, flagged, pidFile, socketAt, contended>>

(* run returned Ok: the PID file goes, whatever it says; the socket file   *)
(* stays.                                                                  *)
RemovesPid(d) ==
  /\ stage[d] = "closing"
  /\ Becomes(d, "removed")
  /\ pidFile' = Nobody
  /\ UNCHANGED <<handled, flagged, socketAt, contended>>

(* The runtime is dropped, and with it what it still runs. *)
Ends(d) ==
  /\ stage[d] = "removed"
  /\ Becomes(d, "dead")
  /\ UNCHANGED <<handled, flagged, pidFile, socketAt, contended>>

ProcessNext ==
  \/ Stops
  \/ \E d \in Processes :
       \/ Forks(d) \/ Checks(d) \/ Refused(d) \/ TruncatesPid(d) \/ WritesPid(d)
       \/ HandlesSigterm(d) \/ Redirects(d) \/ Serves(d) \/ Fails(d) \/ Crashes(d)
       \/ Leaves(d) \/ RemovesPid(d) \/ Ends(d)

ProcessSpec == ProcessInit /\ [][ProcessNext]_processVars

-----------------------------------------------------------------------------
(* As long as no two starts were ever at their check and write together, a *)
(* daemon that serves is the one `stop` finds in the PID file and clients  *)
(* find at the socket path, through crashes, failed starts, kills and a    *)
(* PID file left empty; so there is at most one.  A process that has       *)
(* removed its PID file may still be there beside it.                      *)
OneDaemon ==
  ~contended => \A d \in Processes :
    stage[d] \in {"serving", "closing"} => pidFile = d /\ socketAt = d

=============================================================================
