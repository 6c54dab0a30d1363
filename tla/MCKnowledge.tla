---------------------------- MODULE MCKnowledge ----------------------------
(***************************************************************************)
(* What the daemon knows beyond events and how clients ask for it, for     *)
(* TLC: the analysis pipeline, the agent tracker, alone and under an       *)
(* awareness query, the SQLite file, and a client's connection.  The parts *)
(* share no variable otherwise, so a behaviour lets one of them move,      *)
(* chosen at the start: the states are those of separate runs.             *)
(***************************************************************************)
EXTENDS AnalysisPipeline, Awareness, Storage, ClientTransports, TLC

CONSTANTS e1, e2, c1, a1

VARIABLE part

partVars == <<pipelineVars, trackerVars, awarenessVars, storageVars, clientVars, part>>

TwoContents == {<<"code">>, <<"todo", "code">>}
OneBatch == {{e1, e2}}
OneDayApart == e1 :> 0 @@ e2 :> 1

(* Bound: beside a query one connection reports one agent. *)
OneReporter == report' \subseteq {c1} \X AgentFiles /\ DOMAIN tracked' \subseteq {a1}

KnowledgeInit ==
  /\ part \in {"pipeline", "tracker", "awareness", "storage", "client"}
  /\ PipelineInit /\ AwarenessInit /\ StorageInit /\ ClientInit
  /\ part # "pipeline" => disk = [f \in Files |-> NoContent]
  /\ part # "client" => lang = "rust"

KnowledgeNext ==
  /\ \/ /\ part = "pipeline" /\ PipelineNext
        /\ UNCHANGED <<trackerVars, awarenessVars, storageVars, clientVars>>
     \/ /\ part = "tracker" /\ TrackerNext
        /\ UNCHANGED <<pipelineVars, awarenessVars, storageVars, clientVars>>
     \/ /\ part = "awareness" /\ AwarenessNext /\ OneReporter
        /\ UNCHANGED <<pipelineVars, storageVars, clientVars>>
     \/ /\ part = "storage" /\ StorageNext
        /\ UNCHANGED <<pipelineVars, trackerVars, awarenessVars, clientVars>>
     \/ /\ part = "client" /\ ClientNext
        /\ UNCHANGED <<pipelineVars, trackerVars, awarenessVars, storageVars>>
  /\ UNCHANGED part

KnowledgeSpec ==
  /\ KnowledgeInit /\ [][KnowledgeNext]_partVars
  /\ part = "pipeline" => PipelineFairness
  /\ part = "client" => ClientFairness

(* Every variable of the first four modules has its type. *)
KnowledgeTypeOK == PipelineTypeOK /\ AwarenessTypeOK /\ StorageTypeOK

=============================================================================
