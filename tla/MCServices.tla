----------------------------- MODULE MCServices ------------------------------
(***************************************************************************)
(* The monitor, the upload spool and the agent's sessions, each checked by *)
(* itself in one run of TLC: a behaviour belongs to one of them, chosen at *)
(* its start, and the others stay as they are initially.                   *)
(***************************************************************************)
EXTENDS Monitor, UploadSpool, AgentSessions

VARIABLE service

svcVars == <<service, monVars, spoolVars, agentVars>>

SvcInit ==
  /\ service \in {"monitor", "spool", "agent"}
  /\ MonInit /\ SpoolInit /\ AgentInit

MonitorMoves == service = "monitor" /\ MonNext /\ UNCHANGED <<service, spoolVars, agentVars>>
SpoolMoves == service = "spool" /\ SpoolNext /\ UNCHANGED <<service, monVars, agentVars>>
AgentMoves == service = "agent" /\ AgentNext /\ UNCHANGED <<service, monVars, spoolVars>>

SvcNext == MonitorMoves \/ SpoolMoves \/ AgentMoves

\* The fairness of the services, for the one that moves.
SvcFairness ==
  /\ \A t \in SThreads : WF_monVars(service = "monitor" /\ SamplerStep(t))
  /\ \A u \in Uploads : WF_spoolVars(service = "spool" /\ UploadStep(u))
  /\ \A t \in Turns : WF_agentVars(service = "agent" /\ Trim(t))
  /\ \A t \in Chats : WF_agentVars(service = "agent" /\ (ChatLocked(t) \/ Ask(t) \/ ChatReply(t)))
  /\ \A t \in Streams :
       WF_agentVars(service = "agent" /\ (StreamLocked(t) \/ Pump(t) \/ StreamEnds(t)))

SvcSpec == SvcInit /\ [][SvcNext]_svcVars /\ SvcFairness
=============================================================================
