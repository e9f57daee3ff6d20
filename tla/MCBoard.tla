------------------------------ MODULE MCBoard --------------------------------
(***************************************************************************)
(* What is done on a board, each checked by itself in one run of TLC: ssh  *)
(* processes, the output of commands, deployments, probes, camera tests,   *)
(* and the pinning of the board's key.  A behaviour belongs to one of      *)
(* them, chosen at its start, and the others stay as they are initially.   *)
(***************************************************************************)
EXTENDS SshChannels, OutputBuffer, MCDeployJobs, Probes, CameraTests, KnownHosts

VARIABLE work

boardVars == <<work, vars, bufVars, deployVars, probeVars, cameraVars, knownVars>>

(* Only the part that moves starts from each of its initial states.        *)
BoardInit ==
  /\ work \in {"ssh", "output", "deploy", "probes", "camera", "known"}
  /\ ChannelInit /\ BufInit /\ DeployInit /\ ProbesInit /\ CameraInit /\ KnownInit
  /\ work # "probes" => kind = "video"
  /\ work # "camera" => ~capture

SshMoves ==
  /\ work = "ssh" /\ ChannelNext
  /\ UNCHANGED <<work, bufVars, deployVars, probeVars, cameraVars, knownVars>>
OutputMoves ==
  /\ work = "output" /\ BufNext
  /\ UNCHANGED <<work, vars, deployVars, probeVars, cameraVars, knownVars>>
DeployMoves ==
  /\ work = "deploy" /\ DeployNext
  /\ UNCHANGED <<work, vars, bufVars, probeVars, cameraVars, knownVars>>
ProbesMove ==
  /\ work = "probes" /\ ProbesNext
  /\ UNCHANGED <<work, vars, bufVars, deployVars, cameraVars, knownVars>>
CameraMoves ==
  /\ work = "camera" /\ CameraNext
  /\ UNCHANGED <<work, vars, bufVars, deployVars, probeVars, knownVars>>
KnownMoves ==
  /\ work = "known" /\ KnownNext
  /\ UNCHANGED <<work, vars, bufVars, deployVars, probeVars, cameraVars>>

BoardNext ==
  SshMoves \/ OutputMoves \/ DeployMoves \/ ProbesMove \/ CameraMoves \/ KnownMoves

(* The fairness of ssh processes and of deployments, when they move.       *)
BoardFairness ==
  /\ \A c \in Calls :
       /\ WF_vars(work = "ssh" /\ c \in killed /\ ChildExits(c))
       /\ WF_vars(work = "ssh" /\ ExecEnds(c))
       /\ WF_vars(work = "ssh" /\ TransferEnds(c))
       /\ WF_vars(work = "ssh" /\ Escalate(c))
       /\ WF_vars(work = "ssh" /\ WaitReturns(c))
       /\ WF_vars(work = "ssh" /\ Finish(c))
       /\ WF_vars(work = "ssh" /\ Release(c))
       /\ \E u \in Users : /\ WF_vars(work = "ssh" /\ Observe(u, c))
                           /\ WF_vars(work = "ssh" /\ UserRelease(u, c))
  /\ \A r \in Runs :
       /\ WF_deployVars(work = "deploy" /\ (BeginRun(r) \/ Abort(r)))
       /\ WF_deployVars(work = "deploy" /\ NextStage(r))
       /\ WF_deployVars(work = "deploy" /\ Submit(r))
       /\ WF_deployVars(work = "deploy" /\ Publish(r))
       /\ WF_deployVars(work = "deploy" /\ LookAgain(r))
       /\ WF_deployVars(work = "deploy" /\ StopPolling(r))
       /\ WF_deployVars(work = "deploy" /\ Judge(r))
       /\ WF_deployVars(work = "deploy" /\ Act(r))
       /\ WF_deployVars(work = "deploy" /\ FinishRun(r))
       /\ WF_deployVars(work = "deploy" /\ Settle(r))

BoardSpec == BoardInit /\ [][BoardNext]_boardVars /\ BoardFairness
=============================================================================
