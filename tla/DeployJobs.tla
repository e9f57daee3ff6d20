----------------------------- MODULE DeployJobs -----------------------------
(***************************************************************************)
(* Deployments: DeployJobStore of host/task/deployjob.py.                  *)
(*                                                                         *)
(* A plan is started, maybe again and again; each start has a thread that  *)
(* works through the stages, and other requests cancel it.  All the tables *)
(* are keyed by the plan, and plans share nothing but the history of the   *)
(* last KEEP_JOBS, so one plan is modelled: _jobs and _progs have at most  *)
(* one entry, which names the run (the call of start) that made it.  An    *)
(* upload is a transfer job, of which only what TransferJobs promises is   *)
(* used: it ends as cancelled when it has been cancelled.  The checks of   *)
(* plan, the texts and the audit events are left out.                      *)
(***************************************************************************)
EXTENDS Integers, Sequences, FiniteSets

CONSTANTS
  Runs,    \* calls of start
  NoRun,   \* no entry
  Stages   \* the stages of the plan: "upload", "chmod", "exec" or "restart"

ASSUME DeployAssumption ==
  /\ NoRun \notin Runs
  /\ Stages \in Seq({"upload", "chmod", "exec", "restart"})
  /\ Stages # <<>>   \* plan refuses an empty list of files

VARIABLES
  job,        \* the entry of _jobs
  prog,       \* the entry of _progs
  state,      \* job["state"] of each run
  stages,     \* the states of the stages of each run
  place,      \* where the thread of each run is: see RunPlaces
  index,      \* the stage it is at
  verdict,    \* its fail_msg and cancelled: "ok", "failed" or "cancelled"
  flagged,    \* runs with prog["cancelled"]
  published,  \* runs with prog["_tjob"]
  transfer,   \* the transfer job of each run's current upload
  stopped,    \* runs whose transfer job has been cancelled
  cancels,    \* runs that a call of cancel has flagged and not looked at yet
  answered    \* runs for which cancel has answered {"cancelled": True}

runVars == <<state, stages, place, index, verdict>>
transferVars == <<published, transfer, stopped>>
deployVars == <<job, prog, runVars, flagged, transferVars, cancels, answered>>

(* between: at the head of the loop over the stages; submitted, published, *)
(* polling, judging: in _upload; acting: in another stage; settling and    *)
(* aborting: the state is set, the stages not yet; popping: the entry of   *)
(* _progs is to be removed.                                                *)
RunPlaces == {"new", "starting", "between", "upload", "submitted", "published",
           "polling", "judging", "acting", "finishing", "settling", "aborting",
           "popping", "ended"}
Over == {"settling", "aborting", "popping", "ended"}
Working == RunPlaces \ ({"new"} \cup Over)

States == {"none", "running", "done", "error", "cancelled"}
StageStates == {"pending", "running", "done", "skipped", "failed"}

DeployInit ==
  /\ job = NoRun
  /\ prog = NoRun
  /\ state = [r \in Runs |-> "none"]
  /\ stages = [r \in Runs |-> [i \in DOMAIN Stages |-> "pending"]]
  /\ place = [r \in Runs |-> "new"]
  /\ index = [r \in Runs |-> 1]
  /\ verdict = [r \in Runs |-> "ok"]
  /\ flagged = {}
  /\ published = {}
  /\ transfer = [r \in Runs |-> "none"]
  /\ stopped = {}
  /\ cancels = {}
  /\ answered = {}

MoveRun(r, p) == place' = [place EXCEPT ![r] = p]

-----------------------------------------------------------------------------
(* Fault: a plan that is running may be started again.                     *)
StartAgain(r) ==
  /\ place[r] = "new"
  /\ job' = r
  /\ prog' = r
  /\ state' = [state EXCEPT ![r] = "running"]
  /\ MoveRun(r, "starting")
  /\ UNCHANGED <<stages, index, verdict, flagged, transferVars, cancels, answered>>

(* start; it raises while the plan is running, or when a source changed.   *)
Start(r) ==
  /\ place[r] = "new"
  /\ job # NoRun => state[job] # "running"
  /\ job' = r
  /\ prog' = r
  /\ state' = [state EXCEPT ![r] = "running"]
  /\ MoveRun(r, "starting")
  /\ UNCHANGED <<stages, index, verdict, flagged, transferVars, cancels, answered>>

(* _run finds its entry, or makes do with one of its own when the run      *)
(* before it has removed that meanwhile, and has a transport.              *)
BeginRun(r) ==
  /\ place[r] = "starting"
  /\ flagged' = IF prog = r THEN flagged ELSE flagged \ {r}
  /\ MoveRun(r, "between")
  /\ UNCHANGED <<job, prog, state, stages, index, verdict, transferVars,
                 cancels, answered>>

(* _abort: there is no transport; the entry of _progs stays.               *)
Abort(r) ==
  /\ place[r] = "starting"
  /\ state' = [state EXCEPT ![r] = "error"]
  /\ verdict' = [verdict EXCEPT ![r] = "failed"]
  /\ MoveRun(r, "aborting")
  /\ UNCHANGED <<job, prog, stages, index, flagged, transferVars, cancels, answered>>

(* The head of the loop over the stages.                                   *)
NextStage(r) ==
  /\ place[r] = "between"
  /\ IF index[r] > Len(Stages)
     THEN MoveRun(r, "finishing") /\ UNCHANGED <<stages, verdict>>
     ELSE IF r \in flagged
     THEN /\ verdict' = [verdict EXCEPT ![r] = "cancelled"]
          /\ MoveRun(r, "finishing")
          /\ UNCHANGED stages
     ELSE /\ stages' = [stages EXCEPT ![r][index[r]] = "running"]
          /\ MoveRun(r, IF Stages[index[r]] = "upload" THEN "upload" ELSE "acting")
          /\ UNCHANGED verdict
  /\ UNCHANGED <<job, prog, state, index, flagged, transferVars, cancels, answered>>

(* A stage is over with result res; v says what has become of the run.     *)
EndStage(r, res, v) ==
  /\ stages' = [stages EXCEPT ![r][index[r]] = res]
  /\ verdict' = [verdict EXCEPT ![r] = v]
  /\ index' = [index EXCEPT ![r] = @ + 1]
  /\ MoveRun(r, IF v = "failed" THEN "finishing" ELSE "between")

(* A stage raises: the run is cancelled if it is flagged, else it fails.   *)
Raise(r) == EndStage(r, "failed", IF r \in flagged THEN "cancelled" ELSE "failed")

-----------------------------------------------------------------------------
(* _upload *)
Submit(r) ==
  /\ place[r] = "upload"
  /\ \/ /\ r \notin flagged
        /\ transfer' = [transfer EXCEPT ![r] = "running"]
        /\ stopped' = stopped \ {r}
        /\ MoveRun(r, "submitted")
        /\ UNCHANGED <<stages, verdict, index>>
     \/ Raise(r) /\ UNCHANGED <<transfer, stopped>>   \* flagged, or submit raises
  /\ UNCHANGED <<job, prog, state, flagged, published, cancels, answered>>

Publish(r) ==
  /\ place[r] = "submitted"
  /\ published' = published \cup {r}
  /\ MoveRun(r, "published")
  /\ UNCHANGED <<job, prog, state, stages, index, verdict, flagged, transfer, stopped,
                 cancels, answered>>

(* A cancel that came before prog["_tjob"] was set is caught up with.      *)
LookAgain(r) ==
  /\ place[r] = "published"
  /\ stopped' = IF r \in flagged /\ transfer[r] = "running" THEN stopped \cup {r} ELSE stopped
  /\ MoveRun(r, "polling")
  /\ UNCHANGED <<job, prog, state, stages, index, verdict, flagged, published, transfer,
                 cancels, answered>>

(* Fault: the loop watches the transfer only.                              *)
StopPollingAtEnd(r) ==
  /\ place[r] = "polling"
  /\ transfer[r] # "running"
  /\ published' = published \ {r}
  /\ MoveRun(r, "judging")
  /\ UNCHANGED <<job, prog, state, stages, index, verdict, flagged, transfer, stopped,
                 cancels, answered>>

(* The loop ends and prog["_tjob"] is removed.                             *)
StopPolling(r) ==
  /\ place[r] = "polling"
  /\ transfer[r] # "running" \/ r \in flagged
  /\ published' = published \ {r}
  /\ MoveRun(r, "judging")
  /\ UNCHANGED <<job, prog, state, stages, index, verdict, flagged, transfer, stopped,
                 cancels, answered>>

(* Fault: only the transfer's error counts.                                *)
JudgeError(r) ==
  /\ place[r] = "judging"
  /\ IF transfer[r] = "error" THEN Raise(r) ELSE EndStage(r, "done", verdict[r])
  /\ UNCHANGED <<job, prog, state, flagged, transferVars, cancels, answered>>

Judge(r) ==
  /\ place[r] = "judging"
  /\ IF r \in flagged \/ transfer[r] # "done"
     THEN Raise(r)
     ELSE EndStage(r, "done", verdict[r])
  /\ UNCHANGED <<job, prog, state, flagged, transferVars, cancels, answered>>

(* The transfer job, on its own thread: it ends, and as cancelled if it    *)
(* has been cancelled.                                                     *)
FileEnds(r) ==
  /\ transfer[r] = "running"
  /\ \E s \in IF r \in stopped THEN {"cancelled"} ELSE {"done", "error"} :
       transfer' = [transfer EXCEPT ![r] = s]
  /\ UNCHANGED <<job, prog, runVars, flagged, published, stopped, cancels, answered>>

(* A user cancels the transfer job by itself.                              *)
TransferCancelled(r) ==
  /\ transfer[r] = "running"
  /\ stopped' = stopped \cup {r}
  /\ UNCHANGED <<job, prog, runVars, flagged, published, transfer, cancels, answered>>

(* chmod, exec and restart: done, not supported, raised, or a command that *)
(* failed (which is not asked whether the run was cancelled).              *)
Act(r) ==
  /\ place[r] = "acting"
  /\ \/ Stages[index[r]] # "restart" /\ EndStage(r, "done", verdict[r])
     \/ Stages[index[r]] # "exec" /\ EndStage(r, "skipped", verdict[r])
     \/ Stages[index[r]] # "restart" /\ Raise(r)
     \/ Stages[index[r]] = "exec" /\ EndStage(r, "failed", "failed")
  /\ UNCHANGED <<job, prog, state, flagged, transferVars, cancels, answered>>

-----------------------------------------------------------------------------
(* The end of _run: first the state, from when on the plan may be started  *)
(* again, ...                                                              *)
FinishRun(r) ==
  /\ place[r] = "finishing"
  /\ state' = [state EXCEPT ![r] = CASE verdict[r] = "cancelled" -> "cancelled"
                                     [] verdict[r] = "failed" -> "error"
                                     [] OTHER -> "done"]
  /\ MoveRun(r, "settling")
  /\ UNCHANGED <<job, prog, stages, index, verdict, flagged, transferVars, cancels,
                 answered>>

(* Fault: a run that failed leaves the rest as it is.                      *)
LeftOverKept(v) == IF v = "cancelled" THEN "skipped" ELSE "pending"

(* What a stage that was not run becomes.                                  *)
LeftOver(v) == IF v = "cancelled" THEN "skipped" ELSE "failed"

(* ... then the stages that were not run.                                  *)
Settle(r) ==
  /\ place[r] \in {"settling", "aborting"}
  /\ stages' = [stages EXCEPT ![r] = [i \in DOMAIN Stages |->
                  IF @[i] = "pending" THEN LeftOver(verdict[r]) ELSE @[i]]]
  /\ MoveRun(r, IF place[r] = "settling" THEN "popping" ELSE "ended")
  /\ UNCHANGED <<job, prog, state, index, verdict, flagged, transferVars, cancels,
                 answered>>

(* _progs.pop: whatever entry the plan has by now.                         *)
Pop(r) ==
  /\ place[r] = "popping"
  /\ prog' = NoRun
  /\ MoveRun(r, "ended")
  /\ UNCHANGED <<job, state, stages, index, verdict, flagged, transferVars,
                 cancels, answered>>

(* cancel, first part: the answer is settled and the flag is set.          *)
Cancel ==
  /\ job # NoRun
  /\ state[job] = "running"
  /\ cancels = {}
  /\ answered' = answered \cup {job}
  /\ flagged' = IF prog # NoRun THEN flagged \cup {prog} ELSE flagged
  /\ cancels' = IF prog # NoRun THEN {prog} ELSE {}
  /\ UNCHANGED <<job, prog, runVars, transferVars>>

(* cancel, second part: the transfer job it finds in the entry.  The lock  *)
(* that is held meanwhile is not one the thread of the run takes here.     *)
CancelTransfer(r) ==
  /\ r \in cancels
  /\ cancels' = {}
  /\ stopped' = IF r \in published /\ transfer[r] = "running" THEN stopped \cup {r} ELSE stopped
  /\ UNCHANGED <<job, prog, runVars, flagged, published, transfer, answered>>

DeployNext ==
  \/ \E r \in Runs :
       \/ cancels = {} /\ (Start(r) \/ Pop(r))   \* these take the store's lock
       \/ BeginRun(r) \/ Abort(r) \/ NextStage(r)
       \/ Submit(r) \/ Publish(r) \/ LookAgain(r) \/ StopPolling(r) \/ Judge(r)
       \/ FileEnds(r) \/ TransferCancelled(r)
       \/ Act(r) \/ FinishRun(r) \/ Settle(r) \/ CancelTransfer(r)
  \/ Cancel

DeploySpec == DeployInit /\ [][DeployNext]_deployVars

(* The threads run on; a command ends (it has a time limit), but a         *)
(* transfer may be stuck.                                                  *)
DeployFairness ==
  \A r \in Runs :
    /\ WF_deployVars(BeginRun(r) \/ Abort(r)) /\ WF_deployVars(NextStage(r))
    /\ WF_deployVars(Submit(r)) /\ WF_deployVars(Publish(r))
    /\ WF_deployVars(LookAgain(r)) /\ WF_deployVars(StopPolling(r))
    /\ WF_deployVars(Judge(r)) /\ WF_deployVars(Act(r))
    /\ WF_deployVars(FinishRun(r)) /\ WF_deployVars(Settle(r))

DeployFairSpec == DeploySpec /\ DeployFairness

-----------------------------------------------------------------------------
(* The type invariant. *)
DeployTypeOK ==
  /\ job \in Runs \cup {NoRun} /\ prog \in Runs \cup {NoRun}
  /\ state \in [Runs -> States]
  /\ stages \in [Runs -> [DOMAIN Stages -> StageStates]]
  /\ place \in [Runs -> RunPlaces]
  /\ index \in [Runs -> 1 .. Len(Stages) + 1]
  /\ verdict \in [Runs -> {"ok", "failed", "cancelled"}]
  /\ flagged \subseteq Runs /\ published \subseteq Runs /\ stopped \subseteq Runs
  /\ transfer \in [Runs -> {"none", "running", "done", "error", "cancelled"}]
  /\ cancels \subseteq Runs /\ answered \subseteq Runs
  /\ \A r \in published : place[r] \in {"published", "polling"}

(* Two runs of a plan never work on the device at the same time, although  *)
(* a run gives up its state before it takes the lock to leave _progs.      *)
OneRunAtATime ==
  \A r, q \in Runs : place[r] \in Working /\ place[q] \in Working => r = q

(* The outcome and the stages agree: a run is done only when no stage      *)
(* failed, it failed only when one did, and no stage is left open.         *)
OutcomeMatchesStages ==
  \A r \in Runs :
    place[r] \in {"popping", "ended"} =>
      /\ \A i \in DOMAIN Stages : stages[r][i] \notin {"pending", "running"}
      /\ state[r] = "done" => \A i \in DOMAIN Stages : stages[r][i] # "failed"
      /\ state[r] = "error" => \E i \in DOMAIN Stages : stages[r][i] = "failed"

(* A run that was reported as done has transferred the last file it sent:  *)
(* no upload that was cancelled, by whatever way, counts as a success.     *)
DoneMeansUploaded ==
  \A r \in Runs : state[r] = "done" /\ transfer[r] # "none" => transfer[r] = "done"

(* The types, one run of a plan at a time, and an outcome that agrees with *)
(* the stages and with the transfer (deployjob.py start, _run, _upload).   *)
RunsConsistent ==
  DeployTypeOK /\ OneRunAtATime /\ OutcomeMatchesStages /\ DoneMeansUploaded

(* A run that has its entry and is flagged ends, although its upload may   *)
(* be stuck.                                                               *)
FlaggedEnds ==
  \A r \in Runs : (r \in flagged /\ place[r] # "starting") ~> place[r] \in {"popping", "ended"}

(* A run for which cancel has answered {"cancelled": True} is never        *)
(* reported as done.                                                       *)
CancelReported ==
  \A r \in Runs : r \in answered => state[r] # "done"

(* A run that ended as cancelled leaves no upload going on that nobody has *)
(* cancelled.                                                              *)
CancelStopsUpload ==
  \A r \in Runs :
    (state[r] = "cancelled" /\ cancels = {} /\ transfer[r] = "running") => r \in stopped
=============================================================================
