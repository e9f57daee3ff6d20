---------------------------- MODULE TransferJobs ----------------------------
(***************************************************************************)
(* File transfers: TransferJobStore of host/task/transfer.py with the      *)
(* functions it runs (host/service/fs.py and the upload and download of    *)
(* host/transport/ssh.py).                                                 *)
(*                                                                         *)
(* A job is submitted by a request thread, run by a thread of a bounded    *)
(* pool, cancelled by other requests and shut down by close().  _jobs and  *)
(* _order always hold the same jobs and are one variable.  The job's       *)
(* dictionary is written with and without the store's lock: every unlocked *)
(* access that another thread can tell apart is a step of its own.         *)
(*                                                                         *)
(* SIGTERM may be ignored by the process, so sending it changes nothing    *)
(* here; a process may end at any time.  Names, byte counts, messages and  *)
(* the clock are left out: the age of a finished job and the end of a      *)
(* bounded wait are nondeterministic.                                      *)
(***************************************************************************)
EXTENDS Tables, FiniteSets

CONSTANTS
  Jobs,        \* jobs, each submitted at most once
  Downloads,   \* those that read from the process (fs_copyfrom)
  MaxRunning,  \* MAX_RUNNING, also the size of the pool
  MaxKeep      \* MAX_KEEP

ASSUME TransferAssumption ==
  /\ IsFiniteSet(Jobs)
  /\ Downloads \subseteq Jobs
  /\ MaxRunning \in Nat \ {0}
  /\ MaxKeep \in Nat \ {0}

VARIABLES
  at,         \* where the job is: see Places
  status,     \* job["status"], "none" before submit
  order,      \* _order (the keys of _jobs are its elements)
  forgotten,  \* ghost: the jobs that have been trimmed while they ran
  cancelled,  \* jobs with job["cancelled"]
  child,      \* the job's process
  shown,      \* jobs with job["proc"] set
  killed,     \* jobs whose process has been sent SIGKILL
  cleanups,   \* how often the job's cleanup has been called
  closed,     \* _closed
  closing     \* where close() is: see Closings

jobVars == <<at, status, cancelled, child, shown, killed, cleanups>>
storeVars == <<order, forgotten>>
closeVars == <<closed, closing>>
vars == <<jobVars, storeVars, closeVars>>

(* queued: its future is pending; opening: waiting for a lease and for     *)
(* Popen; spawned: job["proc"] not set yet; checking: about to look at     *)
(* job["cancelled"]; moving: in a read or write of the process's pipe;     *)
(* finishing and aborting: in proc.wait() and in _terminate_reap; returned *)
(* and raised: fn is over; cleaning and leaving: in _run's finally;        *)
(* unqueued: the future is cancelled, close() owes the cleanup; discarded: *)
(* dropped by the executor's shutdown.                                     *)
Places == {"new", "queued", "opening", "spawned", "checking", "moving",
           "finishing", "aborting", "returned", "raised", "cleaning",
           "leaving", "ended", "unqueued", "discarded"}

InFn == {"opening", "spawned", "checking", "moving", "finishing", "aborting"}
OnThread == InFn \cup {"returned", "raised", "cleaning", "leaving"}

Closings == {"open", "cleaning", "terminating", "killing", "clean", "unclean"}

Running == {j \in Jobs : j \in Listed(order) /\ status[j] = "running"}

Init ==
  /\ at = [j \in Jobs |-> "new"]
  /\ status = [j \in Jobs |-> "none"]
  /\ order = <<>> /\ forgotten = {}
  /\ cancelled = {}
  /\ child = [j \in Jobs |-> "none"]
  /\ shown = {}
  /\ killed = {}
  /\ cleanups = [j \in Jobs |-> 0]
  /\ closed = FALSE
  /\ closing = "open"

-----------------------------------------------------------------------------
(* The last n elements of s. *)
LastOf(s, n) == IF Len(s) <= n THEN s ELSE SubSeq(s, Len(s) - n + 1, Len(s))

(* Fault: trimming forgets that running jobs have to stay.                 *)
TrimmedByAge(s, young) ==
  LastOf(Without(s, Jobs \ young), MaxKeep)

(* _trim_locked: the finished jobs that are not young, and then everything *)
(* but the last MAX_KEEP, running or not, are forgotten.                   *)
Trimmed(s, young) ==
  LastOf(Without(s, {j \in Jobs : status'[j] # "running" /\ j \notin young}), MaxKeep)

(* A job is older than all the jobs after it in the order.                 *)
YoungSets(s) == {{s[i] : i \in n .. Len(s)} : n \in 1 .. Len(s)}

(* Running jobs that are not in the new list are out of reach of cancel()  *)
(* and close().                                                            *)
CutOff == forgotten' = forgotten \cup (Running \ Listed(order'))

Submit(j) ==
  /\ at[j] = "new"
  /\ ~closed
  /\ Cardinality(Running) < MaxRunning
  /\ status' = [status EXCEPT ![j] = "running"]
  /\ \E young \in YoungSets(Append(order, j)) : order' = Trimmed(Append(order, j), young)
  /\ CutOff
  /\ at' = [at EXCEPT ![j] = "queued"]
  /\ UNCHANGED <<cancelled, child, shown, killed, cleanups, closeVars>>

(* The executor refuses the job: it is taken back, what was trimmed for it *)
(* is gone, and the caller gets the exception (and keeps the cleanup).     *)
SubmitFails(j) ==
  /\ at[j] = "new"
  /\ ~closed
  /\ Cardinality(Running) < MaxRunning
  /\ status' = [status EXCEPT ![j] = "none"]
  /\ \E young \in YoungSets(Append(order, j)) :
       order' = Without(Trimmed(Append(order, j), young), {j})
  /\ CutOff
  /\ at' = [at EXCEPT ![j] = "discarded"]
  /\ UNCHANGED <<cancelled, child, shown, killed, cleanups, closeVars>>

-----------------------------------------------------------------------------
(* _run on a pool thread.                                                  *)
Move(j, p) == at' = [at EXCEPT ![j] = p]

Start(j) ==
  /\ at[j] = "queued"
  /\ Cardinality({k \in Jobs : at[k] \in OnThread}) < MaxRunning
  /\ Move(j, "opening")
  /\ UNCHANGED <<status, cancelled, child, shown, killed, cleanups, storeVars, closeVars>>

Spawn(j) ==
  /\ at[j] = "opening"
  /\ child' = [child EXCEPT ![j] = "alive"]
  /\ Move(j, "spawned")
  /\ UNCHANGED <<status, cancelled, shown, killed, cleanups, storeVars, closeVars>>

(* No lease, no process, or no file: fn raises before there is a process.  *)
OpenFails(j) ==
  /\ at[j] = "opening"
  /\ Move(j, "raised")
  /\ UNCHANGED <<status, cancelled, child, shown, killed, cleanups, storeVars, closeVars>>

(* job["proc"] = proc, without the store's lock.  An upload first reads    *)
(* its ProgressReader, a download first reads the process.                 *)
Show(j) ==
  /\ at[j] = "spawned"
  /\ shown' = shown \cup {j}
  /\ Move(j, IF j \in Downloads THEN "moving" ELSE "checking")
  /\ UNCHANGED <<status, cancelled, child, killed, cleanups, storeVars, closeVars>>

(* Fault: cancelled jobs are left to the signal.                           *)
CheckIgnoresCancel(j) ==
  /\ at[j] = "checking"
  /\ Move(j, "moving")
  /\ UNCHANGED <<status, cancelled, child, shown, killed, cleanups, storeVars, closeVars>>

(* ProgressReader.read and ProgressWriter.write. *)
Check(j) ==
  /\ at[j] = "checking"
  /\ Move(j, IF j \in cancelled THEN "aborting" ELSE "moving")
  /\ UNCHANGED <<status, cancelled, child, shown, killed, cleanups, storeVars, closeVars>>

(* A read or write of the pipe returns: with the process alive there is    *)
(* more to do or the data has ended; with the process gone the data ends   *)
(* or the pipe is broken.                                                  *)
PipeReturns(j) ==
  /\ at[j] = "moving"
  /\ \/ child[j] = "alive" /\ Move(j, "checking")
     \/ Move(j, "finishing")
     \/ Move(j, "aborting")
  /\ UNCHANGED <<status, cancelled, child, shown, killed, cleanups, storeVars, closeVars>>

(* The process ends by itself, by SIGTERM or by SIGKILL.                   *)
ChildEnds(j) ==
  /\ child[j] = "alive"
  /\ child' = [child EXCEPT ![j] = "gone"]
  /\ UNCHANGED <<at, status, cancelled, shown, killed, cleanups, storeVars, closeVars>>

(* proc.wait() or _terminate_reap returns, the exit status is looked at    *)
(* and _clear_job runs.                                                    *)
Reaped(j) ==
  /\ at[j] \in {"finishing", "aborting"}
  /\ child[j] = "gone"
  /\ shown' = shown \ {j}
  /\ \/ at[j] = "finishing" /\ Move(j, "returned")
     \/ Move(j, "raised")
  /\ UNCHANGED <<status, cancelled, child, killed, cleanups, storeVars, closeVars>>

(* Fault: what fn did decides, not whether the job was cancelled.          *)
SettleByResult(j) ==
  /\ at[j] \in {"returned", "raised"}
  /\ status' = [status EXCEPT ![j] = IF at[j] = "returned" THEN "done" ELSE "error"]
  /\ Move(j, "cleaning")
  /\ UNCHANGED <<cancelled, child, shown, killed, cleanups, storeVars, closeVars>>

(* The status is set under the lock. *)
Settle(j) ==
  /\ at[j] \in {"returned", "raised"}
  /\ status' = [status EXCEPT ![j] = IF j \in cancelled THEN "cancelled"
                                     ELSE IF at[j] = "returned" THEN "done" ELSE "error"]
  /\ Move(j, "cleaning")
  /\ UNCHANGED <<cancelled, child, shown, killed, cleanups, storeVars, closeVars>>

(* The finally of _run: cleanup, then the last section under the lock.     *)
Cleanup(j) ==
  /\ at[j] = "cleaning"
  /\ cleanups' = [cleanups EXCEPT ![j] = @ + 1]
  /\ Move(j, "leaving")
  /\ UNCHANGED <<status, cancelled, child, shown, killed, storeVars, closeVars>>

Leave(j) ==
  /\ at[j] = "leaving"
  /\ Move(j, "ended")
  /\ UNCHANGED <<status, cancelled, child, shown, killed, cleanups, storeVars, closeVars>>

-----------------------------------------------------------------------------
(* cancel: the flag, and SIGTERM for a process that is shown.              *)
Cancel(j) ==
  /\ j \in Running
  /\ cancelled' = cancelled \cup {j}
  /\ UNCHANGED <<at, status, child, shown, killed, cleanups, storeVars, closeVars>>

(* Fault: the futures are left to the executor's shutdown.                 *)
CloseBeginsKeepsFutures ==
  /\ ~closed
  /\ closed' = TRUE
  /\ closing' = "cleaning"
  /\ cancelled' = cancelled \cup Running
  /\ UNCHANGED <<at, status, child, shown, killed, cleanups, storeVars>>

(* close, up to its first release of the lock: running jobs are cancelled, *)
(* and those whose future is still pending are over.                       *)
CloseBegins ==
  /\ ~closed
  /\ closed' = TRUE
  /\ closing' = "cleaning"
  /\ cancelled' = cancelled \cup Running
  /\ LET pending == {j \in Running : at[j] = "queued"}
     IN /\ status' = [j \in Jobs |-> IF j \in pending THEN "cancelled" ELSE status[j]]
        /\ at' = [j \in Jobs |-> IF j \in pending THEN "unqueued" ELSE at[j]]
  /\ UNCHANGED <<child, shown, killed, cleanups, storeVars>>

CloseCleans(j) ==
  /\ closing = "cleaning"
  /\ at[j] = "unqueued"
  /\ cleanups' = [cleanups EXCEPT ![j] = @ + 1]
  /\ Move(j, "ended")
  /\ UNCHANGED <<status, cancelled, child, shown, killed, storeVars, closeVars>>

(* The cleanups are done and SIGTERM has been sent. *)
CloseTerminates ==
  /\ closing = "cleaning"
  /\ \A j \in Jobs : at[j] # "unqueued"
  /\ closing' = "terminating"
  /\ UNCHANGED <<jobVars, storeVars, closed>>

(* Nothing runs any more, or two seconds are over: SIGKILL for the         *)
(* processes of running jobs.                                              *)
CloseKills ==
  /\ closing = "terminating"
  /\ closing' = "killing"
  /\ killed' = killed \cup (Running \cap shown)
  /\ UNCHANGED <<at, status, cancelled, child, shown, cleanups, storeVars, closed>>

(* Nothing runs any more, or the time is up.  The executor drops what it   *)
(* has not started.                                                        *)
CloseReturns ==
  /\ closing = "killing"
  /\ closing' = IF Running = {} THEN "clean" ELSE "unclean"
  /\ at' = [j \in Jobs |-> IF at[j] = "queued" THEN "discarded" ELSE at[j]]
  /\ UNCHANGED <<status, cancelled, child, shown, killed, cleanups, storeVars, closed>>

Next ==
  \/ \E j \in Jobs :
       \/ Submit(j) \/ SubmitFails(j) \/ Start(j) \/ Spawn(j) \/ OpenFails(j)
       \/ Show(j) \/ Check(j) \/ PipeReturns(j) \/ ChildEnds(j) \/ Reaped(j)
       \/ Settle(j) \/ Cleanup(j) \/ Leave(j) \/ Cancel(j) \/ CloseCleans(j)
  \/ CloseBegins \/ CloseTerminates \/ CloseKills \/ CloseReturns

Spec == Init /\ [][Next]_vars

(* Pool threads run on, but a read or write of a pipe may block for as     *)
(* long as the process lives; a process that is being killed, by close or  *)
(* by _terminate_reap, dies; leases and Popen come or fail (the scheduler  *)
(* has a deadline); and close makes progress.                              *)
Fairness ==
  /\ \A j \in Jobs :
       /\ WF_vars(Start(j)) /\ WF_vars(Spawn(j) \/ OpenFails(j))
       /\ WF_vars(Show(j)) /\ WF_vars(Check(j))
       /\ WF_vars(child[j] = "gone" /\ PipeReturns(j))
       /\ WF_vars((j \in killed \/ at[j] = "aborting") /\ ChildEnds(j))
       /\ WF_vars(Reaped(j)) /\ WF_vars(Settle(j)) /\ WF_vars(Cleanup(j))
       /\ WF_vars(Leave(j)) /\ WF_vars(CloseCleans(j))
  /\ WF_vars(CloseTerminates) /\ WF_vars(CloseKills) /\ WF_vars(CloseReturns)

FairSpec == Spec /\ Fairness

-----------------------------------------------------------------------------
(* The type invariant. *)
TypeOK ==
  /\ at \in [Jobs -> Places]
  /\ status \in [Jobs -> {"none", "running", "done", "error", "cancelled"}]
  /\ order \in Seq(Jobs) /\ Len(order) <= MaxKeep
  /\ forgotten \subseteq Jobs
  /\ cancelled \subseteq Jobs /\ shown \subseteq Jobs /\ killed \subseteq Jobs
  /\ child \in [Jobs -> {"none", "alive", "gone"}]
  /\ \A j \in shown : child[j] # "none"
  /\ cleanups \in [Jobs -> 0 .. 1]
  /\ closed \in BOOLEAN
  /\ closing \in Closings

(* When close() has returned True no transfer is left that the store has   *)
(* not forgotten while it ran: no process and no thread that could still   *)
(* start or feed one.                                                      *)
CloseReaps ==
  closing = "clean" =>
    \A j \in Jobs \ forgotten : child[j] # "alive" /\ at[j] \notin InFn \cup {"queued"}

(* The cleanup of an accepted job, which removes the spooled upload and    *)
(* gives its disk budget back, is called once whoever ends the job: its    *)
(* thread, or close() for a job that never ran.  Only a job that the store *)
(* has forgotten may be discarded without it.                              *)
CleanupOnce ==
  \A j \in Jobs : /\ at[j] = "ended" => cleanups[j] = 1
                  /\ at[j] = "discarded" => status[j] = "none" \/ j \in forgotten

(* A job that runs is forgotten only when more jobs were submitted than    *)
(* the store keeps.                                                        *)
OnlyCrowdedOut ==
  forgotten # {} => Cardinality({j \in Jobs : at[j] # "new"}) > MaxKeep

(* The types, one cleanup for each job, and nothing left after close, but  *)
(* for what a long list has crowded out (transfer.py:68-99, 138-185).      *)
JobsConsistent == TypeOK /\ CleanupOnce /\ CloseReaps /\ OnlyCrowdedOut

(* A job that cancel() or close() found running is never reported as done, *)
(* however close to its end it was, and a job nobody cancelled is never    *)
(* reported as cancelled.                                                  *)
CancelHonoured ==
  \A j \in Jobs : status[j] \in {"done", "error", "cancelled"} =>
                    (status[j] = "cancelled" <=> j \in cancelled)

(* After close() every upload the store knows ends, whatever its process   *)
(* does, also one whose process was started after close() had sent its     *)
(* last signal.                                                            *)
UploadsEndAfterClose ==
  \A j \in Jobs \ Downloads :
    closed ~> at[j] \in {"new", "ended", "discarded"} \/ j \in forgotten

(* transfer.py:139: close() reaps every active transfer process.  Not true *)
(* of one that was forgotten (instance of TransferJobsTrim.cfg).           *)
CloseReapsAll == closing = "clean" => \A j \in Jobs : child[j] # "alive"
=============================================================================
