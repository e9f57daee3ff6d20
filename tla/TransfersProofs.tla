-------------------------- MODULE TransfersProofs ---------------------------
(***************************************************************************)
(* File transfers and the spool of uploads, for every number of jobs,      *)
(* uploads, pool threads and bytes.                                        *)
(***************************************************************************)
EXTENDS TransferJobs, UploadSpool, SequenceTheorems, DataLemmas

-----------------------------------------------------------------------------
(***************************************************************************)
(* Transfers (TransferJobs).  First what does not depend on the order of   *)
(* the jobs and on what trimming drops from it: cancel and close find a    *)
(* job running, and only that matters.                                     *)
(***************************************************************************)

Settled == {"done", "error", "cancelled"}

(* A job is over when its status says so: in the finally of _run, after it *)
(* or in the hands of close().                                             *)
PlaceOK(j) ==
  /\ status[j] \in Settled <=> at[j] \in {"cleaning", "leaving", "ended", "unqueued"}
  /\ at[j] = "new" => status[j] = "none"

CleanupOK(j) == cleanups[j] = IF at[j] \in {"leaving", "ended"} THEN 1 ELSE 0

TransferInv ==
  /\ at \in [Jobs -> Places]
  /\ status \in [Jobs -> {"none", "running"} \cup Settled]
  /\ cancelled \subseteq Jobs
  /\ cleanups \in [Jobs -> {0, 1}]
  /\ \A j \in Jobs : PlaceOK(j) /\ CleanupOK(j)
  /\ CancelHonoured

\* No job.
LEMMA TransferInitOK == Init => TransferInv
  BY DEF Init, TransferInv, Places, Settled, PlaceOK, CleanupOK, CancelHonoured

(* One job changes: its new place, status and number of cleanups.          *)
OneJob(j, p, s, n) ==
  /\ at' = [at EXCEPT ![j] = p] /\ status' = [status EXCEPT ![j] = s]
  /\ cleanups' = [cleanups EXCEPT ![j] = n] /\ UNCHANGED cancelled

(* Place, status and number of cleanups go together.                       *)
Matches(j, p, s, n) ==
  /\ p \in Places \ {"new"} /\ s \in {"none", "running"} \cup Settled /\ n \in {0, 1}
  /\ s \in Settled <=> p \in {"cleaning", "leaving", "ended", "unqueued"}
  /\ n = IF p \in {"leaving", "ended"} THEN 1 ELSE 0
  /\ s \in Settled => (s = "cancelled" <=> j \in cancelled)

(* A step that moves one job: its new place, status and number of cleanups *)
(* decide.                                                                 *)
LEMMA TransferStep ==
  ASSUME TransferInv, NEW j \in Jobs, NEW p, NEW s, NEW n, OneJob(j, p, s, n), Matches(j, p, s, n)
  PROVE  TransferInv'
<1>1. at' \in [Jobs -> Places] /\ status' \in [Jobs -> {"none", "running"} \cup Settled]
      /\ cancelled' \subseteq Jobs /\ cleanups' \in [Jobs -> {0, 1}]
  BY DEF TransferInv, OneJob, Matches
<1>2. at'[j] = p /\ status'[j] = s /\ cleanups'[j] = n
  BY DEF TransferInv, OneJob, Matches
<1>3. \A k \in Jobs \ {j} : at'[k] = at[k] /\ status'[k] = status[k] /\ cleanups'[k] = cleanups[k]
  BY DEF TransferInv, OneJob, Matches
<1>4. ASSUME NEW k \in Jobs
      PROVE  /\ PlaceOK(k)' /\ CleanupOK(k)'
             /\ status'[k] \in Settled => (status'[k] = "cancelled" <=> k \in cancelled')
  <2>1. CASE k = j
    BY <1>2, <2>1 DEF PlaceOK, CleanupOK, OneJob, Matches
  <2>2. CASE k # j
    BY <1>3, <2>2 DEF PlaceOK, CleanupOK, TransferInv, CancelHonoured, Settled, OneJob
  <2>3. QED BY <2>1, <2>2
<1>5. QED BY <1>1, <1>4 DEF TransferInv, CancelHonoured, Settled

(* The steps that only move the job, before its status is settled.         *)
LEMMA TransferMoves ==
  ASSUME TransferInv, NEW j \in Jobs, NEW p \in Places,
         at[j] \in InFn \cup {"queued"}, p \in InFn \cup {"returned", "raised"},
         Move(j, p), UNCHANGED <<status, cleanups, cancelled>>
  PROVE  TransferInv'
<1>1. status[j] \in {"none", "running"} \cup Settled /\ cleanups[j] \in {0, 1}
      /\ status' = [status EXCEPT ![j] = status[j]] /\ cleanups' = [cleanups EXCEPT ![j] = cleanups[j]]
  BY DEF TransferInv
<1>2. status[j] \notin Settled /\ cleanups[j] = 0
  BY DEF TransferInv, PlaceOK, CleanupOK, InFn
<1>3. OneJob(j, p, status[j], cleanups[j])
  BY <1>1 DEF OneJob, Move
<1>4. Matches(j, p, status[j], cleanups[j])
  BY <1>1, <1>2 DEF Matches, InFn
<1>5. QED BY <1>3, <1>4, TransferStep

\* The steps of _run before the status is settled.
LEMMA TransferPool ==
  ASSUME TransferInv, NEW j \in Jobs,
         \/ Start(j) \/ Spawn(j) \/ OpenFails(j) \/ Show(j) \/ Check(j) \/ PipeReturns(j) \/ Reaped(j)
  PROVE  TransferInv'
<1>1. UNCHANGED <<status, cleanups, cancelled>>
  BY DEF Start, Spawn, OpenFails, Show, Check, PipeReturns, Reaped
<1>2. at[j] \in InFn \cup {"queued"}
  BY DEF Start, Spawn, OpenFails, Show, Check, PipeReturns, Reaped, InFn
<1>3. \E p \in InFn \cup {"returned", "raised"} : Move(j, p)
  BY Zenon DEF Start, Spawn, OpenFails, Show, Check, PipeReturns, Reaped, InFn
<1>4. PICK p \in InFn \cup {"returned", "raised"} : Move(j, p)
  BY <1>3
<1>5. p \in Places
  BY DEF InFn, Places
<1>6. QED BY <1>1, <1>2, <1>4, <1>5, TransferMoves

\* submit, be the job accepted or refused.
LEMMA TransferSubmits ==
  ASSUME TransferInv, NEW j \in Jobs, Submit(j) \/ SubmitFails(j)
  PROVE  TransferInv'
<1>1. at[j] = "new" /\ UNCHANGED <<cleanups, cancelled>>
  BY DEF Submit, SubmitFails
<1>2. cleanups[j] = 0 /\ cleanups' = [cleanups EXCEPT ![j] = 0]
  BY <1>1 DEF TransferInv, CleanupOK
<1>3. CASE Submit(j)
  <2>1. at' = [at EXCEPT ![j] = "queued"] /\ status' = [status EXCEPT ![j] = "running"]
    BY <1>3 DEF Submit
  <2>2. OneJob(j, "queued", "running", 0)
    BY <1>1, <1>2, <2>1 DEF OneJob
  <2>3. Matches(j, "queued", "running", 0)
    BY DEF Matches, Places, Settled
  <2>4. QED BY <2>2, <2>3, TransferStep
<1>4. CASE SubmitFails(j)
  <2>1. at' = [at EXCEPT ![j] = "discarded"] /\ status' = [status EXCEPT ![j] = "none"]
    BY <1>4 DEF SubmitFails
  <2>2. OneJob(j, "discarded", "none", 0)
    BY <1>1, <1>2, <2>1 DEF OneJob
  <2>3. Matches(j, "discarded", "none", 0)
    BY DEF Matches, Places, Settled
  <2>4. QED BY <2>2, <2>3, TransferStep
<1>5. QED BY <1>3, <1>4

\* _run settles the status under the lock.
LEMMA TransferSettles ==
  ASSUME TransferInv, NEW j \in Jobs, Settle(j)
  PROVE  TransferInv'
<1> DEFINE s == IF j \in cancelled THEN "cancelled" ELSE IF at[j] = "returned" THEN "done" ELSE "error"
<1>1. status' = [status EXCEPT ![j] = s] /\ at' = [at EXCEPT ![j] = "cleaning"]
      /\ UNCHANGED <<cleanups, cancelled>> /\ at[j] \in {"returned", "raised"}
  BY DEF Settle, Move
<1>2. s \in Settled /\ (s = "cancelled" <=> j \in cancelled)
  BY DEF Settled
<1>3. cleanups[j] = 0 /\ cleanups' = [cleanups EXCEPT ![j] = 0]
  BY <1>1 DEF TransferInv, CleanupOK
<1> HIDE DEF s
<1>4. OneJob(j, "cleaning", s, 0)
  BY <1>1, <1>3 DEF OneJob
<1>5. Matches(j, "cleaning", s, 0)
  BY <1>2 DEF Matches, Places
<1>6. QED BY <1>4, <1>5, TransferStep

\* The cleanup, by _run or by close(), and the end of _run.
LEMMA TransferCleans ==
  ASSUME TransferInv, NEW j \in Jobs, Cleanup(j) \/ Leave(j) \/ CloseCleans(j)
  PROVE  TransferInv'
<1>1. UNCHANGED <<status, cancelled>> /\ at[j] \in {"cleaning", "leaving", "unqueued"}
  BY DEF Cleanup, Leave, CloseCleans
<1>2. status[j] \in Settled /\ status' = [status EXCEPT ![j] = status[j]]
  BY <1>1 DEF TransferInv, PlaceOK
<1>3. status[j] = "cancelled" <=> j \in cancelled
  BY <1>2 DEF TransferInv, CancelHonoured, Settled
<1>4. PICK p \in {"leaving", "ended"} : at' = [at EXCEPT ![j] = p]
  BY Zenon DEF Cleanup, Leave, CloseCleans, Move
<1>5. cleanups' = [cleanups EXCEPT ![j] = 1]
  <2>1. CASE Cleanup(j) \/ CloseCleans(j)
    <3>1. cleanups[j] = 0 /\ cleanups' = [cleanups EXCEPT ![j] = cleanups[j] + 1]
      BY <2>1 DEF Cleanup, CloseCleans, TransferInv, CleanupOK
    <3>2. cleanups[j] + 1 = 1
      BY <3>1
    <3>3. QED BY <3>1, <3>2
  <2>3. CASE Leave(j)
    BY <2>3 DEF Leave, TransferInv, CleanupOK
  <2>4. QED BY <2>1, <2>3
<1>6. OneJob(j, p, status[j], 1)
  BY <1>1, <1>2, <1>4, <1>5 DEF OneJob
<1>7. Matches(j, p, status[j], 1)
  BY <1>2, <1>3 DEF Matches, Places
<1>8. QED BY <1>6, <1>7, TransferStep

\* cancel finds a job running.
LEMMA TransferCancels ==
  ASSUME TransferInv, NEW j \in Jobs, Cancel(j)
  PROVE  TransferInv'
<1>1. status[j] = "running" /\ cancelled' = cancelled \cup {j} /\ UNCHANGED <<at, status, cleanups>>
  BY DEF Cancel, Running
<1>2. QED BY <1>1 DEF TransferInv, PlaceOK, CleanupOK, CancelHonoured

\* close() cancels what runs and takes the pending futures back.
LEMMA TransferCloses ==
  ASSUME TransferInv, CloseBegins
  PROVE  TransferInv'
<1> DEFINE pending == {j \in Running : at[j] = "queued"}
<1>1. /\ status' = [j \in Jobs |-> IF j \in pending THEN "cancelled" ELSE status[j]]
      /\ at' = [j \in Jobs |-> IF j \in pending THEN "unqueued" ELSE at[j]]
      /\ cancelled' = cancelled \cup Running /\ UNCHANGED cleanups
  BY DEF CloseBegins
<1>2. \A j \in pending : j \in Jobs /\ j \in Running /\ at[j] = "queued"
  BY DEF Running
<1>3. \A j \in Running : j \in Jobs /\ status[j] = "running"
  BY DEF Running
<1> HIDE DEF pending
<1>4. at' \in [Jobs -> Places] /\ status' \in [Jobs -> {"none", "running"} \cup Settled]
      /\ cancelled' \subseteq Jobs /\ cleanups' \in [Jobs -> {0, 1}]
  BY <1>1, <1>3 DEF TransferInv, Places, Settled
<1>5. ASSUME NEW k \in Jobs
      PROVE  /\ PlaceOK(k)' /\ CleanupOK(k)'
             /\ status'[k] \in Settled => (status'[k] = "cancelled" <=> k \in cancelled')
  <2>1. CASE k \in pending
    BY <1>1, <1>2, <2>1 DEF TransferInv, PlaceOK, CleanupOK, Settled
  <2>2. CASE k \notin pending
    BY <1>1, <1>3, <2>2 DEF TransferInv, PlaceOK, CleanupOK, Settled, CancelHonoured
  <2>3. QED BY <2>1, <2>2
<1>6. QED BY <1>4, <1>5 DEF TransferInv, CancelHonoured, Settled

\* The executor drops what it has not started.
LEMMA TransferReturns ==
  ASSUME TransferInv, CloseReturns
  PROVE  TransferInv'
<1>1. at' = [j \in Jobs |-> IF at[j] = "queued" THEN "discarded" ELSE at[j]]
      /\ UNCHANGED <<status, cancelled, cleanups>>
  BY DEF CloseReturns
<1>2. at' \in [Jobs -> Places] /\ CancelHonoured'
  BY <1>1 DEF TransferInv, Places, CancelHonoured
<1>3. \A k \in Jobs : PlaceOK(k)' /\ CleanupOK(k)'
  BY <1>1 DEF TransferInv, PlaceOK, CleanupOK
<1>4. QED BY <1>1, <1>2, <1>3 DEF TransferInv

\* Every step keeps the invariant.
LEMMA TransferNextKeeps == TransferInv /\ [Next]_vars => TransferInv'
<1> SUFFICES ASSUME TransferInv, [Next]_vars PROVE TransferInv'
  OBVIOUS
<1>1. CASE UNCHANGED <<at, status, cancelled, cleanups>>
  BY <1>1 DEF TransferInv, PlaceOK, CleanupOK, CancelHonoured
<1>2. CASE UNCHANGED vars
  BY <1>1, <1>2 DEF vars, jobVars
<1>3. ASSUME NEW j \in Jobs,
             \/ Submit(j) \/ SubmitFails(j) \/ Start(j) \/ Spawn(j) \/ OpenFails(j)
             \/ Show(j) \/ Check(j) \/ PipeReturns(j) \/ ChildEnds(j) \/ Reaped(j)
             \/ Settle(j) \/ Cleanup(j) \/ Leave(j) \/ Cancel(j) \/ CloseCleans(j)
      PROVE  TransferInv'
  <2>1. CASE ChildEnds(j)
    BY <1>1, <2>1 DEF ChildEnds
  <2>2. QED
    BY <1>3, <2>1, TransferSubmits, TransferPool, TransferSettles, TransferCleans, TransferCancels
<1>4. CASE CloseTerminates
  BY <1>1, <1>4 DEF CloseTerminates, jobVars
<1>5. CASE CloseKills
  BY <1>1, <1>5 DEF CloseKills
<1>6. QED BY <1>2, <1>3, <1>4, <1>5, TransferCloses, TransferReturns DEF Next

(* A transfer that cancel() or close() found running is never reported as  *)
(* done or failed, and none is reported as cancelled that nobody cancelled *)
(* (transfer.py:68-77, 101-115, 138-185), for any number of transfers and  *)
(* of pool threads.                                                        *)
THEOREM CancelAlwaysHonoured == Spec => []CancelHonoured
<1>1. TransferInv => CancelHonoured
  BY DEF TransferInv
<1>2. QED BY <1>1, TransferInitOK, TransferNextKeeps, PTL DEF Spec

(* What a thread of the pool, or close(), has finished was cleaned up      *)
(* exactly once, and nothing else was (transfer.py:78-84, 138-185).        *)
THEOREM EndedJobsCleanedOnce ==
  Spec => [](\A j \in Jobs : cleanups[j] = IF at[j] \in {"leaving", "ended"} THEN 1 ELSE 0)
<1>1. TransferInv => \A j \in Jobs : cleanups[j] = IF at[j] \in {"leaving", "ended"} THEN 1 ELSE 0
  BY DEF TransferInv, CleanupOK
<1>2. QED BY <1>1, TransferInitOK, TransferNextKeeps, PTL DEF Spec

(* A status that is settled is not changed any more: close() does not take *)
(* back what _run has reported, nor _run what close() has (transfer.py:    *)
(* 68-77, 138-185).                                                        *)
THEOREM SettledStays ==
  Spec => [][\A j \in Jobs : status[j] \in Settled => status'[j] = status[j]]_vars
<1>1. TransferInv /\ [Next]_vars => [\A j \in Jobs : status[j] \in Settled => status'[j] = status[j]]_vars
  <2> SUFFICES ASSUME TransferInv, Next, NEW j \in Jobs, status[j] \in Settled
               PROVE  status'[j] = status[j]
    OBVIOUS
  <2>1. at[j] \in {"cleaning", "leaving", "ended", "unqueued"}
    BY DEF TransferInv, PlaceOK
  <2>2. CASE UNCHANGED status
    BY <2>2
  <2>3. ASSUME NEW k \in Jobs, NEW s, status' = [status EXCEPT ![k] = s], at[k] \in {"new", "returned", "raised"}
        PROVE  status'[j] = status[j]
    BY <2>1, <2>3 DEF TransferInv
  <2>4. CASE CloseBegins
    <3>1. j \notin Running
      BY DEF Running, Settled
    <3>2. QED BY <2>4, <3>1 DEF CloseBegins, TransferInv
  <2>5. ASSUME NEW k \in Jobs, Submit(k) \/ SubmitFails(k) \/ Settle(k)
        PROVE  status'[j] = status[j]
    <3>1. at[k] \in {"new", "returned", "raised"} /\ \E s : status' = [status EXCEPT ![k] = s]
      BY <2>5, Zenon DEF Submit, SubmitFails, Settle
    <3>2. QED BY <2>3, <3>1
  <2>6. ASSUME NEW k \in Jobs,
             \/ Start(k) \/ Spawn(k) \/ OpenFails(k)
             \/ Show(k) \/ Check(k) \/ PipeReturns(k) \/ ChildEnds(k) \/ Reaped(k)
             \/ Cleanup(k) \/ Leave(k) \/ Cancel(k) \/ CloseCleans(k)
        PROVE  UNCHANGED status
    BY <2>6 DEF Start, Spawn, OpenFails, Show, Check, PipeReturns, ChildEnds, Reaped,
       Cleanup, Leave, Cancel, CloseCleans
  <2>7. CASE CloseTerminates \/ CloseKills \/ CloseReturns
    BY <2>2, <2>7 DEF CloseTerminates, CloseKills, CloseReturns, jobVars
  <2>8. QED BY <2>2, <2>4, <2>5, <2>6, <2>7 DEF Next
<1>2. QED BY <1>1, TransferInitOK, TransferNextKeeps, PTL DEF Spec

-----------------------------------------------------------------------------
(***************************************************************************)
(* Nothing is left after close().  What close() and cancel see of a store  *)
(* are the jobs in _order; a job that runs is one of them, unless          *)
(* _trim_locked has dropped it, and then more jobs were submitted than it  *)
(* keeps.                                                                  *)
(***************************************************************************)

(* The places in which fn has a process. *)
WithChild == {"spawned", "checking", "moving", "finishing", "aborting"}
(* The types of what TransferInv leaves out. *)
JobTyped ==
  /\ order \in Seq(Jobs) /\ Distinct(order)
  /\ child \in [Jobs -> {"none", "alive", "gone"}]
  /\ shown \subseteq Jobs /\ killed \subseteq Jobs /\ forgotten \subseteq Jobs
  /\ closed \in BOOLEAN /\ closing \in Closings

(* A job between submit and its result is running, and listed if it was    *)
(* not forgotten; its process lives only inside fn, and a job that the     *)
(* executor dropped has no status or was forgotten.                        *)
JobOK(j) ==
  /\ at[j] \in InFn \cup {"queued", "returned", "raised"} => status[j] = "running"
  /\ status[j] = "running" => j \in Listed(order) \cup forgotten
  /\ j \in Listed(order) \cup forgotten => at[j] # "new"
  /\ child[j] = "alive" => at[j] \in WithChild
  /\ at[j] \in WithChild => child[j] # "none"
  /\ j \in shown => child[j] # "none"
  /\ at[j] = "discarded" => status[j] = "none" \/ j \in forgotten

(* close() leaves no job queued, and returns True only when none runs, but *)
(* for those forgotten.                                                    *)
CloseOK ==
  /\ closed <=> closing # "open"
  /\ closed => \A j \in Jobs : at[j] = "queued" => j \in forgotten
  /\ closing = "clean" => \A j \in Jobs : status[j] = "running" => j \in forgotten

(* The jobs that have been submitted. *)
Submitted == {j \in Jobs : at[j] # "new"}

(* The list is no longer than it may be, and one that was too long had     *)
(* jobs that were all submitted.                                           *)
CrowdOK ==
  /\ Len(order) <= MaxKeep
  /\ forgotten # {} => Cardinality(Submitted) > MaxKeep

(* The inductive invariant of the store. *)
JobsInv == TransferInv /\ JobTyped /\ (\A j \in Jobs : JobOK(j)) /\ CloseOK /\ CrowdOK

(* A job that was submitted stays so. *)
LEMMA CrowdStays ==
  ASSUME CrowdOK, UNCHANGED <<order, forgotten>>, \A k \in Jobs : at[k] # "new" => at'[k] # "new"
  PROVE  CrowdOK'
<1>1. Submitted \subseteq Submitted' /\ Submitted' \subseteq Jobs
  BY DEF Submitted
<1>2. IsFiniteSet(Submitted') /\ Cardinality(Submitted') \in Nat
  BY <1>1, FS_Subset, FS_CardinalityType, TransferAssumption
<1>3. Cardinality(Submitted) <= Cardinality(Submitted') /\ Cardinality(Submitted) \in Nat
  BY <1>1, <1>2, FS_Subset, FS_CardinalityType
<1>4. QED BY <1>2, <1>3, TransferAssumption DEF CrowdOK

(* A step that moves one job and leaves the store's lists alone.           *)
LEMMA JobsMove ==
  ASSUME JobsInv, TransferInv', NEW j \in Jobs, NEW p \in Places, NEW c \in {"none", "alive", "gone"},
         Move(j, p), child' = [child EXCEPT ![j] = c],
         shown' \subseteq Jobs, \A k \in Jobs \ {j} : k \in shown' => k \in shown,
         \A k \in Jobs \ {j} : status'[k] = status[k],
         UNCHANGED <<order, forgotten, killed, closed, closing>>, p \notin {"new", "queued"},
         status'[j] = "running" => status[j] = "running",
         JobOK(j)'
  PROVE  JobsInv'
<1>1. JobTyped'
  BY DEF JobsInv, JobTyped
<1>2. at'[j] = p /\ child'[j] = c /\ \A k \in Jobs \ {j} : at'[k] = at[k] /\ child'[k] = child[k]
  BY DEF JobsInv, JobTyped, TransferInv, Move
<1>3. ASSUME NEW k \in Jobs, k # j PROVE JobOK(k)'
  <2>1. /\ JobOK(k) /\ at'[k] = at[k] /\ child'[k] = child[k] /\ status'[k] = status[k]
        /\ order' = order /\ forgotten' = forgotten
    BY <1>2, <1>3 DEF JobsInv
  <2>2. QED BY <1>3, <2>1 DEF JobOK
<1>4. CloseOK'
  BY <1>2 DEF JobsInv, CloseOK
<1>6. CrowdOK'
  BY <1>2, CrowdStays DEF JobsInv
<1>5. QED BY <1>1, <1>3, <1>4, <1>6 DEF JobsInv

(* The steps of _run up to the end of fn. *)
LEMMA JobsPool ==
  ASSUME JobsInv, TransferInv', NEW j \in Jobs,
         \/ Start(j) \/ Spawn(j) \/ OpenFails(j) \/ Show(j) \/ Check(j) \/ PipeReturns(j) \/ Reaped(j)
  PROVE  JobsInv'
<1>1. /\ UNCHANGED <<status, order, forgotten, killed, closed, closing>>
      /\ at[j] \in InFn \cup {"queued"}
  BY DEF Start, Spawn, OpenFails, Show, Check, PipeReturns, Reaped, InFn, closeVars, storeVars
<1>2. /\ JobOK(j) /\ shown \subseteq Jobs /\ at \in [Jobs -> Places]
      /\ child \in [Jobs -> {"none", "alive", "gone"}]
  BY DEF JobsInv, JobTyped, TransferInv
<1>3. status[j] = "running" /\ j \in Listed(order) \cup forgotten /\ child' \in [Jobs -> {"none", "alive", "gone"}]
  BY <1>1, <1>2 DEF JobOK, InFn, Start, Spawn, OpenFails, Show, Check, PipeReturns, Reaped
<1>4. ASSUME NEW p, NEW c, NEW sh, Move(j, p), child' = [child EXCEPT ![j] = c], shown' = sh,
             p \in InFn \cup {"returned", "raised"}, c \in {"none", "alive", "gone"},
             sh \subseteq shown \cup {j},
             c = "alive" => p \in WithChild, p \in WithChild => c # "none", j \in sh => c # "none"
      PROVE  JobsInv'
  <2>1. at'[j] = p /\ child'[j] = c /\ p \in Places /\ p \notin {"new", "queued", "discarded"}
    BY <1>2, <1>4 DEF Move, InFn, Places
  <2>2. JobOK(j)'
    BY <1>1, <1>3, <1>4, <2>1 DEF JobOK
  <2>3. QED BY <1>1, <1>2, <1>4, <2>1, <2>2, JobsMove
<1>5. child' = [child EXCEPT ![j] = child[j]] \/ Spawn(j)
  BY <1>2 DEF Start, OpenFails, Show, Check, PipeReturns, Reaped
<1>6. CASE Start(j)
  BY <1>2, <1>4, <1>5, <1>6 DEF Start, JobOK, InFn, WithChild
<1>7. CASE Spawn(j)
  BY <1>2, <1>4, <1>7 DEF Spawn, JobOK, InFn, WithChild
<1>8. CASE OpenFails(j)
  BY <1>2, <1>4, <1>5, <1>8 DEF OpenFails, JobOK, InFn, WithChild
<1>9. CASE Show(j)
  BY <1>2, <1>4, <1>5, <1>9 DEF Show, JobOK, InFn, WithChild
<1>10. CASE Check(j)
  BY <1>2, <1>4, <1>5, <1>10 DEF Check, JobOK, InFn, WithChild
<1>11. CASE PipeReturns(j)
  BY <1>2, <1>4, <1>5, <1>11 DEF PipeReturns, JobOK, InFn, WithChild
<1>12. CASE Reaped(j)
  BY <1>2, <1>4, <1>5, <1>12 DEF Reaped, JobOK, InFn, WithChild
<1>13. QED BY <1>6, <1>7, <1>8, <1>9, <1>10, <1>11, <1>12

(* The steps that settle the status and clean up, and the end of a process. *)
LEMMA JobsSettle ==
  ASSUME JobsInv, TransferInv', NEW j \in Jobs,
         Settle(j) \/ Cleanup(j) \/ Leave(j) \/ CloseCleans(j) \/ ChildEnds(j)
  PROVE  JobsInv'
<1>1. /\ UNCHANGED <<order, forgotten, shown, killed, closed, closing>>
      /\ \A k \in Jobs \ {j} : status'[k] = status[k]
  BY DEF Settle, Cleanup, Leave, CloseCleans, ChildEnds, closeVars, storeVars, JobsInv, TransferInv
<1>2. /\ JobOK(j) /\ PlaceOK(j) /\ shown \subseteq Jobs /\ at \in [Jobs -> Places]
      /\ status \in [Jobs -> {"none", "running"} \cup Settled] /\ PlaceOK(j)'
      /\ child \in [Jobs -> {"none", "alive", "gone"}]
  BY DEF JobsInv, JobTyped, TransferInv
<1>3. CASE ChildEnds(j)
  <2>1. at[j] \in WithChild /\ UNCHANGED <<at, status>> /\ child' = [child EXCEPT ![j] = "gone"]
        /\ at' = [at EXCEPT ![j] = at[j]]
    BY <1>2, <1>3 DEF ChildEnds, JobOK
  <2>2. child'[j] = "gone" /\ at[j] \notin {"new", "queued"} /\ at[j] \in Places
    BY <1>2, <2>1 DEF WithChild
  <2>3. JobOK(j)'
    BY <1>1, <1>2, <2>1, <2>2 DEF JobOK
  <2>4. QED BY <1>1, <1>2, <2>1, <2>2, <2>3, JobsMove DEF Move
<1>4. CASE Settle(j) \/ Cleanup(j) \/ Leave(j) \/ CloseCleans(j)
  <2>1. PICK p \in {"cleaning", "leaving", "ended"} : Move(j, p)
    BY <1>4, Zenon DEF Settle, Cleanup, Leave, CloseCleans
  <2>2. child' = [child EXCEPT ![j] = child[j]] /\ at[j] \notin WithChild /\ child'[j] = child[j]
    BY <1>2, <1>4 DEF Settle, Cleanup, Leave, CloseCleans, WithChild
  <2>3. at'[j] = p /\ p \in Places /\ p \notin {"new", "queued", "discarded"} /\ p \notin WithChild
        /\ p \notin InFn \cup {"queued", "returned", "raised"}
    BY <1>2, <2>1 DEF Move, Places, WithChild, InFn
  <2>4. status'[j] # "running" /\ at[j] # "new"
    BY <1>2, <1>4, <2>3 DEF PlaceOK, Settled, Settle, Cleanup, Leave, CloseCleans
  <2>5. JobOK(j)'
    BY <1>1, <1>2, <2>2, <2>3, <2>4 DEF JobOK
  <2>6. QED BY <1>1, <1>2, <2>1, <2>2, <2>3, <2>4, <2>5, JobsMove
<1>5. QED BY <1>3, <1>4

(* Without keeps the last key when it is not in gone. *)
LEMMA WithoutLast ==
  ASSUME NEW E, NEW tab \in Seq(E), NEW gone, Len(tab) > 0, tab[Len(tab)] \notin gone
  PROVE  /\ Len(Without(tab, gone)) > 0
         /\ Without(tab, gone)[Len(Without(tab, gone))] = tab[Len(tab)]
<1>1. PICK k : Keeps(k, E, tab, gone)
  BY WithoutRec
<1> DEFINE n == Len(tab)
           a == k[n - 1]
<1>2. n \in 1 .. Len(tab) /\ n - 1 \in 0 .. Len(tab) /\ tab[n] \in E
  OBVIOUS
<1>3. a \in Seq(E) /\ Without(tab, gone) = k[n]
  BY <1>1, <1>2 DEF Keeps
<1>4. k[n] = Append(a, tab[n])
  BY <1>1, <1>2 DEF Keeps
<1> HIDE DEF a, n
<1>5. QED BY <1>2, <1>3, <1>4, AppendEntries DEF n

(* The end of a list. *)
LEMMA LastOfFacts ==
  ASSUME NEW E, NEW w \in Seq(E), Distinct(w), NEW n \in Nat \ {0}
  PROVE  /\ LastOf(w, n) \in Seq(E) /\ Distinct(LastOf(w, n)) /\ Len(LastOf(w, n)) <= n
         /\ Listed(LastOf(w, n)) \subseteq Listed(w)
         /\ Len(w) > 0 => w[Len(w)] \in Listed(LastOf(w, n))
         /\ Len(w) <= n => LastOf(w, n) = w
<1>1. CASE Len(w) <= n
  <2>1. LastOf(w, n) = w
    BY <1>1 DEF LastOf
  <2>2. Len(w) > 0 => Len(w) \in DOMAIN w
    OBVIOUS
  <2>3. QED BY <1>1, <2>1, <2>2 DEF Listed
<1>2. CASE Len(w) > n
  <2> DEFINE m == Len(w) - n
             v == LastOf(w, n)
  <2>1. v = SubSeq(w, m + 1, Len(w)) /\ m \in Nat /\ m + 1 \in 1 .. Len(w) /\ Len(w) \in Nat
    BY <1>2 DEF LastOf
  <2>2. /\ v \in Seq(E) /\ Len(v) = n
        /\ \A i \in 1 .. n : v[i] = w[m + i] /\ m + i \in 1 .. Len(w)
    <3>1. /\ m + 1 \in Int /\ Len(w) \in Int /\ Len(w) - (m + 1) + 1 = n /\ m + 1 <= Len(w)
          /\ \A i \in m + 1 .. Len(w) : w[i] \in E
      BY <1>2, <2>1
    <3> HIDE DEF m, v
    <3>2. v \in Seq(E) /\ Len(v) = n /\ \A i \in 1 .. n : v[i] = w[(m + 1) + i - 1]
      BY <2>1, <3>1, SubSeqProperties
    <3>3. \A i \in 1 .. n : (m + 1) + i - 1 = m + i /\ m + i \in 1 .. Len(w)
      BY <2>1, <3>1
    <3>4. QED BY <3>2, <3>3
  <2>3. DOMAIN v = 1 .. n /\ DOMAIN w = 1 .. Len(w) /\ n \in 1 .. n /\ m + n = Len(w)
    BY <2>1, <2>2
  <2> HIDE DEF v
  <2>4. Distinct(v)
    <3>1. ASSUME NEW i \in 1 .. n, NEW j \in 1 .. n, v[i] = v[j] PROVE i = j
      <4>1. m + i \in 1 .. Len(w) /\ m + j \in 1 .. Len(w) /\ w[m + i] = w[m + j]
        BY <2>2, <3>1
      <4>2. m + i = m + j
        BY <4>1, Zenon DEF Distinct
      <4>3. QED BY <2>1, <4>2
    <3>2. QED BY <2>2, <3>1 DEF Distinct
  <2>5. Listed(v) \subseteq Listed(w)
    BY <2>2, <2>3 DEF Listed
  <2>6. w[Len(w)] \in Listed(v)
    BY <2>2, <2>3, Zenon DEF Listed
  <2>7. QED BY <1>2, <2>1, <2>2, <2>4, <2>5, <2>6 DEF v
<1>3. QED BY <1>1, <1>2

(* Trimming keeps the last job, and forgets one that runs only when the    *)
(* list was longer than it may be.                                         *)
LEMMA TrimKeeps ==
  ASSUME NEW s \in Seq(Jobs), Distinct(s), NEW young
  PROVE  /\ Trimmed(s, young) \in Seq(Jobs) /\ Distinct(Trimmed(s, young))
         /\ Len(Trimmed(s, young)) <= MaxKeep
         /\ Listed(Trimmed(s, young)) \subseteq Listed(s)
         /\ Len(s) > 0 /\ status'[s[Len(s)]] = "running" => s[Len(s)] \in Listed(Trimmed(s, young))
         /\ Len(s) <= MaxKeep =>
              \A k \in Listed(s) : status'[k] = "running" => k \in Listed(Trimmed(s, young))
<1> DEFINE gone == {k \in Jobs : status'[k] # "running" /\ k \notin young}
<1> DEFINE w == Without(s, gone)
<1>1. w \in Seq(Jobs) /\ Len(w) <= Len(s) /\ Listed(w) = Listed(s) \ gone /\ Distinct(w)
  BY WithoutFacts
<1>2. Trimmed(s, young) = LastOf(w, MaxKeep)
  BY DEF Trimmed
<1>3. \A k : status'[k] = "running" => k \notin gone
  OBVIOUS
<1>4. Len(s) > 0 /\ s[Len(s)] \notin gone => Len(w) > 0 /\ w[Len(w)] = s[Len(s)]
  <2> HIDE DEF gone
  <2>1. QED BY WithoutLast
<1> HIDE DEF w, gone
<1>5. Len(w) \in Nat /\ Len(s) \in Nat /\ MaxKeep \in Nat \ {0}
  BY <1>1, TransferAssumption
<1> DEFINE t == LastOf(w, MaxKeep)
<1>6. /\ t \in Seq(Jobs) /\ Distinct(t) /\ Len(t) <= MaxKeep /\ Listed(t) \subseteq Listed(w)
      /\ Len(w) > 0 => w[Len(w)] \in Listed(t)
      /\ Len(w) <= MaxKeep => t = w
  BY <1>1, <1>5, LastOfFacts
<1>7. Trimmed(s, young) = t
  BY <1>2
<1> HIDE DEF t
<1>8. Len(s) > 0 /\ status'[s[Len(s)]] = "running" => s[Len(s)] \in Listed(t)
  BY <1>3, <1>4, <1>6
<1>9. Len(s) <= MaxKeep => \A k \in Listed(s) : status'[k] = "running" => k \in Listed(t)
  <2> SUFFICES ASSUME Len(s) <= MaxKeep PROVE \A k \in Listed(s) : status'[k] = "running" => k \in Listed(t)
    OBVIOUS
  <2>1. Len(w) <= MaxKeep
    BY <1>1, <1>5
  <2>2. t = w
    BY <1>6, <2>1
  <2>3. QED BY <1>1, <1>3, <2>2
<1>10. Listed(t) \subseteq Listed(s)
  BY <1>1, <1>6
<1>11. QED BY <1>6, <1>7, <1>8, <1>9, <1>10

(* submit, be the job accepted or taken back. *)
LEMMA JobsSubmit ==
  ASSUME JobsInv, TransferInv', NEW j \in Jobs, Submit(j) \/ SubmitFails(j)
  PROVE  JobsInv'
<1> DEFINE s == Append(order, j)
<1>1. /\ at[j] = "new" /\ ~closed /\ UNCHANGED <<cancelled, child, shown, killed, cleanups, closed, closing>>
      /\ forgotten' = forgotten \cup (Running \ Listed(order'))
  BY DEF Submit, SubmitFails, CutOff, closeVars
<1>2. /\ JobOK(j) /\ JobTyped /\ at \in [Jobs -> Places]
      /\ status \in [Jobs -> {"none", "running"} \cup Settled]
  BY DEF JobsInv, TransferInv
<1>3. j \notin Listed(order) \cup forgotten /\ order \in Seq(Jobs) /\ Distinct(order) /\ status[j] = "none"
  BY <1>1, <1>2 DEF JobOK, JobTyped, JobsInv, TransferInv, PlaceOK
<1>4. /\ s \in Seq(Jobs) /\ Distinct(s) /\ Listed(s) = Listed(order) \cup {j}
      /\ Len(s) = Len(order) + 1 /\ s[Len(s)] = j /\ Len(s) > 0
  BY <1>3, AppendListed, AppendEntries
<1> HIDE DEF s
<1>5. PICK p \in {"queued", "discarded"} : /\ at' = [at EXCEPT ![j] = p]
                                           /\ p = "queued" => Submit(j)
                                           /\ p = "discarded" => SubmitFails(j)
  BY Zenon DEF Submit, SubmitFails
<1>6. \A k \in Jobs \ {j} : status'[k] = status[k] /\ at'[k] = at[k]
  BY <1>2, <1>5 DEF Submit, SubmitFails
<1>7. at'[j] = p /\ status'[j] = IF p = "queued" THEN "running" ELSE "none"
  BY <1>2, <1>5 DEF Submit, SubmitFails
<1>8. /\ order' \in Seq(Jobs) /\ Distinct(order)' /\ Len(order') <= MaxKeep
      /\ \A k \in Listed(order') : k \in Listed(s) /\ (p = "discarded" => k # j)
      /\ p = "queued" => j \in Listed(order')
      /\ Len(s) <= MaxKeep => \A k \in Listed(s) : status'[k] = "running" => k \in Listed(order')
  <2>1. CASE p = "queued"
    <3>1. PICK young : order' = Trimmed(s, young)
      BY <1>5, <2>1, Zenon DEF Submit, s
    <3> DEFINE t == Trimmed(s, young)
    <3>2. /\ t \in Seq(Jobs) /\ Distinct(t) /\ Len(t) <= MaxKeep /\ Listed(t) \subseteq Listed(s)
          /\ status'[j] = "running" => j \in Listed(t)
          /\ Len(s) <= MaxKeep => \A k \in Listed(s) : status'[k] = "running" => k \in Listed(t)
      BY <1>4, TrimKeeps
    <3> HIDE DEF t
    <3>3. QED BY <1>7, <2>1, <3>1, <3>2 DEF t
  <2>2. CASE p = "discarded"
    <3>1. PICK young : order' = Without(Trimmed(s, young), {j})
      BY <1>5, <2>2, Zenon DEF SubmitFails, s
    <3> DEFINE t == Trimmed(s, young)
    <3>2. /\ t \in Seq(Jobs) /\ Distinct(t) /\ Len(t) <= MaxKeep /\ Listed(t) \subseteq Listed(s)
          /\ Len(s) <= MaxKeep => \A k \in Listed(s) : status'[k] = "running" => k \in Listed(t)
      BY <1>4, TrimKeeps
    <3> HIDE DEF t
    <3>3. /\ order' \in Seq(Jobs) /\ Distinct(order') /\ Listed(order') = Listed(t) \ {j}
          /\ Len(order') <= Len(t)
      BY <3>1, <3>2, WithoutFacts DEF t
    <3>4. status'[j] # "running"
      BY <1>7, <2>2
    <3>5. Len(order') <= MaxKeep
      BY <3>2, <3>3, TransferAssumption
    <3>6. QED BY <2>2, <3>2, <3>3, <3>4, <3>5
  <2>3. QED BY <1>5, <2>1, <2>2
<1>9. JobTyped'
  BY <1>1, <1>2, <1>8 DEF JobTyped, Running
<1>10. ASSUME NEW k \in Jobs PROVE JobOK(k)'
  <2>2. CASE k = j
    <3>1. p \in InFn \cup {"queued", "returned", "raised"} <=> p = "queued"
      BY <1>5 DEF InFn
    <3>2. at'[k] = p /\ p # "new" /\ p \notin WithChild /\ child'[k] # "alive"
      BY <1>1, <1>2, <1>5, <1>7, <2>2 DEF WithChild, JobOK
    <3>3. k \in shown' => child'[k] # "none"
      BY <1>1, <1>2, <2>2 DEF JobOK
    <3>4. status'[k] = "running" => k \in Listed(order')
      BY <1>5, <1>7, <1>8, <2>2
    <3>5. QED BY <1>5, <1>7, <2>2, <3>1, <3>2, <3>3, <3>4 DEF JobOK
  <2>3. CASE k # j
    <3>1. JobOK(k) /\ at'[k] = at[k] /\ status'[k] = status[k] /\ child'[k] = child[k] /\ shown' = shown
      BY <1>1, <1>6, <2>3 DEF JobsInv
    <3>2. status'[k] = "running" => k \in Listed(order') \cup forgotten'
      BY <1>1, <3>1 DEF JobOK, Running
    <3>3. k \in Listed(order') \cup forgotten' => k \in Listed(order) \cup forgotten
      BY <1>1, <1>4, <1>8, <2>3 DEF Running
    <3>4. k \in forgotten => k \in forgotten'
      BY <1>1
    <3>5. QED BY <3>1, <3>2, <3>3, <3>4 DEF JobOK
  <2>4. QED BY <2>2, <2>3
<1>11. CloseOK'
  BY <1>1 DEF JobsInv, CloseOK
<1>12. CrowdOK'
  <2>1. SUFFICES ASSUME forgotten' # {} PROVE Cardinality(Submitted') > MaxKeep
    BY <1>8 DEF CrowdOK
  <2>2. Submitted' = Submitted \cup {j} /\ j \notin Submitted
    BY <1>1, <1>5, <1>6, <1>7 DEF Submitted
  <2>3. /\ IsFiniteSet(Submitted) /\ Cardinality(Submitted) \in Nat
    <3>1. Submitted \subseteq Jobs
      BY DEF Submitted
    <3>2. QED BY <3>1, FS_Subset, FS_CardinalityType, TransferAssumption
  <2>4. Cardinality(Submitted') = Cardinality(Submitted) + 1 /\ IsFiniteSet(Submitted')
    BY <2>2, <2>3, FS_AddElement
  <2>5. CASE forgotten # {}
    <3>1. Cardinality(Submitted) > MaxKeep
      BY <2>5 DEF JobsInv, CrowdOK
    <3>2. QED BY <2>3, <2>4, <3>1, TransferAssumption
  <2>6. CASE forgotten = {}
    <3>1. PICK k \in Running : k \notin Listed(order')
      BY <1>1, <2>1, <2>6
    <3>2. k \in Listed(s) /\ status'[k] = "running" /\ k # j
      BY <1>3, <1>4, <1>6, <3>1 DEF Running
    <3>3. ~(Len(s) <= MaxKeep)
      BY <1>8, <3>1, <3>2
    <3>4. IsFiniteSet(Listed(s)) /\ Cardinality(Listed(s)) = Len(s)
      BY <1>4, DistinctCount
    <3>5. \A x \in Listed(order) : x \in Jobs /\ at[x] # "new"
      <4>1. Listed(order) \subseteq Jobs
        BY <1>3 DEF Listed
      <4>2. QED BY <4>1 DEF JobsInv, JobOK
    <3>6. Listed(s) \subseteq Submitted'
      BY <1>4, <2>2, <3>5 DEF Submitted
    <3>7. Len(s) <= Cardinality(Submitted') /\ Len(s) \in Nat
      BY <1>4, <2>4, <3>4, <3>6, FS_Subset
    <3>8. QED BY <2>3, <2>4, <3>3, <3>7, TransferAssumption
  <2>7. QED BY <2>5, <2>6
<1>13. QED BY <1>9, <1>10, <1>11, <1>12 DEF JobsInv

(* cancel, and the steps of close(). *)
LEMMA JobsClose ==
  ASSUME JobsInv, TransferInv',
         \/ \E j \in Jobs : Cancel(j)
         \/ CloseBegins \/ CloseTerminates \/ CloseKills \/ CloseReturns
  PROVE  JobsInv'
<1>1. UNCHANGED <<order, forgotten, child, shown>> /\ JobTyped /\ CloseOK /\ TransferInv /\ CrowdOK
  BY DEF Cancel, CloseBegins, CloseTerminates, CloseKills, CloseReturns, jobVars, storeVars, JobsInv
<1>2. \A j \in Jobs : status[j] = "running" => j \in Running \/ j \in forgotten
  BY DEF Running, JobsInv, JobOK
<1>3. CASE CloseBegins
  <2> DEFINE pending == {j \in Running : at[j] = "queued"}
  <2>1. /\ status' = [j \in Jobs |-> IF j \in pending THEN "cancelled" ELSE status[j]]
        /\ at' = [j \in Jobs |-> IF j \in pending THEN "unqueued" ELSE at[j]]
        /\ closed' = TRUE /\ closing' = "cleaning" /\ killed' = killed
    BY <1>3 DEF CloseBegins
  <2>2. \A j \in Jobs : j \in pending <=> j \in Running /\ at[j] = "queued"
    OBVIOUS
  <2> HIDE DEF pending
  <2>3. \A j \in Jobs : /\ at'[j] = IF j \in pending THEN "unqueued" ELSE at[j]
                        /\ status'[j] = IF j \in pending THEN "cancelled" ELSE status[j]
    BY <2>1
  <2>4. JobTyped'
    BY <1>1, <2>1 DEF JobTyped, Closings
  <2>5. ASSUME NEW j \in Jobs PROVE JobOK(j)'
    <3>1. JobOK(j)
      BY DEF JobsInv
    <3>2. CASE j \in pending
      BY <1>1, <2>2, <2>3, <3>1, <3>2 DEF JobOK, InFn, WithChild
    <3>3. CASE j \notin pending
      BY <1>1, <2>3, <3>1, <3>3 DEF JobOK
    <3>4. QED BY <3>2, <3>3
  <2>6. CloseOK'
    <3>1. ASSUME NEW j \in Jobs, at'[j] = "queued" PROVE j \in forgotten
      <4>1. at[j] = "queued" /\ j \notin pending
        BY <2>3, <3>1
      <4>2. status[j] = "running" /\ j \notin Running
        BY <2>2, <4>1 DEF JobsInv, JobOK
      <4>3. QED BY <1>2, <4>2
    <3>2. QED BY <1>1, <2>1, <3>1 DEF CloseOK
  <2>7. CrowdOK'
    BY <1>1, <2>3, CrowdStays
  <2>8. QED BY <2>4, <2>5, <2>6, <2>7 DEF JobsInv
<1>4. ASSUME UNCHANGED <<at, status, closed>>, killed' \subseteq Jobs,
             \/ UNCHANGED closing
             \/ closing = "cleaning" /\ closing' = "terminating"
             \/ closing = "terminating" /\ closing' = "killing"
      PROVE  JobsInv'
  <2>1. JobTyped'
    BY <1>1, <1>4 DEF JobTyped, Closings
  <2>2. ASSUME NEW j \in Jobs PROVE JobOK(j)'
    <3>1. JobOK(j)
      BY DEF JobsInv
    <3>2. QED BY <1>1, <1>4, <3>1 DEF JobOK
  <2>3. CloseOK'
    BY <1>1, <1>4 DEF CloseOK
  <2>4. CrowdOK'
    BY <1>1, <1>4, CrowdStays
  <2>5. QED BY <2>1, <2>2, <2>3, <2>4 DEF JobsInv
<1>5. CASE \E j \in Jobs : Cancel(j)
  <2>1. UNCHANGED <<at, status, closed, closing, killed>>
    BY <1>5 DEF Cancel, closeVars
  <2>2. QED BY <1>1, <1>4, <2>1 DEF JobTyped
<1>6. CASE CloseTerminates
  BY <1>1, <1>4, <1>6 DEF CloseTerminates, jobVars, storeVars, JobTyped
<1>7. CASE CloseKills
  <2>1. killed' \subseteq Jobs
    BY <1>1, <1>7 DEF CloseKills, JobTyped
  <2>2. QED BY <1>4, <1>7, <2>1 DEF CloseKills
<1>8. CASE CloseReturns
  <2>1. /\ closed /\ at' = [j \in Jobs |-> IF at[j] = "queued" THEN "discarded" ELSE at[j]]
        /\ closing' = IF Running = {} THEN "clean" ELSE "unclean"
        /\ UNCHANGED <<status, killed, closed>>
    BY <1>1, <1>8 DEF CloseReturns, CloseOK
  <2>2. \A j \in Jobs : at[j] = "queued" => j \in forgotten
    BY <1>1, <2>1 DEF CloseOK
  <2>3. JobTyped'
    BY <1>1, <2>1 DEF JobTyped, Closings
  <2>4. ASSUME NEW j \in Jobs PROVE JobOK(j)'
    <3>1. JobOK(j) /\ at'[j] = IF at[j] = "queued" THEN "discarded" ELSE at[j]
      BY <2>1 DEF JobsInv
    <3>2. CASE at[j] = "queued"
      BY <1>1, <2>1, <2>2, <3>1, <3>2 DEF JobOK, InFn, WithChild
    <3>3. CASE at[j] # "queued"
      BY <1>1, <2>1, <3>1, <3>3 DEF JobOK
    <3>4. QED BY <3>2, <3>3
  <2>5. CloseOK'
    BY <1>1, <1>2, <2>1 DEF CloseOK
  <2>6. CrowdOK'
    BY <1>1, <2>1, CrowdStays
  <2>7. QED BY <2>3, <2>4, <2>5, <2>6 DEF JobsInv
<1>9. QED BY <1>3, <1>5, <1>6, <1>7, <1>8

(* No job: the invariant holds. *)
LEMMA JobsInitOK == Init => JobsInv
<1> SUFFICES ASSUME Init PROVE JobsInv
  OBVIOUS
<1>1. TransferInv
  BY TransferInitOK
<1>2. /\ order = <<>> /\ Listed(order) = {} /\ Distinct(order) /\ order \in Seq(Jobs) /\ Len(order) = 0
      /\ forgotten = {}
  BY DEF Init, Listed, Distinct
<1>3. JobTyped /\ CloseOK
  BY <1>2 DEF Init, JobTyped, CloseOK, Closings
<1>6. CrowdOK
  BY <1>2, TransferAssumption DEF CrowdOK
<1>4. \A j \in Jobs : JobOK(j)
  BY <1>2 DEF Init, JobOK, InFn, WithChild
<1>5. QED BY <1>1, <1>3, <1>4, <1>6 DEF JobsInv

(* Every step keeps the invariant. *)
LEMMA JobsNextKeeps == JobsInv /\ [Next]_vars => JobsInv'
<1> SUFFICES ASSUME JobsInv, [Next]_vars PROVE JobsInv'
  OBVIOUS
<1>1. TransferInv'
  BY TransferNextKeeps DEF JobsInv
<1>2. CASE UNCHANGED vars
  <2>1. UNCHANGED <<at, status, child, shown, killed, order, forgotten, closed, closing>>
    BY <1>2 DEF vars, jobVars, storeVars, closeVars
  <2>2. CrowdOK'
    BY <2>1, CrowdStays DEF JobsInv
  <2>3. QED BY <1>1, <2>1, <2>2 DEF JobsInv, JobTyped, JobOK, CloseOK
<1>3. CASE Next
  BY <1>1, <1>3, JobsPool, JobsSettle, JobsSubmit, JobsClose DEF Next
<1>4. QED BY <1>2, <1>3

(* What the invariant says about a store. *)
LEMMA JobsImplies == JobsInv => JobsConsistent
<1> SUFFICES ASSUME JobsInv PROVE JobsConsistent
  OBVIOUS
<1>1. Len(order) <= MaxKeep /\ OnlyCrowdedOut
  BY DEF JobsInv, CrowdOK, Submitted, OnlyCrowdedOut
<1>2. \A j \in shown : child[j] # "none"
  BY DEF JobsInv, JobTyped, JobOK
<1>3. cleanups \in [Jobs -> 0 .. 1] /\ at \in [Jobs -> Places]
      /\ status \in [Jobs -> {"none", "running", "done", "error", "cancelled"}] /\ cancelled \subseteq Jobs
  BY DEF JobsInv, TransferInv, Settled
<1>4. TypeOK
  BY <1>1, <1>2, <1>3 DEF TypeOK, JobsInv, JobTyped
<1>5. CleanupOnce
  BY DEF CleanupOnce, JobsInv, TransferInv, CleanupOK, JobOK
<1>6. CloseReaps
  BY DEF CloseReaps, JobsInv, JobOK, CloseOK, InFn, WithChild
<1>7. QED BY <1>1, <1>4, <1>5, <1>6 DEF JobsConsistent

(* For any number of transfers, any pool, any length of the list and any   *)
(* order of submit, cancel and close: the types hold, what ended was       *)
(* cleaned up once, and when close() returned True no process lives and no *)
(* thread can start one, except for transfers that _trim_locked forgot     *)
(* while they ran; and it forgets none before more were submitted than it  *)
(* keeps (transfer.py:68-99, 138-185).                                     *)
THEOREM StoreAlwaysConsistent == Spec => []JobsConsistent
<1>1. JobsInv => JobsConsistent
  BY JobsImplies
<1>2. JobsInv /\ [Next]_vars => JobsInv'
  BY JobsNextKeeps
<1>3. QED BY <1>1, <1>2, JobsInitOK, PTL DEF Spec

-----------------------------------------------------------------------------
(***************************************************************************)
(* The spool of uploads (UploadSpool).  Request and transfer share one     *)
(* lease; the invariant says which of the two may still give it back, and  *)
(* relates the counters to the sum over the leases that are held.          *)
(***************************************************************************)

ReqPlaces == {"new", "spool", "start", "answer", "undo", "look", "release", "finally", "done"}
JobPlaces == {"none", "queued", "running", "clean", "look", "release", "done"}

UploadType == [req : ReqPlaces, job : JobPlaces, file : {"none", "spooled"}, left : BOOLEAN,
               open : BOOLEAN, read : BOOLEAN]
LeaseType == [size : Nat, held : BOOLEAN, released : BOOLEAN, saw : SUBSET {"req", "job"}, times : Nat]

SpoolTyped ==
  /\ spooling \in Nat /\ reserved \in Nat
  /\ up \in [Uploads -> UploadType]
  /\ leases \in [Uploads -> LeaseType]

\* What is true of one upload x and its lease l.
UploadOK(x, l) ==
  /\ l.released <=> l.times > 0
  /\ l.held => l.times = 0
  /\ x.file = "spooled" => l.held \/ x.left
  /\ x.req \in {"new", "spool", "start"} => x.job = "none" /\ l.saw = {} /\ l.times = 0
  /\ x.req = "new" => x.file = "none" /\ ~l.held
  /\ x.req # "new" /\ l.times = 0 /\ ~l.held =>
       x.req = "done" /\ x.job = "none" /\ l.saw = {}
  /\ x.req \in {"look", "release", "finally"} => x.file = "none" \/ x.left
  /\ x.job \in {"look", "release", "done"} => x.file = "none" \/ x.left
  /\ "req" \in l.saw => x.req = "release"
  /\ "job" \in l.saw => x.job = "release"
  /\ x.job = "none" => l.times <= 1 /\ (l.times = 1 => x.req \in {"finally", "done"})

\* What a lease counts for.
Weight(u) == IF leases[u].held THEN leases[u].size ELSE 0

\* S gives every set of uploads the sum of its weights.
Sums(S) ==
  /\ S \in [SUBSET Uploads -> Nat]
  /\ \A T \in SUBSET Uploads : (\A u \in T : Weight(u) = 0) => S[T] = 0
  /\ \A T \in SUBSET Uploads : \A u \in Uploads \ T : S[T \cup {u}] = S[T] + Weight(u)

Once == \A u \in Uploads : leases[u].times <= 1

\* Until a lease is released twice the counters are those of the held leases.
CountersOK ==
  Once => /\ spooling = Cardinality(Held) /\ spooling <= MaxActive
          /\ reserved <= MaxReserved
          /\ \E S : Sums(S) /\ reserved = S[Uploads]

SpoolInv ==
  /\ SpoolTyped
  /\ \A u \in Uploads : UploadOK(up[u], leases[u])
  /\ IsFiniteSet(Held)
  /\ CountersOK

-----------------------------------------------------------------------------
\* What the invariant says about the counters.
LEMMA SpoolImplies == SpoolInv => SpoolAccounted
<1> SUFFICES ASSUME SpoolInv PROVE SpoolAccounted
  OBVIOUS
<1>1. \A u \in Uploads : up[u].file = "spooled" => leases[u].held \/ up[u].left
  BY DEF SpoolInv, UploadOK
<1>2. \A u \in Uploads : leases[u].times > 1 => up[u].job # "none"
  <2> TAKE u \in Uploads
  <2>1. leases[u].times \in Nat
    BY DEF SpoolInv, SpoolTyped, LeaseType
  <2> QED BY <2>1 DEF SpoolInv, UploadOK
<1>3. ASSUME Once
      PROVE  /\ spooling = Cardinality(Held) /\ spooling <= MaxActive /\ reserved <= MaxReserved
             /\ \A u \in Held : leases[u].size <= reserved
             /\ Held = {} => reserved = 0
  <2>1. PICK S : Sums(S) /\ reserved = S[Uploads]
    BY <1>3 DEF SpoolInv, CountersOK
  <2>2. ASSUME NEW u \in Held PROVE leases[u].size <= reserved
    <3>1. u \in Uploads /\ Weight(u) = leases[u].size
      BY <2>2 DEF Held, Weight
    <3>2. Uploads \ {u} \in SUBSET Uploads /\ (Uploads \ {u}) \cup {u} = Uploads /\ u \in Uploads \ (Uploads \ {u})
      BY <3>1
    <3>3. S[(Uploads \ {u}) \cup {u}] = S[Uploads \ {u}] + Weight(u)
      BY <2>1, <3>1, <3>2 DEF Sums
    <3>4. S[Uploads \ {u}] \in Nat
      BY <2>1, <3>2 DEF Sums
    <3>5. leases[u].size \in Nat
      BY <3>1 DEF SpoolInv, SpoolTyped, LeaseType
    <3>6. reserved = S[Uploads \ {u}] + leases[u].size
      <4>1. S[Uploads] = S[Uploads \ {u}] + Weight(u)
        BY <3>2, <3>3, Zenon
      <4> QED BY <2>1, <3>1, <4>1, Zenon
    <3> QED BY <3>4, <3>5, <3>6
  <2>3. ASSUME Held = {} PROVE reserved = 0
    <3>1. \A u \in Uploads : Weight(u) = 0
      BY <2>3 DEF Held, Weight
    <3> QED BY <2>1, <3>1 DEF Sums
  <2> QED BY <1>3, <2>2, <2>3 DEF SpoolInv, CountersOK
<1> QED BY <1>1, <1>2, <1>3 DEF SpoolAccounted, Once

\* No upload, and nothing counted.
LEMMA SpoolInitOK == SpoolInit => SpoolInv
<1> SUFFICES ASSUME SpoolInit PROVE SpoolInv
  OBVIOUS
<1>1. NewUpload \in UploadType /\ NewLease \in LeaseType
  <2>1. NewUpload \in UploadType
    BY DEF NewUpload, UploadType, ReqPlaces, JobPlaces
  <2>2. NewLease \in LeaseType
    BY DEF NewLease, LeaseType
  <2> QED BY <2>1, <2>2
<1>2. SpoolTyped
  BY <1>1 DEF SpoolInit, SpoolTyped
<1>3. \A u \in Uploads : UploadOK(up[u], leases[u])
  BY DEF SpoolInit, UploadOK, NewUpload, NewLease
<1>4. Held = {} /\ \A u \in Uploads : Weight(u) = 0
  BY DEF SpoolInit, Held, Weight, NewLease
<1>5. IsFiniteSet(Held) /\ Cardinality(Held) = 0
  BY <1>4, FS_EmptySet
<1>6. CountersOK
  <2> DEFINE S == [T \in SUBSET Uploads |-> 0]
  <2>1. Sums(S)
    BY <1>4 DEF Sums
  <2>2. reserved = S[Uploads]
    BY DEF SpoolInit
  <2>3. spooling = 0 /\ reserved = 0 /\ MaxActive \in Nat /\ MaxReserved \in Nat
    BY SpoolAssumption DEF SpoolInit
  <2>4. \E R : Sums(R) /\ reserved = R[Uploads]
    BY <2>1, <2>2, Zenon
  <2>5. spooling = Cardinality(Held) /\ spooling <= MaxActive /\ reserved <= MaxReserved
    BY <1>5, <2>3
  <2> QED BY <2>4, <2>5, Zenon DEF CountersOK
<1> QED BY <1>2, <1>3, <1>5, <1>6 DEF SpoolInv

\* A step that leaves the counters, and what the leases count for, alone.
LEMMA CountersSame ==
  ASSUME SpoolInv, UNCHANGED <<spooling, reserved>>,
         \A u \in Uploads : /\ leases'[u].held = leases[u].held
                            /\ leases'[u].size = leases[u].size
                            /\ leases'[u].times = leases[u].times
  PROVE  IsFiniteSet(Held)' /\ CountersOK'
<1>1. Held' = Held
  BY DEF Held
<1>2. \A u \in Uploads : Weight(u)' = Weight(u)
  BY DEF Weight
<1>3. Once' => Once
  BY DEF Once
<1>4. ASSUME NEW S, Sums(S) PROVE Sums(S)'
  BY <1>2, <1>4 DEF Sums
<1> QED BY <1>1, <1>3, <1>4 DEF SpoolInv, CountersOK

\* The lease of u is taken.
LEMMA CountersAcquire ==
  ASSUME SpoolInv, NEW u \in Uploads, NEW size \in Nat,
         up[u].req = "new", size > 0, spooling < MaxActive, reserved + size <= MaxReserved,
         spooling' = spooling + 1, reserved' = reserved + size,
         SetLease(u, [leases[u] EXCEPT !.size = size, !.held = TRUE])
  PROVE  IsFiniteSet(Held)' /\ CountersOK'
<1>1. /\ leases'[u].held = TRUE /\ leases'[u].size = size /\ leases'[u].times = leases[u].times
      /\ \A v \in Uploads \ {u} : leases'[v] = leases[v]
  BY DEF SpoolInv, SpoolTyped, LeaseType, SetLease
<1>2. ~leases[u].held
  BY DEF SpoolInv, UploadOK
<1>3. Held' = Held \cup {u} /\ u \notin Held
  BY <1>1, <1>2 DEF Held
<1>4. IsFiniteSet(Held') /\ Cardinality(Held') = Cardinality(Held) + 1
  BY <1>3, FS_AddElement DEF SpoolInv
<1>5. Weight(u) = 0 /\ Weight(u)' = size /\ \A v \in Uploads \ {u} : Weight(v)' = Weight(v)
  <2>1. Weight(u) = 0
    BY <1>2, Zenon DEF Weight
  <2>2. Weight(u)' = size
    BY <1>1, Zenon DEF Weight
  <2>3. ASSUME NEW v \in Uploads \ {u} PROVE Weight(v)' = Weight(v)
    <3>1. leases'[v] = leases[v]
      BY <1>1
    <3> QED BY <3>1 DEF Weight
  <2> QED BY <2>1, <2>2, <2>3
<1>6. Once' => Once
  BY <1>1 DEF Once
<1>7. ASSUME Once PROVE \E R : Sums(R)' /\ reserved' = R[Uploads]
  <2>1. PICK S : Sums(S) /\ reserved = S[Uploads]
    BY <1>7 DEF SpoolInv, CountersOK
  <2> DEFINE R == [T \in SUBSET Uploads |-> IF u \in T THEN S[T] + size ELSE S[T]]
  <2>2. R \in [SUBSET Uploads -> Nat]
    BY <2>1 DEF Sums
  <2>3. ASSUME NEW T \in SUBSET Uploads, \A v \in T : Weight(v)' = 0 PROVE R[T] = 0
    <3>1. u \notin T
      BY <1>5, <2>3
    <3>2. \A v \in T : Weight(v) = 0
      BY <1>5, <2>3, <3>1
    <3> QED BY <2>1, <3>1, <3>2 DEF Sums
  <2>4. ASSUME NEW T \in SUBSET Uploads, NEW v \in Uploads \ T
        PROVE  R[T \cup {v}] = R[T] + Weight(v)'
    <3>1. S[T \cup {v}] = S[T] + Weight(v) /\ S[T] \in Nat /\ T \cup {v} \in SUBSET Uploads
      BY <2>1 DEF Sums
    <3>2. CASE v = u
      BY <1>5, <3>1, <3>2
    <3>3. CASE v # u
      <4>1. Weight(v)' = Weight(v) /\ Weight(v) \in Nat
        BY <1>5, <3>3 DEF Weight, SpoolInv, SpoolTyped, LeaseType
      <4> QED BY <3>1, <3>3, <4>1
    <3> QED BY <3>2, <3>3
  <2>5. Sums(R)'
    BY <2>2, <2>3, <2>4 DEF Sums
  <2>6. reserved' = R[Uploads]
    BY <2>1
  <2> QED BY <2>5, <2>6, Zenon
<1>8. ASSUME Once
      PROVE  spooling' = Cardinality(Held') /\ spooling' <= MaxActive /\ reserved' <= MaxReserved
  <2>1. spooling = Cardinality(Held) /\ spooling \in Nat /\ MaxActive \in Nat
    BY <1>8, SpoolAssumption DEF SpoolInv, SpoolTyped, CountersOK
  <2> QED BY <1>4, <2>1
<1> QED BY <1>4, <1>6, <1>7, <1>8, Zenon DEF CountersOK

\* The lease of u is given back, by one that saw it held.
LEMMA CountersRelease ==
  ASSUME SpoolInv, NEW u \in Uploads, NEW who \in {"req", "job"}, who \in leases[u].saw,
         up[u].req # "new", Releases(u, who)
  PROVE  IsFiniteSet(Held)' /\ CountersOK'
<1>1. /\ ~leases'[u].held /\ leases'[u].times = leases[u].times + 1
      /\ \A v \in Uploads \ {u} : leases'[v] = leases[v]
  <2>1. SetLease(u, [leases[u] EXCEPT !.released = TRUE, !.held = FALSE,
                                      !.saw = @ \ {who}, !.times = @ + 1])
    BY Zenon DEF Releases
  <2> QED BY <2>1 DEF SpoolInv, SpoolTyped, LeaseType, SetLease
<1>2. Held' = Held \ {u}
  BY <1>1 DEF Held
<1>3. IsFiniteSet(Held)'
  BY <1>2, FS_Difference DEF SpoolInv
<1>4. ASSUME Once' PROVE Once /\ leases[u].held
  <2>1. \A v \in Uploads : leases[v].times \in Nat
    BY DEF SpoolInv, SpoolTyped, LeaseType
  <2>2. leases[u].times = 0 /\ Once
    BY <1>1, <1>4, <2>1 DEF Once
  <2> QED BY <2>2 DEF SpoolInv, UploadOK
<1>5. Weight(u)' = 0 /\ \A v \in Uploads \ {u} : Weight(v)' = Weight(v)
  BY <1>1 DEF Weight
<1>6. ASSUME Once'
      PROVE  \E R : Sums(R)' /\ reserved = R[Uploads] + leases[u].size /\ R[Uploads] \in Nat
  <2>1. PICK S : Sums(S) /\ reserved = S[Uploads]
    BY <1>4, <1>6 DEF SpoolInv, CountersOK
  <2> DEFINE R == [T \in SUBSET Uploads |-> S[T \ {u}]]
  <2>2. R \in [SUBSET Uploads -> Nat]
    BY <2>1 DEF Sums
  <2>3. ASSUME NEW T \in SUBSET Uploads, \A v \in T : Weight(v)' = 0 PROVE R[T] = 0
    <3>1. T \ {u} \in SUBSET Uploads /\ \A v \in T \ {u} : Weight(v) = 0
      BY <1>5, <2>3
    <3> QED BY <2>1, <3>1 DEF Sums
  <2>4. ASSUME NEW T \in SUBSET Uploads, NEW v \in Uploads \ T
        PROVE  R[T \cup {v}] = R[T] + Weight(v)'
    <3>1. R[T] = S[T \ {u}] /\ R[T \cup {v}] = S[(T \cup {v}) \ {u}] /\ S[T \ {u}] \in Nat
      BY <2>1 DEF Sums
    <3>2. CASE v = u
      <4>1. (T \cup {v}) \ {u} = T \ {u}
        BY <3>2
      <4>2. R[T \cup {v}] = R[T]
        BY <3>1, <4>1, Zenon
      <4> QED BY <1>5, <3>1, <3>2, <4>2
    <3>3. CASE v # u
      <4>1. (T \cup {v}) \ {u} = (T \ {u}) \cup {v} /\ T \ {u} \in SUBSET Uploads /\ v \in Uploads \ (T \ {u})
        BY <3>3
      <4>2. S[(T \ {u}) \cup {v}] = S[T \ {u}] + Weight(v)
        BY <2>1, <4>1 DEF Sums
      <4>3. Weight(v)' = Weight(v)
        BY <1>5, <3>3
      <4> QED BY <3>1, <4>1, <4>2, <4>3, Zenon
    <3> QED BY <3>2, <3>3
  <2>5. Sums(R)'
    BY <2>2, <2>3, <2>4 DEF Sums
  <2>6. reserved = R[Uploads] + leases[u].size /\ R[Uploads] \in Nat
    <3>1. Uploads \ {u} \in SUBSET Uploads /\ (Uploads \ {u}) \cup {u} = Uploads /\ u \in Uploads \ (Uploads \ {u})
      OBVIOUS
    <3>2. S[(Uploads \ {u}) \cup {u}] = S[Uploads \ {u}] + Weight(u)
      BY <2>1, <3>1 DEF Sums
    <3>3. Weight(u) = leases[u].size
      BY <1>4, <1>6 DEF Weight
    <3>4. R[Uploads] = S[Uploads \ {u}] /\ R[Uploads] \in Nat
      BY <2>2
    <3>5. S[Uploads] = S[Uploads \ {u}] + Weight(u)
      BY <3>1, <3>2, Zenon
    <3> QED BY <2>1, <3>3, <3>4, <3>5, Zenon
  <2> QED BY <2>5, <2>6, Zenon
<1>7. ASSUME Once' PROVE CountersOK'
  <2>1. PICK R : Sums(R)' /\ reserved = R[Uploads] + leases[u].size /\ R[Uploads] \in Nat
    BY <1>6, <1>7
  <2>2. leases[u].size \in Nat /\ spooling \in Nat /\ MaxActive \in Nat /\ reserved \in Nat /\ MaxReserved \in Nat
    BY SpoolAssumption DEF SpoolInv, SpoolTyped, LeaseType
  <2>3. reserved' = R[Uploads]
    <3>1. reserved' = Minus(reserved, leases[u].size)
      BY DEF Releases
    <3> QED BY <2>1, <2>2, <3>1 DEF Minus
  <2>4. u \in Held /\ IsFiniteSet(Held)
    BY <1>4, <1>7 DEF Held, SpoolInv
  <2>5. Cardinality(Held') = Cardinality(Held) - 1 /\ Cardinality(Held) \in Nat
    BY <1>2, <2>4, FS_RemoveElement, FS_CardinalityType
  <2>6. Cardinality(Held) # 0
    BY <2>4, FS_EmptySet
  <2>7. spooling = Cardinality(Held) /\ spooling <= MaxActive /\ reserved <= MaxReserved
    BY <1>4, <1>7 DEF SpoolInv, CountersOK
  <2>8. spooling' = Minus(spooling, 1)
    BY DEF Releases
  <2>9. spooling' = Cardinality(Held') /\ spooling' <= MaxActive
    BY <2>2, <2>5, <2>6, <2>7, <2>8 DEF Minus
  <2>10. reserved' <= MaxReserved
    BY <2>1, <2>2, <2>3, <2>7
  <2> QED BY <2>1, <2>3, <2>9, <2>10, Zenon DEF CountersOK
<1> QED BY <1>3, <1>7 DEF CountersOK

\* What is left to show for a step of upload u.
LEMMA SpoolStep ==
  ASSUME SpoolInv, NEW u \in Uploads, NEW x \in UploadType, NEW l \in LeaseType,
         SetUpload(u, x), SetLease(u, l), UploadOK(x, l),
         spooling' \in Nat, reserved' \in Nat, IsFiniteSet(Held)', CountersOK'
  PROVE  SpoolInv'
<1>1. /\ up' \in [Uploads -> UploadType] /\ leases' \in [Uploads -> LeaseType]
      /\ up'[u] = x /\ leases'[u] = l
      /\ \A v \in Uploads \ {u} : up'[v] = up[v] /\ leases'[v] = leases[v]
  BY DEF SetUpload, SetLease, SpoolInv, SpoolTyped
<1>2. ASSUME NEW v \in Uploads PROVE UploadOK(up'[v], leases'[v])
  <2>1. CASE v = u
    BY <1>1, <2>1, Zenon
  <2>2. CASE v # u
    <3>1. up'[v] = up[v] /\ leases'[v] = leases[v] /\ UploadOK(up[v], leases[v])
      BY <1>1, <2>2 DEF SpoolInv
    <3> QED BY <3>1, Zenon
  <2> QED BY <2>1, <2>2
<1> QED BY <1>1, <1>2 DEF SpoolInv, SpoolTyped

\* The same for a step that changes nothing but where the upload is.
LEMMA SpoolMoves ==
  ASSUME SpoolInv, NEW u \in Uploads, NEW x \in UploadType,
         SetUpload(u, x), UNCHANGED <<spooling, reserved, leases>>, UploadOK(x, leases[u])
  PROVE  SpoolInv'
<1>1. IsFiniteSet(Held)' /\ CountersOK'
  BY CountersSame
<1>2. spooling' \in Nat /\ reserved' \in Nat /\ leases[u] \in LeaseType
  BY DEF SpoolInv, SpoolTyped
<1>3. SetLease(u, leases[u])
  BY DEF SetLease, SpoolInv, SpoolTyped
<1> QED BY <1>1, <1>2, <1>3, SpoolStep

\* An upload and its lease, before the step.
LEMMA SpoolOne ==
  ASSUME SpoolInv, NEW u \in Uploads
  PROVE  up[u] \in UploadType /\ leases[u] \in LeaseType /\ UploadOK(up[u], leases[u])
  BY DEF SpoolInv, SpoolTyped

\* The body is written to the spool, or not.
LEMMA SpoolSpoolBody ==
  ASSUME SpoolInv, NEW u \in Uploads, SpoolBody(u)
  PROVE  SpoolInv'
<1> USE DEF UploadType, ReqPlaces, JobPlaces
<1>1. CASE SetUpload(u, [up[u] EXCEPT !.req = "start", !.file = "spooled"])
  <2> DEFINE x == [up[u] EXCEPT !.req = "start", !.file = "spooled"]
  <2>1. x \in UploadType
    BY SpoolOne
  <2>2. UploadOK(x, leases[u])
    BY SpoolOne DEF UploadOK, LeaseType, SpoolBody
  <2> HIDE DEF x
  <2>3. SetUpload(u, x)
    BY <1>1 DEF x
  <2> QED BY <2>1, <2>2, <2>3, SpoolMoves DEF SpoolBody
<1>2. ASSUME NEW file \in {"none", "spooled"},
             SetUpload(u, [up[u] EXCEPT !.req = "undo", !.file = file])
      PROVE  SpoolInv'
  <2> DEFINE x == [up[u] EXCEPT !.req = "undo", !.file = file]
  <2>1. x \in UploadType
    BY SpoolOne
  <2>2. UploadOK(x, leases[u])
    BY SpoolOne DEF UploadOK, LeaseType, SpoolBody
  <2> HIDE DEF x
  <2>3. SetUpload(u, x)
    BY <1>2 DEF x
  <2> QED BY <2>1, <2>2, <2>3, SpoolMoves DEF SpoolBody
<1> QED BY <1>1, <1>2, Zenon DEF SpoolBody

\* The transfer is started, or refused.
LEMMA SpoolHandOff ==
  ASSUME SpoolInv, NEW u \in Uploads, HandOff(u)
  PROVE  SpoolInv'
<1> USE DEF UploadType, ReqPlaces, JobPlaces
<1>1. CASE SetUpload(u, [up[u] EXCEPT !.req = "answer", !.job = "queued"])
  <2> DEFINE x == [up[u] EXCEPT !.req = "answer", !.job = "queued"]
  <2>1. x \in UploadType
    BY SpoolOne
  <2>2. UploadOK(x, leases[u])
    BY SpoolOne DEF UploadOK, LeaseType, HandOff
  <2> HIDE DEF x
  <2>3. SetUpload(u, x)
    BY <1>1 DEF x
  <2> QED BY <2>1, <2>2, <2>3, SpoolMoves DEF HandOff
<1>2. CASE SetUpload(u, [up[u] EXCEPT !.req = "undo"])
  <2> DEFINE x == [up[u] EXCEPT !.req = "undo"]
  <2>1. x \in UploadType
    BY SpoolOne
  <2>2. UploadOK(x, leases[u])
    BY SpoolOne DEF UploadOK, LeaseType, HandOff
  <2> HIDE DEF x
  <2>3. SetUpload(u, x)
    BY <1>2 DEF x
  <2> QED BY <2>1, <2>2, <2>3, SpoolMoves DEF HandOff
<1> QED BY <1>1, <1>2, Zenon DEF HandOff

\* The request is answered.
LEMMA SpoolAnswer ==
  ASSUME SpoolInv, NEW u \in Uploads, AnswerUpload(u)
  PROVE  SpoolInv'
<1> USE DEF UploadType, ReqPlaces, JobPlaces
<1>1. ASSUME NEW next \in {"done", "undo"}, SetUpload(u, [up[u] EXCEPT !.req = next])
      PROVE  SpoolInv'
  <2> DEFINE x == [up[u] EXCEPT !.req = next]
  <2>1. x \in UploadType
    BY SpoolOne
  <2>2. UploadOK(x, leases[u])
    BY SpoolOne DEF UploadOK, LeaseType, AnswerUpload
  <2> HIDE DEF x
  <2>3. SetUpload(u, x)
    BY <1>1 DEF x
  <2> QED BY <2>1, <2>2, <2>3, SpoolMoves DEF AnswerUpload
<1> QED BY <1>1, Zenon DEF AnswerUpload

\* The transfer is started, fails at once or is discarded.
LEMMA SpoolJobStarts ==
  ASSUME SpoolInv, NEW u \in Uploads, JobStarts(u)
  PROVE  SpoolInv'
<1> USE DEF UploadType, ReqPlaces, JobPlaces
<1>1. CASE SetUpload(u, [up[u] EXCEPT !.job = "running", !.open = TRUE, !.read = TRUE])
  <2> DEFINE x == [up[u] EXCEPT !.job = "running", !.open = TRUE, !.read = TRUE]
  <2>1. x \in UploadType
    BY SpoolOne
  <2>2. UploadOK(x, leases[u])
    BY SpoolOne DEF UploadOK, LeaseType, JobStarts
  <2> HIDE DEF x
  <2>3. SetUpload(u, x)
    BY <1>1 DEF x
  <2> QED BY <2>1, <2>2, <2>3, SpoolMoves DEF JobStarts
<1>2. CASE SetUpload(u, [up[u] EXCEPT !.job = "clean"])
  <2> DEFINE x == [up[u] EXCEPT !.job = "clean"]
  <2>1. x \in UploadType
    BY SpoolOne
  <2>2. UploadOK(x, leases[u])
    BY SpoolOne DEF UploadOK, LeaseType, JobStarts
  <2> HIDE DEF x
  <2>3. SetUpload(u, x)
    BY <1>2 DEF x
  <2> QED BY <2>1, <2>2, <2>3, SpoolMoves DEF JobStarts
<1> QED BY <1>1, <1>2, Zenon DEF JobStarts

\* The transfer has run.
LEMMA SpoolJobEnds ==
  ASSUME SpoolInv, NEW u \in Uploads, JobEnds(u)
  PROVE  SpoolInv'
<1> USE DEF UploadType, ReqPlaces, JobPlaces
<1> DEFINE x == [up[u] EXCEPT !.job = "clean", !.open = FALSE]
<1>1. x \in UploadType
  BY SpoolOne
<1>2. UploadOK(x, leases[u])
  BY SpoolOne DEF UploadOK, LeaseType, JobEnds
<1> HIDE DEF x
<1>3. SetUpload(u, x)
  BY DEF x, JobEnds
<1> QED BY <1>1, <1>2, <1>3, SpoolMoves DEF JobEnds

\* What removing a file leaves of an upload: its name is gone or marked.
LEMMA SpoolRemoved ==
  ASSUME NEW x \in UploadType, NEW y \in Removed(x)
  PROVE  /\ y \in UploadType /\ y.req = x.req /\ y.job = x.job
         /\ y.file = "none" \/ y.left
<1>1. CASE y = [x EXCEPT !.file = "none"]
  BY <1>1 DEF UploadType
<1>2. CASE y = [x EXCEPT !.left = TRUE]
  BY <1>2 DEF UploadType
<1> QED BY <1>1, <1>2 DEF Removed

\* The same of an upload of the table.
LEMMA SpoolGone ==
  ASSUME SpoolInv, NEW u \in Uploads, NEW y \in Removed(up[u])
  PROVE  /\ y \in UploadType /\ y.req = up[u].req /\ y.job = up[u].job
         /\ y.file = "none" \/ y.left
<1>1. up[u] \in UploadType
  BY SpoolOne
<1> QED BY <1>1, SpoolRemoved, Zenon

\* acquire, within the limits of count and of bytes.
LEMMA SpoolAcquire ==
  ASSUME SpoolInv, NEW u \in Uploads, Acquire(u)
  PROVE  SpoolInv'
<1> USE DEF UploadType, LeaseType, ReqPlaces, JobPlaces
<1>0. PICK size \in Sizes, room \in 0..Room :
        IF Fits(size, room)
        THEN /\ spooling' = spooling + 1 /\ reserved' = reserved + size
             /\ SetLease(u, [leases[u] EXCEPT !.size = size, !.held = TRUE])
             /\ SetUpload(u, [up[u] EXCEPT !.req = "spool"])
        ELSE /\ SetUpload(u, [up[u] EXCEPT !.req = "done"])
             /\ UNCHANGED <<spooling, reserved, leases>>
  BY Zenon DEF Acquire
<1>1. size \in Nat /\ up[u].req = "new"
  BY SpoolAssumption DEF Acquire
<1>2. CASE Fits(size, room)
  <2> DEFINE x == [up[u] EXCEPT !.req = "spool"]
             l == [leases[u] EXCEPT !.size = size, !.held = TRUE]
  <2>1. spooling' = spooling + 1 /\ reserved' = reserved + size /\ SetLease(u, l) /\ SetUpload(u, x)
    BY <1>0, <1>2, Zenon
  <2>2. size > 0 /\ spooling < MaxActive /\ reserved + size <= MaxReserved
    BY <1>2 DEF Fits
  <2>3. IsFiniteSet(Held)' /\ CountersOK'
    BY <1>1, <2>1, <2>2, CountersAcquire
  <2>4. x \in UploadType
    BY SpoolOne
  <2>5. l \in LeaseType
    <3>1. leases[u] \in LeaseType /\ size \in Nat
      BY <1>1, SpoolOne
    <3> QED BY <3>1
  <2>6. UploadOK(x, l)
    BY <1>1, SpoolOne DEF UploadOK
  <2>7. spooling' \in Nat /\ reserved' \in Nat
    BY <1>1, <2>1 DEF SpoolInv, SpoolTyped
  <2> HIDE DEF x, l
  <2> QED BY <2>1, <2>3, <2>4, <2>5, <2>6, <2>7, SpoolStep
<1>3. CASE ~Fits(size, room)
  <2> DEFINE x == [up[u] EXCEPT !.req = "done"]
  <2>1. SetUpload(u, x) /\ UNCHANGED <<spooling, reserved, leases>>
    BY <1>0, <1>3, Zenon
  <2>2. x \in UploadType
    BY SpoolOne
  <2>3. UploadOK(x, leases[u])
    BY <1>1, SpoolOne DEF UploadOK
  <2> HIDE DEF x
  <2> QED BY <2>1, <2>2, <2>3, SpoolMoves
<1> QED BY <1>2, <1>3

\* The flag is looked at: it is set, or the one who looks may set it.
LEMMA SpoolLooks ==
  ASSUME SpoolInv, NEW u \in Uploads, NEW who \in {"req", "job"}, NEW x \in UploadType,
         SetUpload(u, x), LooksAt(u, who),
         leases[u].released => UploadOK(x, leases[u]),
         ~leases[u].released => UploadOK(x, [leases[u] EXCEPT !.saw = @ \cup {who}])
  PROVE  SpoolInv'
<1> USE DEF LeaseType
<1> DEFINE l == [leases[u] EXCEPT !.saw = IF leases[u].released THEN @ ELSE @ \cup {who}]
<1>1. SetLease(u, l) /\ UNCHANGED <<spooling, reserved>>
  BY Zenon DEF LooksAt
<1>2. l \in LeaseType /\ l.held = leases[u].held /\ l.size = leases[u].size /\ l.times = leases[u].times
  BY SpoolOne
<1>3. UploadOK(x, l)
  <2>1. CASE leases[u].released
    <3>1. l = leases[u]
      BY <2>1, SpoolOne
    <3> QED BY <2>1, <3>1, Zenon
  <2>2. CASE ~leases[u].released
    <3>1. l = [leases[u] EXCEPT !.saw = @ \cup {who}]
      BY <2>2, SpoolOne
    <3> QED BY <2>2, <3>1, Zenon
  <2> QED BY <2>1, <2>2
<1> HIDE DEF l
<1>4. IsFiniteSet(Held)' /\ CountersOK'
  <2>1. leases'[u] = l /\ \A v \in Uploads \ {u} : leases'[v] = leases[v]
    BY <1>1 DEF SetLease, SpoolInv, SpoolTyped
  <2>2. ASSUME NEW v \in Uploads
        PROVE  /\ leases'[v].held = leases[v].held /\ leases'[v].size = leases[v].size
               /\ leases'[v].times = leases[v].times
    BY <1>2, <2>1, Zenon
  <2> QED BY <1>1, <2>2, CountersSame
<1>5. spooling' \in Nat /\ reserved' \in Nat
  BY <1>1 DEF SpoolInv, SpoolTyped
<1> QED BY <1>1, <1>2, <1>3, <1>4, <1>5, SpoolStep

\* The lease as it is left by one that saw its flag clear.
Freed(l, who) == [l EXCEPT !.released = TRUE, !.held = FALSE, !.saw = @ \ {who}, !.times = @ + 1]

\* A release: nothing for one that saw the flag set.
LEMMA SpoolReleases ==
  ASSUME SpoolInv, NEW u \in Uploads, NEW who \in {"req", "job"}, NEW x \in UploadType,
         SetUpload(u, x), Releases(u, who), up[u].req # "new",
         who \in leases[u].saw => UploadOK(x, Freed(leases[u], who)),
         who \notin leases[u].saw => UploadOK(x, leases[u])
  PROVE  SpoolInv'
<1>1. CASE who \in leases[u].saw
  <2>1. SetLease(u, Freed(leases[u], who))
    BY <1>1, Zenon DEF Releases, Freed
  <2>2. Freed(leases[u], who) \in LeaseType
    <3> DEFINE t == leases[u].times + 1
               w == leases[u].saw \ {who}
    <3>1. t \in Nat /\ w \in SUBSET {"req", "job"}
      BY SpoolOne DEF LeaseType
    <3>2. Freed(leases[u], who) = [leases[u] EXCEPT !.released = TRUE, !.held = FALSE, !.saw = w, !.times = t]
      BY Zenon DEF Freed
    <3> HIDE DEF t, w
    <3> QED BY <3>1, <3>2, SpoolOne DEF LeaseType
  <2>3. IsFiniteSet(Held)' /\ CountersOK'
    BY <1>1, CountersRelease
  <2>4. spooling' \in Nat /\ reserved' \in Nat
    <3>1. spooling' = Minus(spooling, 1) /\ reserved' = Minus(reserved, leases[u].size)
      BY <1>1, Zenon DEF Releases
    <3>2. spooling \in Nat /\ reserved \in Nat /\ leases[u].size \in Nat
      BY SpoolOne DEF SpoolInv, SpoolTyped, LeaseType
    <3> QED BY <3>1, <3>2 DEF Minus
  <2> QED BY <1>1, <2>1, <2>2, <2>3, <2>4, SpoolStep
<1>2. CASE who \notin leases[u].saw
  BY <1>2, SpoolMoves DEF Releases
<1> QED BY <1>1, <1>2

\* The request removes its file.
LEMMA SpoolUndo ==
  ASSUME SpoolInv, NEW u \in Uploads, Undo(u)
  PROVE  SpoolInv'
<1> USE DEF UploadType, LeaseType, ReqPlaces, JobPlaces
<1>1. CASE /\ up[u].req = "undo" /\ \E y \in Removed(up[u]) : SetUpload(u, [y EXCEPT !.req = "look"])
           /\ UNCHANGED <<spooling, reserved, leases>>
  <2>1. PICK y \in Removed(up[u]) : SetUpload(u, [y EXCEPT !.req = "look"])
    BY <1>1
  <2> DEFINE x == [y EXCEPT !.req = "look"]
  <2>2. y \in UploadType /\ y.job = up[u].job /\ (y.file = "none" \/ y.left)
    BY SpoolGone, Zenon
  <2>3. x \in UploadType /\ x.req = "look" /\ x.job = up[u].job /\ (x.file = "none" \/ x.left)
    BY <2>2
  <2> HIDE DEF x
  <2>4. UploadOK(x, leases[u])
    BY <1>1, <2>3, SpoolOne DEF UploadOK
  <2>5. SetUpload(u, x)
    BY <2>1 DEF x
  <2> QED BY <1>1, <2>3, <2>4, <2>5, SpoolMoves
<1>2. CASE up[u].req = "look" /\ SetUpload(u, [up[u] EXCEPT !.req = "release"]) /\ LooksAt(u, "req")
  <2> DEFINE x == [up[u] EXCEPT !.req = "release"]
  <2>1. x \in UploadType
    BY SpoolOne
  <2>2. leases[u].released => UploadOK(x, leases[u])
    BY <1>2, SpoolOne DEF UploadOK
  <2>3. ~leases[u].released => UploadOK(x, [leases[u] EXCEPT !.saw = @ \cup {"req"}])
    BY <1>2, SpoolOne DEF UploadOK
  <2> HIDE DEF x
  <2>4. SetUpload(u, x)
    BY <1>2 DEF x
  <2> QED BY <1>2, <2>1, <2>2, <2>3, <2>4, SpoolLooks
<1>3. CASE /\ up[u].req = "release"
           /\ SetUpload(u, [up[u] EXCEPT !.req = IF up[u].job = "none" THEN "finally" ELSE "done"])
           /\ Releases(u, "req")
  <2> DEFINE x == [up[u] EXCEPT !.req = IF up[u].job = "none" THEN "finally" ELSE "done"]
  <2>1. x \in UploadType
    BY SpoolOne
  <2>2. "req" \in leases[u].saw => UploadOK(x, Freed(leases[u], "req"))
    BY <1>3, SpoolOne DEF UploadOK, Freed
  <2>3. "req" \notin leases[u].saw => UploadOK(x, leases[u])
    BY <1>3, SpoolOne DEF UploadOK
  <2> HIDE DEF x
  <2>4. SetUpload(u, x) /\ up[u].req # "new"
    BY <1>3 DEF x
  <2> QED BY <1>3, <2>1, <2>2, <2>3, <2>4, SpoolReleases
<1>4. CASE up[u].req = "finally" /\ SetUpload(u, [up[u] EXCEPT !.req = "done"]) /\ Releases(u, "req")
  <2> DEFINE x == [up[u] EXCEPT !.req = "done"]
  <2>1. x \in UploadType
    BY SpoolOne
  <2>2. "req" \in leases[u].saw => UploadOK(x, Freed(leases[u], "req"))
    BY <1>4, SpoolOne DEF UploadOK
  <2>3. "req" \notin leases[u].saw => UploadOK(x, leases[u])
    BY <1>4, SpoolOne DEF UploadOK
  <2> HIDE DEF x
  <2>4. SetUpload(u, x) /\ up[u].req # "new"
    BY <1>4 DEF x
  <2> QED BY <1>4, <2>1, <2>2, <2>3, <2>4, SpoolReleases
<1> QED BY <1>1, <1>2, <1>3, <1>4, Zenon DEF Undo

\* The cleanup of the transfer removes the file.
LEMMA SpoolJobCleans ==
  ASSUME SpoolInv, NEW u \in Uploads, JobCleans(u)
  PROVE  SpoolInv'
<1> USE DEF UploadType, LeaseType, ReqPlaces, JobPlaces
<1>1. CASE /\ up[u].job = "clean" /\ \E y \in Removed(up[u]) : SetUpload(u, [y EXCEPT !.job = "look"])
           /\ UNCHANGED <<spooling, reserved, leases>>
  <2>1. PICK y \in Removed(up[u]) : SetUpload(u, [y EXCEPT !.job = "look"])
    BY <1>1
  <2> DEFINE x == [y EXCEPT !.job = "look"]
  <2>2. y \in UploadType /\ y.req = up[u].req /\ (y.file = "none" \/ y.left)
    BY SpoolGone, Zenon
  <2>3. x \in UploadType /\ x.job = "look" /\ x.req = up[u].req /\ (x.file = "none" \/ x.left)
    BY <2>2
  <2> HIDE DEF x
  <2>4. UploadOK(x, leases[u])
    BY <1>1, <2>3, SpoolOne DEF UploadOK
  <2>5. SetUpload(u, x)
    BY <2>1 DEF x
  <2> QED BY <1>1, <2>3, <2>4, <2>5, SpoolMoves
<1>2. CASE up[u].job = "look" /\ SetUpload(u, [up[u] EXCEPT !.job = "release"]) /\ LooksAt(u, "job")
  <2> DEFINE x == [up[u] EXCEPT !.job = "release"]
  <2>1. x \in UploadType
    BY SpoolOne
  <2>2. leases[u].released => UploadOK(x, leases[u])
    BY <1>2, SpoolOne DEF UploadOK
  <2>3. ~leases[u].released => UploadOK(x, [leases[u] EXCEPT !.saw = @ \cup {"job"}])
    BY <1>2, SpoolOne DEF UploadOK
  <2> HIDE DEF x
  <2>4. SetUpload(u, x)
    BY <1>2 DEF x
  <2> QED BY <1>2, <2>1, <2>2, <2>3, <2>4, SpoolLooks
<1>3. CASE up[u].job = "release" /\ SetUpload(u, [up[u] EXCEPT !.job = "done"]) /\ Releases(u, "job")
  <2> DEFINE x == [up[u] EXCEPT !.job = "done"]
  <2>1. x \in UploadType
    BY SpoolOne
  <2>2. "job" \in leases[u].saw => UploadOK(x, Freed(leases[u], "job"))
    BY <1>3, SpoolOne DEF UploadOK, Freed
  <2>3. "job" \notin leases[u].saw => UploadOK(x, leases[u])
    BY <1>3, SpoolOne DEF UploadOK
  <2> HIDE DEF x
  <2>4. SetUpload(u, x) /\ up[u].req # "new"
    BY <1>3, SpoolOne DEF x, UploadOK
  <2> QED BY <1>3, <2>1, <2>2, <2>3, <2>4, SpoolReleases
<1> QED BY <1>1, <1>2, <1>3, Zenon DEF JobCleans

\* Every step keeps the invariant.
LEMMA SpoolNextKeeps == SpoolInv /\ [SpoolNext]_spoolVars => SpoolInv'
<1> SUFFICES ASSUME SpoolInv, [SpoolNext]_spoolVars PROVE SpoolInv'
  OBVIOUS
<1>1. CASE UNCHANGED spoolVars
  <2>1. spooling' = spooling /\ reserved' = reserved /\ up' = up /\ leases' = leases
    BY <1>1 DEF spoolVars
  <2>2. IsFiniteSet(Held)' /\ CountersOK'
    BY <2>1, CountersSame
  <2> QED BY <2>1, <2>2 DEF SpoolInv, SpoolTyped
<1>2. ASSUME NEW u \in Uploads, Acquire(u) PROVE SpoolInv'
  BY <1>2, SpoolAcquire
<1>3. ASSUME NEW u \in Uploads, UploadStep(u) PROVE SpoolInv'
  BY <1>3, SpoolSpoolBody, SpoolHandOff, SpoolAnswer, SpoolUndo, SpoolJobCleans DEF UploadStep
<1>4. ASSUME NEW u \in Uploads, JobStarts(u) \/ JobEnds(u) PROVE SpoolInv'
  BY <1>4, SpoolJobStarts, SpoolJobEnds
<1> QED BY <1>1, <1>2, <1>3, <1>4 DEF SpoolNext

\* However many uploads run at once, in whatever order requests and transfer
\* jobs clean up: a spooled file is covered by a lease that is held unless its
\* removal failed; while no lease has been released twice the limiter's two
\* counters are those of the held leases and within max_active and max_bytes;
\* and a lease is released twice only when a job was given it
\* (spool.py:17-21, 56-78, legacy.py:630-696).
THEOREM SpoolAlwaysAccounted == SpoolSpec => []SpoolAccounted
<1>1. SpoolInit /\ [][SpoolNext]_spoolVars => []SpoolInv
  BY SpoolInitOK, SpoolNextKeeps, PTL
<1>2. SpoolSpec => SpoolInit /\ [][SpoolNext]_spoolVars
  BY DEF SpoolSpec
<1> QED BY <1>1, <1>2, SpoolImplies, PTL
=============================================================================
