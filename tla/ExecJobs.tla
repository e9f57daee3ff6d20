------------------------------ MODULE ExecJobs ------------------------------
(***************************************************************************)
(* Remote commands: the ExecJobStores of host/task/execjob.py, one per     *)
(* device, and the semaphore they share.                                   *)
(*                                                                         *)
(* A request thread runs a command (run); the command has a reader thread  *)
(* and a timer thread of its own; other requests kill it, each with a      *)
(* thread that comes back three seconds later, and close() shuts a store   *)
(* down.  Output is modelled in OutputBuffer.  SIGTERM may be ignored by   *)
(* the process, so sending it changes nothing here; a process may end at   *)
(* any time.  The clock is left out: deadlines pass and finished jobs grow *)
(* old nondeterministically.                                               *)
(***************************************************************************)
EXTENDS Integers, FiniteSets

CONSTANTS
  Jobs,           \* calls of run
  Stores,         \* the stores, one per device
  NoStore,        \* a call that has not begun
  MaxConcurrent,  \* MAX_CONCURRENT
  MaxJobs         \* MAX_JOBS

ASSUME ExecAssumption ==
  /\ IsFiniteSet(Jobs)
  /\ NoStore \notin Stores
  /\ MaxConcurrent \in Nat \ {0}
  /\ MaxJobs \in Nat \ {0}

VARIABLES
  at,       \* where the call and its reader thread are: see Places
  store,    \* the store of each call
  table,    \* _jobs of each store
  running,  \* the jobs with job["running"]
  slots,    \* the value of _GLOBAL_SLOTS
  child,    \* the process of each job
  shown,    \* the jobs with job["proc"] set
  killed,   \* the jobs whose process has been sent SIGKILL
  timer,    \* the timer thread of each job
  killers,  \* the jobs with a hard_kill thread
  closing   \* where close() of each store is: see Closings

procVars == <<child, shown, killed>>
threadVars == <<timer, killers, closing>>
vars == <<at, store, table, running, slots, procVars, threadVars>>

(* slotted: has a slot, not registered; opening: in open_cmd; opened:      *)
(* job["proc"] not set yet; reading: the reader thread runs; waited: it    *)
(* has reaped the process and is about to take the lock.                   *)
Places == {"new", "slotted", "opening", "opened", "reading", "waited", "ended", "refused"}
Closings == {"open", "terminating", "killing", "clean", "unclean"}

Closed(s) == closing[s] # "open"
RunningOf(s) == {j \in table[s] : j \in running}
Move(j, p) == at' = [at EXCEPT ![j] = p]

Init ==
  /\ at = [j \in Jobs |-> "new"]
  /\ store = [j \in Jobs |-> NoStore]
  /\ table = [s \in Stores |-> {}]
  /\ running = {}
  /\ slots = MaxConcurrent
  /\ child = [j \in Jobs |-> "none"]
  /\ shown = {}
  /\ killed = {}
  /\ timer = [j \in Jobs |-> "off"]
  /\ killers = {}
  /\ closing = [s \in Stores |-> "open"]

-----------------------------------------------------------------------------
(* run.  Without a free slot it raises and nothing changes.                *)
TakeSlot(j, s) ==
  /\ at[j] = "new"
  /\ slots > 0
  /\ slots' = slots - 1
  /\ store' = [store EXCEPT ![j] = s]
  /\ Move(j, "slotted")
  /\ UNCHANGED <<table, running, procVars, threadVars>>

(* The store is closed, or its table is full of jobs that may not go: the  *)
(* slot goes back.  old are the jobs that ended longer ago than            *)
(* KEEP_SECONDS.                                                           *)
Reject(j, old) ==
  /\ at[j] = "slotted"
  /\ \/ Closed(store[j]) /\ UNCHANGED table
     \/ /\ ~Closed(store[j])
        /\ Cardinality(table[store[j]] \ old) >= MaxJobs
        /\ table' = [table EXCEPT ![store[j]] = @ \ old]
  /\ slots' = slots + 1
  /\ Move(j, "refused")
  /\ UNCHANGED <<store, running, procVars, threadVars>>

(* Fault: the store's lock is not asked whether it has been closed.        *)
RegisterLate(j, old) ==
  /\ at[j] = "slotted"
  /\ Cardinality(table[store[j]] \ old) < MaxJobs
  /\ table' = [table EXCEPT ![store[j]] = (@ \ old) \cup {j}]
  /\ running' = running \cup {j}
  /\ Move(j, "opening")
  /\ UNCHANGED <<store, slots, procVars, threadVars>>

(* The section under the lock: purge, and a new entry that is running      *)
(* before it has a process.                                                *)
Register(j, old) ==
  /\ at[j] = "slotted"
  /\ ~Closed(store[j])
  /\ Cardinality(table[store[j]] \ old) < MaxJobs
  /\ table' = [table EXCEPT ![store[j]] = (@ \ old) \cup {j}]
  /\ running' = running \cup {j}
  /\ Move(j, "opening")
  /\ UNCHANGED <<store, slots, procVars, threadVars>>

(* What the purge may remove. *)
OldSets(s) == SUBSET (table[s] \ running)

(* Fault: the slot is kept when the command cannot be started.             *)
OpenFailsKeepsSlot(j) ==
  /\ at[j] = "opening"
  /\ running' = running \ {j}
  /\ Move(j, "ended")
  /\ UNCHANGED <<store, table, slots, procVars, threadVars>>

(* open_cmd raises: no lease, or no process. *)
OpenFails(j) ==
  /\ at[j] = "opening"
  /\ running' = running \ {j}
  /\ slots' = slots + 1
  /\ Move(j, "ended")
  /\ UNCHANGED <<store, table, procVars, threadVars>>

Open(j) ==
  /\ at[j] = "opening"
  /\ child' = [child EXCEPT ![j] = "alive"]
  /\ Move(j, "opened")
  /\ UNCHANGED <<store, table, running, slots, shown, killed, threadVars>>

(* job["proc"] = proc, without the lock, and the two threads are started.  *)
ShowProc(j) ==
  /\ at[j] = "opened"
  /\ shown' = shown \cup {j}
  /\ timer' = [timer EXCEPT ![j] = "armed"]
  /\ Move(j, "reading")
  /\ UNCHANGED <<store, table, running, slots, child, killed, killers, closing>>

-----------------------------------------------------------------------------
(* The process ends by itself, by SIGTERM or by SIGKILL.                   *)
ChildEnds(j) ==
  /\ child[j] = "alive"
  /\ child' = [child EXCEPT ![j] = "gone"]
  /\ UNCHANGED <<at, store, table, running, slots, shown, killed, threadVars>>

(* reader: the output has ended, or reading it raised; proc.wait returns.  *)
ReaderWaits(j) ==
  /\ at[j] = "reading"
  /\ child[j] = "gone"
  /\ Move(j, "waited")
  /\ UNCHANGED <<store, table, running, slots, procVars, threadVars>>

ReaderEnds(j) ==
  /\ at[j] = "waited"
  /\ running' = running \ {j}
  /\ slots' = slots + 1
  /\ Move(j, "ended")
  /\ UNCHANGED <<store, table, procVars, threadVars>>

(* timer: the deadline has passed and the job is running: SIGTERM.         *)
TimerTerminates(j) ==
  /\ timer[j] = "armed" /\ j \in running
  /\ timer' = [timer EXCEPT ![j] = "termed"]
  /\ UNCHANGED <<at, store, table, running, slots, procVars, killers, closing>>

(* Fault: the timer relies on SIGTERM. *)
TimerGivesUp(j) ==
  /\ timer[j] = "termed" /\ j \in running
  /\ timer' = [timer EXCEPT ![j] = "over"]
  /\ UNCHANGED <<at, store, table, running, slots, procVars, killers, closing>>

(* Three seconds later: SIGKILL. *)
TimerKills(j) ==
  /\ timer[j] = "termed" /\ j \in running
  /\ timer' = [timer EXCEPT ![j] = "over"]
  /\ killed' = killed \cup {j}
  /\ UNCHANGED <<at, store, table, running, slots, child, shown, killers, closing>>

TimerQuits(j) ==
  /\ timer[j] \in {"armed", "termed"} /\ j \notin running
  /\ timer' = [timer EXCEPT ![j] = "over"]
  /\ UNCHANGED <<at, store, table, running, slots, procVars, killers, closing>>

-----------------------------------------------------------------------------
(* kill: nothing happens to a job without a process; else SIGTERM and a    *)
(* hard_kill thread.                                                       *)
Kill(j) ==
  /\ \E s \in Stores : j \in table[s]
  /\ j \in shown
  /\ killers' = killers \cup {j}
  /\ UNCHANGED <<at, store, table, running, slots, procVars, timer, closing>>

(* hard_kill, three seconds later, for a job still in the table.           *)
HardKill(j) ==
  /\ j \in killers
  /\ killers' = killers \ {j}
  /\ killed' = IF j \in running /\ j \in table[store[j]] THEN killed \cup {j} ELSE killed
  /\ UNCHANGED <<at, store, table, running, slots, child, shown, timer, closing>>

(* close: no new jobs, SIGTERM to the processes of running jobs.           *)
CloseBegins(s) ==
  /\ ~Closed(s)
  /\ closing' = [closing EXCEPT ![s] = "terminating"]
  /\ UNCHANGED <<at, store, table, running, slots, procVars, timer, killers>>

(* Nothing runs, or two seconds are over: SIGKILL.                         *)
CloseKills(s) ==
  /\ closing[s] = "terminating"
  /\ closing' = [closing EXCEPT ![s] = "killing"]
  /\ killed' = killed \cup (RunningOf(s) \cap shown)
  /\ UNCHANGED <<at, store, table, running, slots, child, shown, timer, killers>>

(* Nothing runs, or the time is up; the transport's close may raise.       *)
CloseReturns(s) ==
  /\ closing[s] = "killing"
  /\ \/ RunningOf(s) = {} /\ closing' = [closing EXCEPT ![s] = "clean"]
     \/ closing' = [closing EXCEPT ![s] = "unclean"]
  /\ UNCHANGED <<at, store, table, running, slots, procVars, timer, killers>>

Next ==
  \/ \E j \in Jobs :
       \/ \E s \in Stores : TakeSlot(j, s)
       \/ at[j] = "slotted" /\ \E old \in OldSets(store[j]) : Reject(j, old) \/ Register(j, old)
       \/ OpenFails(j) \/ Open(j) \/ ShowProc(j)
       \/ ChildEnds(j) \/ ReaderWaits(j) \/ ReaderEnds(j)
       \/ TimerTerminates(j) \/ TimerKills(j) \/ TimerQuits(j)
       \/ Kill(j) \/ HardKill(j)
  \/ \E s \in Stores : CloseBegins(s) \/ CloseKills(s) \/ CloseReturns(s)

Spec == Init /\ [][Next]_vars

(* Threads run on; open_cmd returns or raises (the scheduler's wait has a  *)
(* deadline); deadlines pass; a process that is killed dies.               *)
Fairness ==
  \A j \in Jobs :
    /\ WF_vars(at[j] = "slotted" /\ \E old \in OldSets(store[j]) :
                                      Reject(j, old) \/ Register(j, old))
    /\ WF_vars(Open(j) \/ OpenFails(j)) /\ WF_vars(ShowProc(j))
    /\ WF_vars(j \in killed /\ ChildEnds(j))
    /\ WF_vars(ReaderWaits(j)) /\ WF_vars(ReaderEnds(j))
    /\ WF_vars(TimerTerminates(j)) /\ WF_vars(TimerKills(j))

FairSpec == Spec /\ Fairness

-----------------------------------------------------------------------------
(* The type invariant. *)
TypeOK ==
  /\ at \in [Jobs -> Places]
  /\ store \in [Jobs -> Stores \cup {NoStore}]
  /\ table \in [Stores -> SUBSET Jobs]
  /\ \A s \in Stores : Cardinality(table[s]) <= MaxJobs
  /\ running \subseteq Jobs /\ shown \subseteq Jobs /\ killed \subseteq Jobs
  /\ slots \in 0 .. MaxConcurrent
  /\ child \in [Jobs -> {"none", "alive", "gone"}]
  /\ timer \in [Jobs -> {"off", "armed", "termed", "over"}]
  /\ killers \subseteq Jobs
  /\ closing \in [Stores -> Closings]

(* Each slot that is taken belongs to one call of run, of any store, from  *)
(* before its registration to the end of its reader: every path gives it   *)
(* back once.                                                              *)
SlotsExact ==
  MaxConcurrent - slots =
    Cardinality({j \in Jobs : at[j] \in {"slotted", "opening", "opened", "reading", "waited"}})

(* A job that is running, that is about to have a process or has one, is   *)
(* in its store's table: it can be polled, killed and closed.              *)
ActiveIsKnown ==
  \A j \in Jobs : at[j] \in {"opening", "opened", "reading", "waited"} =>
                    j \in running /\ j \in table[store[j]]

(* When close() has returned True the store has no process, and none will  *)
(* be started any more, although calls of run were under way.              *)
CloseReaps ==
  \A j \in Jobs : store[j] # NoStore /\ closing[store[j]] = "clean" =>
                    child[j] # "alive" /\ at[j] \in {"slotted", "ended", "refused"}

(* The types, the slots, the table of each store, and nothing left after   *)
(* close (execjob.py run, _read, close).                                   *)
StoreConsistent == TypeOK /\ SlotsExact /\ ActiveIsKnown /\ CloseReaps

(* Every call of run comes to its end and gives its slot back, although    *)
(* the command ignores SIGTERM and nobody kills it or closes the store.    *)
CommandEnds ==
  \A j \in Jobs : at[j] = "slotted" ~> at[j] \in {"ended", "refused"}
=============================================================================
