----------------------------- MODULE SshChannels -----------------------------
(***************************************************************************)
(* The ssh subprocesses of host/transport/ssh.py and the scheduler leases  *)
(* that account for them.  Leases come from Admission, which the scheduler *)
(* implements.                                                             *)
(*                                                                         *)
(* A call is one use of a transport: exec (subprocess.run), a transfer     *)
(* (download or upload, with a _PipeTail thread on stderr) or a stream     *)
(* (open_cmd, whose ScheduledPopen is used by several threads of the       *)
(* caller).  A child that has exited stays a zombie until a wait or poll   *)
(* reaps it; only then may its lease go back.  What is transferred, the    *)
(* argument vectors and the metrics are left out.                          *)
(***************************************************************************)
EXTENDS Admission

CONSTANTS Users  \* the threads that share a ScheduledPopen

VARIABLES
  op,       \* what each call does: see Operations
  at,       \* where the call's own thread is: see Places
  child,    \* the call's ssh process: see Children
  killed,   \* calls whose child has been sent SIGKILL
  tail,     \* the _PipeTail thread of a transfer
  pending   \* users that saw the exit and have not called Lease.release yet

callVars == <<op, at, child, killed, tail, pending>>
vars == <<lease, callVars>>

Operations == {"none", "exec", "transfer", "stream"}

(* terminating: in _terminate_reap after SIGTERM; killing: after SIGKILL,  *)
(* in a wait without bound; finishing: the child is reaped and the stderr  *)
(* reader is joined; done: in the finally that releases the lease.         *)
Places == {"idle", "admitted", "using", "terminating", "killing", "finishing", "done"}
Children == {"none", "alive", "zombie", "reaped"}
Tails == {"none", "reading", "terminating", "killing", "stopped"}

Gone == {"zombie", "reaped"}

ChannelInit ==
  /\ Init
  /\ op = [c \in Calls |-> "none"]
  /\ at = [c \in Calls |-> "idle"]
  /\ child = [c \in Calls |-> "none"]
  /\ killed = {}
  /\ tail = [c \in Calls |-> "none"]
  /\ pending = [c \in Calls |-> {}]

(* _acquire returns a lease; a refusal raises and changes nothing.         *)
Begin(c, o, r) ==
  /\ at[c] = "idle"
  /\ pending[c] = {}
  /\ tail[c] \in {"none", "stopped"}
  /\ Open(c, r)
  /\ op' = [op EXCEPT ![c] = o]
  /\ at' = [at EXCEPT ![c] = "admitted"]
  /\ child' = [child EXCEPT ![c] = "none"]
  /\ killed' = killed \ {c}
  /\ tail' = [tail EXCEPT ![c] = "none"]
  /\ UNCHANGED pending

Spawn(c) ==
  /\ at[c] = "admitted"
  /\ child' = [child EXCEPT ![c] = "alive"]
  /\ at' = [at EXCEPT ![c] = "using"]
  /\ tail' = [tail EXCEPT ![c] = IF op[c] = "transfer" THEN "reading" ELSE @]
  /\ UNCHANGED <<lease, op, killed, pending>>

(* Popen raises: every operation ends in its release.                      *)
SpawnFails(c) ==
  /\ at[c] = "admitted"
  /\ at' = [at EXCEPT ![c] = "done"]
  /\ UNCHANGED <<lease, op, child, killed, tail, pending>>

(* The ssh process ends, by itself or by a signal.                         *)
ChildExits(c) ==
  /\ child[c] = "alive"
  /\ child' = [child EXCEPT ![c] = "zombie"]
  /\ UNCHANGED <<lease, op, at, killed, tail, pending>>

-----------------------------------------------------------------------------
(* The call's own thread waits for a child that is gone and goes on at p.  *)
Reap(c, p) ==
  /\ child[c] \in Gone
  /\ child' = [child EXCEPT ![c] = "reaped"]
  /\ at' = [at EXCEPT ![c] = p]
  /\ UNCHANGED <<lease, op, killed, tail, pending>>

(* subprocess.run: the time is up or communicate raised; kill, then wait.  *)
ExecKills(c) ==
  /\ at[c] = "using" /\ op[c] = "exec"
  /\ killed' = killed \cup {c}
  /\ at' = [at EXCEPT ![c] = "killing"]
  /\ UNCHANGED <<lease, op, child, tail, pending>>

(* subprocess.run: the output has ended.                                   *)
ExecEnds(c) == at[c] = "using" /\ op[c] = "exec" /\ Reap(c, "done")

(* The copy loop has reached the end of the stream, then proc.wait().      *)
TransferEnds(c) == at[c] = "using" /\ op[c] = "transfer" /\ Reap(c, "finishing")

(* The copy loop, or what precedes it, raises: _terminate_reap, which      *)
(* finds the child gone or sends SIGTERM.                                  *)
TransferFails(c) ==
  /\ at[c] = "using" /\ op[c] = "transfer"
  /\ \/ Reap(c, "done")
     \/ /\ child[c] = "alive"
        /\ at' = [at EXCEPT ![c] = "terminating"]
        /\ UNCHANGED <<lease, op, child, killed, tail, pending>>

(* Fault: the bounded wait ends and the child is left to itself.           *)
LeaveUnreaped(c) ==
  /\ at[c] = "terminating" /\ child[c] = "alive"
  /\ at' = [at EXCEPT ![c] = "done"]
  /\ UNCHANGED <<lease, op, child, killed, tail, pending>>

(* _terminate_reap: the bounded wait ends, SIGKILL, and a wait without end.*)
Escalate(c) ==
  /\ at[c] = "terminating" /\ child[c] = "alive"
  /\ killed' = killed \cup {c}
  /\ at' = [at EXCEPT ![c] = "killing"]
  /\ UNCHANGED <<lease, op, child, tail, pending>>

(* Either wait of _terminate_reap, or the one after ExecKills, returns.    *)
WaitReturns(c) == at[c] \in {"terminating", "killing"} /\ Reap(c, "done")

(* _PipeTail.finish joins the reader, or gives up on it and raises; both   *)
(* lead to the finally, the child being reaped.                            *)
Finish(c) ==
  /\ at[c] = "finishing"
  /\ at' = [at EXCEPT ![c] = "done"]
  /\ UNCHANGED <<lease, op, child, killed, tail, pending>>

(* The finally of exec and the transfers, or open_cmd's except.            *)
Release(c) ==
  /\ at[c] = "done"
  /\ Close(c)
  /\ op' = [op EXCEPT ![c] = "none"]
  /\ at' = [at EXCEPT ![c] = "idle"]
  /\ UNCHANGED <<child, killed, tail, pending>>

-----------------------------------------------------------------------------
(* _PipeTail._run, a thread of its own: it reads to the end of stderr, or  *)
(* fails and runs _terminate_reap against the call's own thread.           *)
TailStep(c, p, kills) ==
  /\ tail' = [tail EXCEPT ![c] = p]
  /\ killed' = IF kills THEN killed \cup {c} ELSE killed
  /\ UNCHANGED <<lease, op, at, pending>>

TailEnds(c) ==
  /\ tail[c] = "reading" /\ child[c] \in Gone
  /\ TailStep(c, "stopped", FALSE)
  /\ UNCHANGED child

TailFails(c) ==
  /\ tail[c] = "reading" /\ child[c] = "alive"
  /\ TailStep(c, "terminating", FALSE)
  /\ UNCHANGED child

TailEscalates(c) ==
  /\ tail[c] = "terminating" /\ child[c] = "alive"
  /\ TailStep(c, "killing", TRUE)
  /\ UNCHANGED child

TailReaps(c) ==
  /\ tail[c] \in {"reading", "terminating", "killing"}
  /\ child[c] \in Gone
  /\ child' = [child EXCEPT ![c] = "reaped"]
  /\ TailStep(c, "stopped", FALSE)

-----------------------------------------------------------------------------
(* ScheduledPopen.kill, and the poll after it finds the child still alive. *)
(* (terminate and send_signal change nothing then.)                        *)
Signal(u, c) ==
  /\ op[c] = "stream" /\ at[c] = "using" /\ child[c] = "alive"
  /\ killed' = killed \cup {c}
  /\ UNCHANGED <<lease, op, at, child, tail, pending>>

(* Fault: a signal request counts as the end of the child.                 *)
ObserveAnything(u, c) ==
  /\ op[c] = "stream" /\ at[c] = "using"
  /\ pending' = [pending EXCEPT ![c] = @ \cup {u}]
  /\ UNCHANGED <<lease, op, at, child, killed, tail>>

(* ScheduledPopen.poll, wait or communicate, or the poll after a signal,   *)
(* finds that the child is gone.                                           *)
Observe(u, c) ==
  /\ op[c] = "stream" /\ at[c] = "using"
  /\ child[c] \in Gone
  /\ child' = [child EXCEPT ![c] = "reaped"]
  /\ pending' = [pending EXCEPT ![c] = @ \cup {u}]
  /\ UNCHANGED <<lease, op, at, killed, tail>>

(* Fault: a wrapper that returns the result without the release.           *)
UserForgets(u, c) ==
  /\ u \in pending[c]
  /\ pending' = [pending EXCEPT ![c] = @ \ {u}]
  /\ UNCHANGED <<lease, op, at, child, killed, tail>>

(* The user's Lease.release; all but the first find _released set.         *)
UserRelease(u, c) ==
  /\ u \in pending[c]
  /\ pending' = [pending EXCEPT ![c] = @ \ {u}]
  /\ \/ /\ lease[c] # NoLease
        /\ Close(c)
        /\ op' = [op EXCEPT ![c] = "none"]
        /\ at' = [at EXCEPT ![c] = "idle"]
     \/ lease[c] = NoLease /\ UNCHANGED <<lease, op, at>>
  /\ UNCHANGED <<child, killed, tail>>

ChannelNext ==
  \E c \in Calls :
    \/ \E o \in Operations \ {"none"}, r \in Requests : Begin(c, o, r)
    \/ Spawn(c) \/ SpawnFails(c) \/ ChildExits(c)
    \/ ExecKills(c) \/ ExecEnds(c)
    \/ TransferEnds(c) \/ TransferFails(c) \/ Escalate(c) \/ WaitReturns(c)
    \/ Finish(c) \/ Release(c)
    \/ TailEnds(c) \/ TailFails(c) \/ TailEscalates(c) \/ TailReaps(c)
    \/ \E u \in Users : Signal(u, c) \/ Observe(u, c) \/ UserRelease(u, c)

ChannelSpec == ChannelInit /\ [][ChannelNext]_vars

(* A killed child exits; a thread that waits for a child that is gone gets *)
(* on; a bounded wait ends; and a stream has a thread that waits for it    *)
(* (the reader of an exec job, the thread of a log follower).              *)
ChannelFairness ==
  \A c \in Calls :
    /\ WF_vars(c \in killed /\ ChildExits(c))
    /\ WF_vars(ExecEnds(c)) /\ WF_vars(TransferEnds(c)) /\ WF_vars(Escalate(c))
    /\ WF_vars(WaitReturns(c)) /\ WF_vars(Finish(c)) /\ WF_vars(Release(c))
    /\ \E u \in Users : WF_vars(Observe(u, c)) /\ WF_vars(UserRelease(u, c))

FairChannelSpec == ChannelSpec /\ ChannelFairness

-----------------------------------------------------------------------------
(* The type invariant.  A user releases only what it saw end.              *)
ChannelTypeOK ==
  /\ TypeOK
  /\ op \in [Calls -> Operations]
  /\ at \in [Calls -> Places]
  /\ child \in [Calls -> Children]
  /\ killed \in SUBSET Calls
  /\ tail \in [Calls -> Tails]
  /\ pending \in [Calls -> SUBSET Users]
  /\ \A c \in Calls : pending[c] # {} => child[c] = "reaped"

(* The calls whose ssh process still exists for the operating system.      *)
Live == {c \in Calls : child[c] \in {"alive", "zombie"}}

(* A lease outlives its child on every path of every operation, with the   *)
(* stderr reader and all users of a stream at work at once, and no path    *)
(* out of an operation keeps the lease.                                    *)
LeaseCoversChild ==
  \A c \in Calls : /\ c \in Live => lease[c] # NoLease
                   /\ lease[c] # NoLease <=> at[c] # "idle"

(* Once a child has been sent SIGKILL its lease goes back.                 *)
KilledGivesBack ==
  \A c \in Calls : (c \in killed /\ at[c] # "idle") ~> at[c] = "idle"
=============================================================================
