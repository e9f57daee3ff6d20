----------------------------- MODULE UploadSpool -----------------------------
(***************************************************************************)
(* host/task/spool.py and _fs_upload of host/api/handlers/legacy.py: an    *)
(* upload reserves disk space, spools its body to a file and hands the     *)
(* file and the reservation to a transfer job, whose cleanup removes the   *)
(* one and gives back the other.  The request's error paths do the same,   *)
(* also after the hand-off, when the answer cannot be sent.  Removing the  *)
(* file may fail, which both ignore, and removes only its name while the   *)
(* job has it open.  A lease's flag is tested and set without a lock.      *)
(***************************************************************************)
EXTENDS Naturals, FiniteSets

CONSTANTS Uploads,
          MaxActive,   \* max_active
          MaxReserved, \* max_bytes
          Sizes,       \* sizes of bodies
          Room         \* free bytes above min_free_bytes

ASSUME SpoolAssumption ==
  Sizes \subseteq Nat /\ {MaxActive, MaxReserved, Room} \subseteq Nat

VARIABLES
  spooling, reserved,   \* UploadSpoolLimiter._active, ._reserved
  up,                 \* the uploads
  leases              \* their leases

spoolVars == <<spooling, reserved, up, leases>>

\* req and job: where the request and the transfer job are.  Each of them
\* releases in two steps: it has seen the flag clear, then sets it.  file is
\* the name in the spool directory, left that removing it failed, open that
\* the job has the file open, and read that it found it.
NewUpload == [req |-> "new", job |-> "none", file |-> "none", left |-> FALSE,
              open |-> FALSE, read |-> FALSE]
NewLease == [size |-> 0, held |-> FALSE, released |-> FALSE, saw |-> {}, times |-> 0]

SpoolInit ==
  /\ spooling = 0 /\ reserved = 0
  /\ up = [u \in Uploads |-> NewUpload]
  /\ leases = [u \in Uploads |-> NewLease]

SetUpload(u, x) == up' = [up EXCEPT ![u] = x]
SetLease(u, l) == leases' = [leases EXCEPT ![u] = l]

-----------------------------------------------------------------------------
(* The limiter.                                                            *)

\* room: what the disk has to spare at this moment.
Fits(size, room) ==
  /\ size > 0 /\ size <= MaxReserved
  /\ spooling < MaxActive
  /\ reserved + size <= MaxReserved
  /\ reserved + size <= room

\* acquire, or 503.
Acquire(u) ==
  /\ up[u].req = "new"
  /\ \E size \in Sizes, room \in 0..Room :
       IF Fits(size, room)
       THEN /\ spooling' = spooling + 1 /\ reserved' = reserved + size
            /\ SetLease(u, [leases[u] EXCEPT !.size = size, !.held = TRUE])
            /\ SetUpload(u, [up[u] EXCEPT !.req = "spool"])
       ELSE /\ SetUpload(u, [up[u] EXCEPT !.req = "done"])
            /\ UNCHANGED <<spooling, reserved, leases>>

Minus(a, b) == IF a > b THEN a - b ELSE 0

\* _Lease.release, first step: the flag is looked at.
LooksAt(u, who) ==
  /\ SetLease(u, [leases[u] EXCEPT !.saw = IF leases[u].released THEN @ ELSE @ \cup {who}])
  /\ UNCHANGED <<spooling, reserved>>

\* Second step, for one that saw it clear: the counters are reduced.
Releases(u, who) ==
  IF who \in leases[u].saw
  THEN /\ SetLease(u, [leases[u] EXCEPT !.released = TRUE, !.held = FALSE,
                                        !.saw = @ \ {who}, !.times = @ + 1])
       /\ spooling' = Minus(spooling, 1)
       /\ reserved' = Minus(reserved, leases[u].size)
  ELSE UNCHANGED <<leases, spooling, reserved>>

-----------------------------------------------------------------------------
(* The request.                                                            *)

\* os.remove of the spooled file, whose error is swallowed: x is the upload
\* it leaves behind.
Removed(x) ==
  {[x EXCEPT !.file = "none"]} \cup
  (IF x.file = "spooled" THEN {[x EXCEPT !.left = TRUE]} ELSE {})

\* The body is read into the file: complete, ended early, or an error.
SpoolBody(u) ==
  /\ up[u].req = "spool"
  /\ \/ SetUpload(u, [up[u] EXCEPT !.req = "start", !.file = "spooled"])
     \/ \E file \in {"none", "spooled"} : SetUpload(u, [up[u] EXCEPT !.req = "undo", !.file = file])
  /\ UNCHANGED <<spooling, reserved, leases>>

\* fs_copy: the job is made and may run at once, or it is refused.
HandOff(u) ==
  /\ up[u].req = "start"
  /\ \/ SetUpload(u, [up[u] EXCEPT !.req = "answer", !.job = "queued"])
     \/ SetUpload(u, [up[u] EXCEPT !.req = "undo"])
  /\ UNCHANGED <<spooling, reserved, leases>>

\* The answer; when it cannot be sent the error path follows.
AnswerUpload(u) ==
  /\ up[u].req = "answer"
  /\ \E next \in {"done", "undo"} : SetUpload(u, [up[u] EXCEPT !.req = next])
  /\ UNCHANGED <<spooling, reserved, leases>>

\* Slip: the lease goes before the file.
UndoReleasesFirst(u) ==
  /\ \/ up[u].req = "undo" /\ SetUpload(u, [up[u] EXCEPT !.req = "look"]) /\ LooksAt(u, "req")
     \/ up[u].req = "look" /\ SetUpload(u, [up[u] EXCEPT !.req = "remove"]) /\ Releases(u, "req")
     \/ up[u].req = "remove" /\ SetUpload(u, [up[u] EXCEPT !.req = "done", !.file = "none"])
        /\ UNCHANGED <<spooling, reserved, leases>>

\* The error path: the file is removed, then the lease released; `finally'
\* releases once more unless the job has it.
Undo(u) ==
  \/ /\ up[u].req = "undo"
     /\ \E x \in Removed(up[u]) : SetUpload(u, [x EXCEPT !.req = "look"])
     /\ UNCHANGED <<spooling, reserved, leases>>
  \/ /\ up[u].req = "look"
     /\ SetUpload(u, [up[u] EXCEPT !.req = "release"])
     /\ LooksAt(u, "req")
  \/ /\ up[u].req = "release"
     /\ SetUpload(u, [up[u] EXCEPT !.req = IF up[u].job = "none" THEN "finally" ELSE "done"])
     /\ Releases(u, "req")
  \/ /\ up[u].req = "finally"
     /\ SetUpload(u, [up[u] EXCEPT !.req = "done"])
     /\ Releases(u, "req")

-----------------------------------------------------------------------------
(* The transfer job.                                                       *)

\* A thread of the pool opens the file; without it the job fails.  A queued
\* job may also be discarded by the pool's close.
JobStarts(u) ==
  /\ up[u].job = "queued"
  /\ \/ /\ up[u].file = "spooled"
        /\ SetUpload(u, [up[u] EXCEPT !.job = "running", !.open = TRUE, !.read = TRUE])
     \/ SetUpload(u, [up[u] EXCEPT !.job = "clean"])
  /\ UNCHANGED <<spooling, reserved, leases>>

\* The copy ends, fails or is cancelled, and the file is closed.  It writes
\* to the board and waits without a time limit.
JobEnds(u) ==
  /\ up[u].job = "running"
  /\ SetUpload(u, [up[u] EXCEPT !.job = "clean", !.open = FALSE])
  /\ UNCHANGED <<spooling, reserved, leases>>

\* Slip: the cleanup only removes the file.
JobCleansForgets(u) ==
  /\ up[u].job = "clean"
  /\ SetUpload(u, [up[u] EXCEPT !.job = "done", !.file = "none"])
  /\ UNCHANGED <<spooling, reserved, leases>>

\* cleanup: the lease is released whatever became of the file.
JobCleans(u) ==
  \/ /\ up[u].job = "clean"
     /\ \E x \in Removed(up[u]) : SetUpload(u, [x EXCEPT !.job = "look"])
     /\ UNCHANGED <<spooling, reserved, leases>>
  \/ /\ up[u].job = "look"
     /\ SetUpload(u, [up[u] EXCEPT !.job = "release"])
     /\ LooksAt(u, "job")
  \/ /\ up[u].job = "release"
     /\ SetUpload(u, [up[u] EXCEPT !.job = "done"])
     /\ Releases(u, "job")

-----------------------------------------------------------------------------
\* What requests and cleanups do by themselves.
UploadStep(u) == SpoolBody(u) \/ HandOff(u) \/ AnswerUpload(u) \/ Undo(u) \/ JobCleans(u)

SpoolNext == \E u \in Uploads : Acquire(u) \/ UploadStep(u) \/ JobStarts(u) \/ JobEnds(u)

\* A request reads and writes its socket under a time limit and a cleanup
\* waits for nothing.  Nothing says that a job is ever started, for the jobs
\* before it may keep the pool, or that its copy ends.
SpoolFairness == \A u \in Uploads : WF_spoolVars(UploadStep(u))

SpoolSpec == SpoolInit /\ [][SpoolNext]_spoolVars /\ SpoolFairness

-----------------------------------------------------------------------------
(* Properties.                                                             *)

Held == {u \in Uploads : leases[u].held}

\* A file in the spool directory is covered by a lease that is held, unless
\* removing it failed; as long as no lease was released twice the counters
\* are exact and within their limits; and only a lease whose job was made is
\* ever released twice (spool.py:17-21, 56-78, legacy.py:630-696).
SpoolAccounted ==
  /\ \A u \in Uploads : up[u].file = "spooled" => leases[u].held \/ up[u].left
  /\ (\A u \in Uploads : leases[u].times <= 1) =>
        /\ spooling = Cardinality(Held) /\ spooling <= MaxActive /\ reserved <= MaxReserved
        /\ \A u \in Held : leases[u].size <= reserved
        /\ Held = {} => reserved = 0
  /\ \A u \in Uploads : leases[u].times > 1 => up[u].job # "none"

\* In the end the only leases held are those of answered requests whose
\* transfer waits for a thread or is copying, which nothing bounds: every
\* other path of an upload gives its lease back, with the file removed or not
\* (legacy.py:630-696, ssh.py:437-445).
LeasesReturn ==
  <>[](\A u \in Uploads : leases[u].held => up[u].req = "done" /\ up[u].job \in {"queued", "running"})

\* Not true (instance of Services.cfg): the counters are exact.
SpoolExact == spooling = Cardinality(Held)

\* Not true (instance of Services.cfg): a job finds the file it was given.
JobFindsFile == \A u \in Uploads : up[u].job \in {"clean", "look", "release", "done"} => up[u].read

\* Not true (instance of Services.cfg): the disk holds no more than the leases
\* reserve.  The error path removes the name of a file that its job has open.
DiskReserved == \A u \in Uploads : up[u].file = "spooled" \/ up[u].open => leases[u].held
=============================================================================
