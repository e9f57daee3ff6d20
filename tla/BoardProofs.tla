---------------------------- MODULE BoardProofs -----------------------------
(***************************************************************************)
(* What the host promises about one board, for every number of calls,      *)
(* requests, runs, keys and permits: the ssh processes and their leases,   *)
(* the permits for camera tests, the file of pinned keys, the cache of     *)
(* probes, the runs of a deployment and the output of a command.           *)
(***************************************************************************)
EXTENDS SshChannels, CameraTests, KnownHosts, Probes, DeployJobs, OutputBuffer,
        FiniteSetTheorems, TLAPS

-----------------------------------------------------------------------------
(***************************************************************************)
(* Leases and ssh processes (SshChannels).  A lease outlives its process.  *)
(***************************************************************************)

(* A call outside the part of an operation that uses the child has none,   *)
(* and a call without a child yet has no user that saw it end.             *)
ChildOnlyInUse ==
  \A c \in Calls :
    /\ at[c] \in {"idle", "admitted", "finishing", "done"} => c \notin Live
    /\ at[c] = "admitted" => pending[c] = {}

ChannelIndInv == ChannelTypeOK /\ LeaseCoversChild /\ ChildOnlyInUse

(* acquire, and Lease.release, keep the table of leases well formed.       *)
LEMMA LeasesTyped ==
  ASSUME TypeOK, NEW c \in Calls, \/ \E r \in Requests : Open(c, r)
                                 \/ Close(c)
  PROVE  TypeOK'
  BY DEF TypeOK, Open, Close

(* The initial states satisfy the inductive invariant.                     *)
LEMMA ChannelInitHolds == ChannelInit => ChannelIndInv
<1> SUFFICES ASSUME ChannelInit PROVE ChannelIndInv
  OBVIOUS
<1> USE AdmissionAssumption DEF ChannelInit, Init
<1>1. ChannelTypeOK
  BY DEF ChannelTypeOK, TypeOK, Operations, Places, Children, Tails
<1>2. LeaseCoversChild /\ ChildOnlyInUse
  BY DEF LeaseCoversChild, ChildOnlyInUse, Live
<1>. QED BY <1>1, <1>2 DEF ChannelIndInv

(* So does a step that opens and closes no lease.                          *)
LEMMA LeasesKept ==
  ASSUME ChannelIndInv, UNCHANGED lease
  PROVE  TypeOK'
BY DEF ChannelIndInv, ChannelTypeOK, TypeOK

(* What a step of one call does to that call decides the rest of the       *)
(* invariant.                                                              *)
LEMMA OneCall ==
  ASSUME ChannelIndInv, NEW c \in Calls, TypeOK',
         \A b \in Calls \ {c} :
           /\ lease'[b] = lease[b] /\ op'[b] = op[b] /\ at'[b] = at[b]
           /\ child'[b] = child[b] /\ tail'[b] = tail[b] /\ pending'[b] = pending[b],
         op' \in [Calls -> Operations], at' \in [Calls -> Places],
         child' \in [Calls -> Children], killed' \in SUBSET Calls,
         tail' \in [Calls -> Tails], pending' \in [Calls -> SUBSET Users],
         pending'[c] # {} => child'[c] = "reaped",
         child'[c] \in {"alive", "zombie"} =>
           at'[c] \in {"using", "terminating", "killing"},
         at'[c] = "admitted" => pending'[c] = {},
         lease'[c] # NoLease <=> at'[c] # "idle"
  PROVE  ChannelIndInv'
<1>0. ChannelTypeOK /\ LeaseCoversChild /\ ChildOnlyInUse
  BY DEF ChannelIndInv
<1>1. ChannelTypeOK'
  BY <1>0 DEF ChannelTypeOK
<1>2. ASSUME NEW b \in Calls
      PROVE  /\ (b \in Live)' => lease'[b] # NoLease
             /\ lease'[b] # NoLease <=> at'[b] # "idle"
             /\ at'[b] \in {"idle", "admitted", "finishing", "done"} => ~(b \in Live)'
             /\ at'[b] = "admitted" => pending'[b] = {}
  <2>1. CASE b = c
    BY <2>1 DEF Live
  <2>2. CASE b # c
    BY <1>0, <2>2 DEF LeaseCoversChild, ChildOnlyInUse, Live
  <2>. QED BY <2>1, <2>2
<1>3. LeaseCoversChild' /\ ChildOnlyInUse'
  BY <1>2 DEF LeaseCoversChild, ChildOnlyInUse
<1>. QED BY <1>1, <1>3 DEF ChannelIndInv

(* Every step preserves the inductive invariant.                           *)
LEMMA ChannelStepHolds == ChannelIndInv /\ [ChannelNext]_vars => ChannelIndInv'
<1> SUFFICES ASSUME ChannelIndInv, [ChannelNext]_vars PROVE ChannelIndInv'
  OBVIOUS
<1>0. ChannelTypeOK /\ LeaseCoversChild /\ ChildOnlyInUse /\ TypeOK
  BY DEF ChannelIndInv, ChannelTypeOK
<1> DEFINE Safe(c) == /\ pending[c] # {} => child[c] = "reaped"
                      /\ child[c] \in {"alive", "zombie"} =>
                           at[c] \in {"using", "terminating", "killing"}
                      /\ at[c] = "admitted" => pending[c] = {}
                      /\ lease[c] # NoLease <=> at[c] # "idle"
           Typed == /\ lease \in [Calls -> Requests \cup {NoLease}]
                    /\ op \in [Calls -> Operations]
                    /\ at \in [Calls -> Places]
                    /\ child \in [Calls -> Children]
                    /\ killed \in SUBSET Calls
                    /\ tail \in [Calls -> Tails]
                    /\ pending \in [Calls -> SUBSET Users]
<1>1. Typed /\ \A c \in Calls : Safe(c)
  BY <1>0 DEF ChannelTypeOK, TypeOK, LeaseCoversChild, ChildOnlyInUse, Live, Places
<1>2. ASSUME NEW c \in Calls, NEW o \in Operations, NEW r \in Requests, Begin(c, o, r)
      PROVE  ChannelIndInv'
  <2>1. TypeOK'
    BY <1>0, <1>2, LeasesTyped DEF Begin
  <2>2. lease' = [lease EXCEPT ![c] = r] /\ r # NoLease
    BY <1>2, AdmissionAssumption DEF Begin, Open, Requests
  <2>. QED BY <1>1, <1>2, <2>1, <2>2, OneCall DEF Begin, Operations, Places, Children, Tails
<1>3. ASSUME NEW c \in Calls, Spawn(c) \/ SpawnFails(c) \/ ChildExits(c) \/ Finish(c)
      PROVE  ChannelIndInv'
  <2>1. TypeOK'
    BY <1>3, LeasesKept DEF Spawn, SpawnFails, ChildExits, Finish
  <2>2. CASE Spawn(c)
    BY <1>1, <2>1, <2>2, OneCall DEF Spawn, Places, Children, Tails
  <2>3. CASE SpawnFails(c) \/ Finish(c)
    BY <1>1, <2>1, <2>3, OneCall DEF SpawnFails, Finish, Places
  <2>4. CASE ChildExits(c)
    BY <1>1, <2>1, <2>4, OneCall DEF ChildExits, Children
  <2>. QED BY <1>3, <2>2, <2>3, <2>4
<1>4. ASSUME NEW c \in Calls, NEW p \in {"done", "finishing"},
             Reap(c, p), at[c] \in {"using", "terminating", "killing"}
      PROVE  ChannelIndInv'
  <2>1. TypeOK'
    BY <1>4, LeasesKept DEF Reap
  <2>. QED BY <1>1, <1>4, <2>1, OneCall DEF Reap, Places, Children
<1>5. ASSUME NEW c \in Calls, NEW p \in {"terminating", "killing"}, NEW K \in SUBSET Calls,
             at[c] \in {"using", "terminating"}, at' = [at EXCEPT ![c] = p], killed' = K,
             UNCHANGED <<lease, op, child, tail, pending>>
      PROVE  ChannelIndInv'
  <2>1. TypeOK'
    BY <1>5, LeasesKept
  <2>. QED BY <1>1, <1>5, <2>1, OneCall DEF Places
<1>6. ASSUME NEW c \in Calls, \/ ExecKills(c) \/ ExecEnds(c) \/ TransferEnds(c)
                              \/ TransferFails(c) \/ Escalate(c) \/ WaitReturns(c)
      PROVE  ChannelIndInv'
  <2>1. CASE ExecKills(c) \/ Escalate(c)
    <3>1. killed \cup {c} \in SUBSET Calls
      BY <1>1
    <3>. QED BY <1>5, <2>1, <3>1 DEF ExecKills, Escalate
  <2>2. CASE ExecEnds(c) \/ TransferEnds(c) \/ WaitReturns(c)
    BY <1>4, <2>2 DEF ExecEnds, TransferEnds, WaitReturns
  <2>3. CASE TransferFails(c)
    BY <1>1, <1>4, <1>5, <2>3 DEF TransferFails
  <2>. QED BY <1>6, <2>1, <2>2, <2>3
<1>7. ASSUME NEW c \in Calls, Release(c)
      PROVE  ChannelIndInv'
  <2>1. TypeOK'
    BY <1>0, <1>7, LeasesTyped DEF Release
  <2>2. lease' = [lease EXCEPT ![c] = NoLease]
    BY <1>7 DEF Release, Close
  <2>. QED BY <1>1, <1>7, <2>1, <2>2, OneCall DEF Release, Places, Operations
<1>8. ASSUME NEW c \in Calls, TailEnds(c) \/ TailFails(c) \/ TailEscalates(c) \/ TailReaps(c)
      PROVE  ChannelIndInv'
  <2>1. TypeOK'
    BY <1>8, LeasesKept DEF TailEnds, TailFails, TailEscalates, TailReaps, TailStep
  <2>2. CASE TailEnds(c) \/ TailFails(c) \/ TailEscalates(c)
    BY <1>1, <2>1, <2>2, OneCall DEF TailEnds, TailFails, TailEscalates, TailStep, Tails
  <2>3. CASE TailReaps(c)
    BY <1>1, <2>1, <2>3, OneCall DEF TailReaps, TailStep, Tails, Children
  <2>. QED BY <1>8, <2>2, <2>3
<1>9. ASSUME NEW c \in Calls, NEW u \in Users, Signal(u, c) \/ Observe(u, c)
      PROVE  ChannelIndInv'
  <2>1. TypeOK'
    BY <1>9, LeasesKept DEF Signal, Observe
  <2>2. CASE Signal(u, c)
    BY <1>1, <2>1, <2>2, OneCall DEF Signal
  <2>3. CASE Observe(u, c)
    BY <1>1, <2>1, <2>3, OneCall DEF Observe, Children
  <2>. QED BY <1>9, <2>2, <2>3
<1>10. ASSUME NEW c \in Calls, NEW u \in Users, UserRelease(u, c)
       PROVE  ChannelIndInv'
  <2>1. child[c] = "reaped"
    BY <1>1, <1>10 DEF UserRelease
  <2>2. CASE lease[c] = NoLease
    <3>1. TypeOK'
      BY <1>10, <2>2, LeasesKept DEF UserRelease
    <3>. QED BY <1>1, <1>10, <2>1, <2>2, <3>1, OneCall DEF UserRelease
  <2>3. CASE lease[c] # NoLease
    <3>1. Close(c)
      BY <1>10, <2>3 DEF UserRelease
    <3>2. TypeOK'
      BY <1>0, <3>1, LeasesTyped
    <3>3. lease' = [lease EXCEPT ![c] = NoLease]
      BY <3>1 DEF Close
    <3>4. /\ op' = [op EXCEPT ![c] = "none"] /\ at' = [at EXCEPT ![c] = "idle"]
          /\ pending' = [pending EXCEPT ![c] = @ \ {u}]
          /\ UNCHANGED <<child, killed, tail>>
      BY <1>10, <2>3 DEF UserRelease
    <3>. QED BY <1>1, <2>1, <3>2, <3>3, <3>4, OneCall DEF Places, Operations
  <2>. QED BY <2>2, <2>3
<1>11. CASE UNCHANGED vars
  BY <1>11 DEF vars, callVars, ChannelIndInv, ChannelTypeOK, TypeOK, LeaseCoversChild,
               ChildOnlyInUse, Live
<1>. QED BY <1>2, <1>3, <1>6, <1>7, <1>8, <1>9, <1>10, <1>11 DEF ChannelNext

(* The inductive invariant holds in every reachable state.                 *)
THEOREM ChannelInvariant == ChannelSpec => []ChannelIndInv
BY ChannelInitHolds, ChannelStepHolds, PTL DEF ChannelSpec

(* No interleaving of a call, its stderr reader and the users of a stream  *)
(* gives a lease back before the ssh process is reaped, or keeps it after  *)
(* the operation has ended.                                                *)
THEOREM LeaseOutlivesChild == ChannelSpec => []LeaseCoversChild
<1>1. ChannelIndInv => LeaseCoversChild
  BY DEF ChannelIndInv
<1>. QED BY <1>1, ChannelInvariant, PTL

-----------------------------------------------------------------------------
(***************************************************************************)
(* The permits for camera tests (CameraTests).                             *)
(***************************************************************************)

\* The tests that hold a permit.
Streaming == {t \in Testers : tests[t].at \in Inside}

\* What a test may be answered with.
Outcomes == {"invalid", "busy", "error", "NOV4L2", "TIMEOUT", "STREAMOK", "STREAM_FAIL"}

\* A test that has ended its work on the board has an outcome; one that is
\* not answered yet has not been audited.
TestOK(v) ==
  /\ v \in [at : {"idle", "audit", "done"} \cup Inside, status : Outcomes \cup {"none"}, audits : {0, 1}]
  /\ v.audits = IF v.at = "done" THEN 1 ELSE 0
  /\ v.at \in {"size", "leave", "audit", "done"} => v.status \in Outcomes

\* The inductive invariant.
CameraInv ==
  /\ tests = [t \in Testers |-> tests[t]]
  /\ \A t \in Testers : TestOK(tests[t])
  /\ permits \in Nat
  /\ permits + Cardinality(Streaming) = StreamPermits

\* How many permits a test at this place holds.
Permit(v) == IF v.at \in Inside THEN 1 ELSE 0

-----------------------------------------------------------------------------
\* The counted tests are finitely many (the requests of diag.py:280-316).
LEMMA StreamingFinite == IsFiniteSet(Streaming) /\ Cardinality(Streaming) \in Nat
  BY CameraAssumption, FS_Subset, FS_CardinalityType DEF Streaming

\* A step of one test that takes and returns permits as its place changes
\* keeps the invariant.
LEMMA OneTest ==
  ASSUME CameraInv, NEW t \in Testers, NEW v, TestOK(v), SetTest(t, v),
         permits' \in Nat, permits' + Permit(v) = permits + Permit(tests[t])
  PROVE  CameraInv'
<1>1. /\ tests' = [u \in Testers |-> tests'[u]]
      /\ tests'[t] = v
      /\ \A u \in Testers \ {t} : tests'[u] = tests[u]
  BY DEF CameraInv, SetTest
<1>2. \A u \in Testers : TestOK(tests'[u])
  BY <1>1 DEF CameraInv
<1>3. permits' + Cardinality(Streaming') = StreamPermits
  <2>1. CASE v.at \in Inside /\ tests[t].at \in Inside
    <3>1. Streaming' = Streaming
      BY <1>1, <2>1 DEF Streaming
    <3>2. permits' = permits
      BY <2>1 DEF Permit, CameraInv
    <3> QED BY <3>1, <3>2 DEF CameraInv
  <2>2. CASE v.at \notin Inside /\ tests[t].at \notin Inside
    <3>1. Streaming' = Streaming
      BY <1>1, <2>2 DEF Streaming
    <3>2. permits' = permits
      BY <2>2 DEF Permit, CameraInv
    <3> QED BY <3>1, <3>2 DEF CameraInv
  <2>3. CASE v.at \in Inside /\ tests[t].at \notin Inside
    <3>1. Streaming' = Streaming \cup {t} /\ t \notin Streaming
      BY <1>1, <2>3 DEF Streaming
    <3>2. Cardinality(Streaming') = Cardinality(Streaming) + 1
      BY <3>1, StreamingFinite, FS_AddElement
    <3>3. permits' + 1 = permits
      BY <2>3 DEF Permit, CameraInv
    <3> QED BY <3>2, <3>3, StreamingFinite DEF CameraInv
  <2>4. CASE v.at \notin Inside /\ tests[t].at \in Inside
    <3>1. Streaming' = Streaming \ {t} /\ t \in Streaming
      BY <1>1, <2>4 DEF Streaming
    <3>2. Cardinality(Streaming') = Cardinality(Streaming) - 1
      BY <3>1, StreamingFinite, FS_RemoveElement
    <3>3. permits' = permits + 1
      BY <2>4 DEF Permit, CameraInv
    <3> QED BY <3>2, <3>3, StreamingFinite DEF CameraInv
  <2> QED BY <2>1, <2>2, <2>3, <2>4
<1> QED BY <1>1, <1>2, <1>3 DEF CameraInv

\* A test that goes on to another command keeps its permit and its outcome.
LEMMA GoesKeeps ==
  ASSUME CameraInv, NEW t \in Testers, NEW from \in Inside, NEW to \in Inside,
         to \in {"size", "leave"} => from \in {"size", "leave"}, Goes(t, from, to)
  PROVE  CameraInv'
<1> DEFINE v == [tests[t] EXCEPT !.at = to]
<1>1. TestOK(tests[t]) /\ tests[t].at = from
  BY DEF CameraInv, Goes
<1>2. TestOK(v) /\ v.at = to
  BY <1>1 DEF TestOK, Inside
<1>3. Permit(v) = 1 /\ Permit(tests[t]) = 1
  BY <1>1, <1>2 DEF Permit
<1>4. SetTest(t, v) /\ permits' = permits
  BY DEF Goes
<1> QED BY <1>2, <1>3, <1>4, OneTest DEF CameraInv

\* A test that ends with an outcome still has its permit to give back.
LEMMA OutcomeKeeps ==
  ASSUME CameraInv, NEW t \in Testers, tests[t].at \in Inside,
         NEW to \in {"size", "leave"}, NEW status \in Outcomes,
         SetTest(t, [tests[t] EXCEPT !.at = to, !.status = status]), UNCHANGED permits
  PROVE  CameraInv'
<1> DEFINE v == [tests[t] EXCEPT !.at = to, !.status = status]
<1>1. TestOK(tests[t])
  BY DEF CameraInv
<1>2. TestOK(v) /\ v.at = to
  BY <1>1 DEF TestOK, Inside
<1>3. Permit(v) = 1 /\ Permit(tests[t]) = 1
  BY <1>2 DEF Permit, Inside
<1> QED BY <1>2, <1>3, OneTest DEF CameraInv

\* A test is over on the board.
LEMMA EndedKeeps ==
  ASSUME CameraInv, NEW t \in Testers, NEW from \in Inside, NEW status \in Outcomes,
         Ended(t, from, status)
  PROVE  CameraInv'
  BY OutcomeKeeps DEF Ended

-----------------------------------------------------------------------------

\* No test, and all permits free.
LEMMA CameraInitHolds == CameraInit => CameraInv
<1> SUFFICES ASSUME CameraInit PROVE CameraInv
  OBVIOUS
<1>1. \A t \in Testers : TestOK(tests[t]) /\ tests[t].at = "idle"
  BY DEF CameraInit, NewTest, TestOK
<1>2. Streaming = {}
  BY <1>1 DEF Streaming, Inside
<1>3. Cardinality(Streaming) = 0
  BY <1>2, FS_EmptySet
<1> QED BY <1>1, <1>3, CameraAssumption DEF CameraInv, CameraInit

\* A request for a test gets a permit, or none.
LEMMA StreamTestKeeps ==
  ASSUME CameraInv, NEW t \in Testers, StreamTest(t)
  PROVE  CameraInv'
<1>1. TestOK(tests[t]) /\ Permit(tests[t]) = 0
  BY DEF CameraInv, StreamTest, Permit, Inside
<1>2. CASE UNCHANGED permits
  <2>1. PICK status \in {"invalid", "busy"} :
          SetTest(t, [NewTest EXCEPT !.at = "audit", !.status = status])
    BY <1>2 DEF StreamTest, CameraInv
  <2> DEFINE v == [NewTest EXCEPT !.at = "audit", !.status = status]
  <2>2. TestOK(v) /\ Permit(v) = 0
    BY DEF TestOK, NewTest, Outcomes, Permit, Inside
  <2> QED BY <1>1, <1>2, <2>1, <2>2, OneTest DEF CameraInv
<1>3. CASE permits > 0 /\ permits' = permits - 1
           /\ SetTest(t, [NewTest EXCEPT !.at = "occupied"])
  <2> DEFINE v == [NewTest EXCEPT !.at = "occupied"]
  <2>1. TestOK(v) /\ Permit(v) = 1
    BY DEF TestOK, NewTest, Permit, Inside
  <2>2. permits' \in Nat /\ permits' + 1 = permits + 0
    BY <1>3 DEF CameraInv
  <2> QED BY <1>1, <1>3, <2>1, <2>2, OneTest
<1> QED BY <1>2, <1>3 DEF StreamTest

\* A test gives its permit back.
LEMMA LeaveKeeps ==
  ASSUME CameraInv, NEW t \in Testers, Leave(t)
  PROVE  CameraInv'
<1> DEFINE v == [tests[t] EXCEPT !.at = "audit"]
<1>1. TestOK(tests[t]) /\ Permit(tests[t]) = 1
  BY DEF CameraInv, Leave, Permit, Inside
<1>2. TestOK(v) /\ Permit(v) = 0
  BY <1>1 DEF TestOK, Leave, Permit, Inside
<1>3. permits' \in Nat /\ permits' + 0 = permits + 1
  BY DEF CameraInv, Leave
<1> QED BY <1>1, <1>2, <1>3, OneTest DEF Leave

\* A test is recorded and answered.
LEMMA AuditKeeps ==
  ASSUME CameraInv, NEW t \in Testers, AuditTest(t)
  PROVE  CameraInv'
<1> DEFINE v == [tests[t] EXCEPT !.at = "done", !.audits = 1]
<1>1. TestOK(tests[t]) /\ Permit(tests[t]) = 0
  BY DEF CameraInv, AuditTest, Permit, Inside
<1>2. tests[t].audits + 1 = 1
  BY <1>1 DEF TestOK, AuditTest
<1>3. SetTest(t, v)
  BY <1>2 DEF AuditTest
<1>4. TestOK(v) /\ Permit(v) = 0
  BY <1>1 DEF TestOK, AuditTest, Permit, Inside
<1> QED BY <1>1, <1>3, <1>4, OneTest DEF AuditTest, CameraInv

\* Every step keeps the invariant.
LEMMA CameraNextKeeps == CameraInv /\ [CameraNext]_cameraVars => CameraInv'
<1> SUFFICES ASSUME CameraInv, [CameraNext]_cameraVars PROVE CameraInv'
  OBVIOUS
<1> USE DEF Outcomes, Inside
<1>1. CASE UNCHANGED <<permits, tests>>
  BY <1>1 DEF CameraInv, Streaming
<1>2. ASSUME NEW t \in Testers, StreamTest(t) PROVE CameraInv'
  BY <1>2, StreamTestKeeps
<1>3. ASSUME NEW t \in Testers, TestStep(t) PROVE CameraInv'
  <2>1. CASE Occupied(t)
    BY <2>1, EndedKeeps, GoesKeeps DEF Occupied
  <2>2. CASE ProbeTools(t)
    BY <2>2, EndedKeeps, GoesKeeps DEF ProbeTools
  <2>3. CASE StreamFormats(t)
    BY <2>3, EndedKeeps, GoesKeeps DEF StreamFormats
  <2>4. CASE StreamV4l2(t)
    <3>1. \A code, frames : Verdict(code, frames) \in Outcomes
      BY DEF Verdict
    <3> QED BY <2>4, <3>1, EndedKeeps, OutcomeKeeps DEF StreamV4l2
  <2>5. CASE StatSize(t)
    BY <2>5, GoesKeeps DEF StatSize
  <2>6. CASE StreamRk(t)
    BY <2>6, EndedKeeps, OutcomeKeeps DEF StreamRk
  <2>7. CASE Leave(t)
    BY <2>7, LeaveKeeps
  <2>8. CASE AuditTest(t)
    BY <2>8, AuditKeeps
  <2> QED BY <1>3, <2>1, <2>2, <2>3, <2>4, <2>5, <2>6, <2>7, <2>8 DEF TestStep
<1> QED BY <1>1, <1>2, <1>3 DEF CameraNext, CaptureTurns, cameraVars

\* For every number of requests and permits: on every path through a camera
\* test, errors of the board included, its permit is given back once and the
\* test is audited once, after that (diag.py:280-316, handlers/diag.py:94-117).
THEOREM PermitsExact == CameraSpec => []StreamsAccounted
<1>1. CameraInv => StreamsAccounted
  BY DEF CameraInv, StreamsAccounted, Streaming, TestOK, Outcomes
<1> QED BY <1>1, CameraInitHolds, CameraNextKeeps, PTL DEF CameraSpec

-----------------------------------------------------------------------------
(***************************************************************************)
(* The file of pinned keys (KnownHosts).                                   *)
(***************************************************************************)

\* Where a run of the tool is.
PinPlaces == {"idle", "read", "look", "write", "replace", "pinned", "already", "refused"}

\* A run of the tool.
PinType ==
  [at : PinPlaces, line : Lines \cup {NoFile}, existing : (SUBSET Lines) \cup {NoFile}]

\* A run that has chosen its key has a line to write.
KnownTyped ==
  /\ known \in (SUBSET Lines) \cup {NoFile}
  /\ pins \in [Pinners -> PinType]
  /\ raced \in BOOLEAN
  /\ \A p \in Pinners : pins[p].at \notin {"idle", "refused"} => pins[p].line \in Lines

\* Without a race the file only grows, so what a run has read is still there,
\* and a host the run did not find when it looked was not in what it had read.
ReadStays ==
  \A p \in Pinners :
    /\ pins[p].at \in {"look", "write", "replace"} =>
         LinesOf(pins[p].existing) \subseteq LinesOf(known)
    /\ pins[p].at \in {"write", "replace"} => ~HasHost(pins[p].existing, pins[p].line)

\* The inductive invariant.
KnownInv == KnownTyped /\ PinsKept /\ (~raced => ReadStays)

-----------------------------------------------------------------------------

\* No run.
LEMMA KnownInitHolds == KnownInit => KnownInv
<1> SUFFICES ASSUME KnownInit PROVE KnownInv
  OBVIOUS
<1>1. \A p \in Pinners : pins[p] = NewPin
  BY DEF KnownInit
<1>2. KnownTyped
  BY <1>1 DEF KnownInit, KnownTyped, PinType, NewPin, PinPlaces
<1>3. PinsKept /\ ReadStays
  BY <1>1 DEF KnownInit, PinsKept, ReadStays, LinesOf, NewPin
<1> QED BY <1>2, <1>3 DEF KnownInv

\* What a file holds.
LEMMA FileLines ==
  ASSUME NEW file \in (SUBSET Lines) \cup {NoFile}
  PROVE  /\ LinesOf(file) \subseteq Lines
         /\ \A S \in SUBSET Lines : LinesOf(S) = S
  BY KnownAssumption DEF LinesOf

\* A step that leaves the file alone and changes one run, to a place at which
\* what is asked of that run holds.
LEMMA OneRun ==
  ASSUME KnownInv, NEW p \in Pinners, NEW v \in PinType, SetPin(p, v), PinElse,
         v.at \notin {"idle", "refused"} => v.line \in Lines,
         ~raced =>
           /\ v.at \in {"pinned", "already"} => v.line \in LinesOf(known)
           /\ v.at \in {"look", "write", "replace"} => LinesOf(v.existing) \subseteq LinesOf(known)
           /\ v.at \in {"write", "replace"} => ~HasHost(v.existing, v.line)
  PROVE  KnownInv'
<1>1. known' = known /\ raced' = raced
  BY DEF PinElse
<1>2. pins' \in [Pinners -> PinType] /\ \A q \in Pinners : pins'[q] = IF q = p THEN v ELSE pins[q]
  BY DEF SetPin, KnownInv, KnownTyped
<1>3. KnownTyped'
  BY <1>1, <1>2 DEF KnownInv, KnownTyped
<1>4. PinsKept'
  BY <1>1, <1>2 DEF KnownInv, PinsKept, LinesOf
<1>5. ~raced' => ReadStays'
  BY <1>1, <1>2 DEF KnownInv, ReadStays, LinesOf, HasHost
<1> QED BY <1>3, <1>4, <1>5 DEF KnownInv

-----------------------------------------------------------------------------

\* A run picks a key.
LEMMA DiscoverKeeps ==
  ASSUME KnownInv, NEW p \in Pinners, Discover(p)
  PROVE  KnownInv'
<1>1. PICK v : /\ SetPin(p, v)
               /\ \/ v = [NewPin EXCEPT !.at = "refused"]
                  \/ \E l \in Lines : v = [NewPin EXCEPT !.at = "read", !.line = l]
  BY DEF Discover, Matches, Candidates, Lines
<1>2. v \in PinType /\ v.at \in {"read", "refused"} /\ (v.at = "read" => v.line \in Lines)
  BY <1>1 DEF PinType, NewPin, PinPlaces
<1>3. PinElse /\ v.at \notin {"pinned", "already", "look", "write", "replace"}
  BY <1>2 DEF Discover
<1> QED BY <1>1, <1>2, <1>3, OneRun

\* A run reads the file.
LEMMA ReadKeeps ==
  ASSUME KnownInv, NEW p \in Pinners, ReadKnown(p)
  PROVE  KnownInv'
<1>1. PICK to \in {"write", "refused", "look"} :
        /\ SetPin(p, [pins[p] EXCEPT !.existing = known, !.at = to])
        /\ to = "write" => known = NoFile
  BY DEF ReadKnown
<1> DEFINE v == [pins[p] EXCEPT !.existing = known, !.at = to]
<1>2. pins[p] \in PinType /\ pins[p].line \in Lines
  BY DEF KnownInv, KnownTyped, ReadKnown
<1>3. v \in PinType /\ v.at = to /\ v.existing = known /\ v.line \in Lines
  BY <1>2 DEF PinType, PinPlaces, KnownInv, KnownTyped
<1>4. to = "write" => ~HasHost(v.existing, v.line)
  BY <1>1, <1>3 DEF HasHost, LinesOf
<1> QED BY <1>1, <1>3, <1>4, OneRun DEF ReadKnown

\* A run looks for the host in what it read.
LEMMA LookKeeps ==
  ASSUME KnownInv, NEW p \in Pinners, LookForHost(p)
  PROVE  KnownInv'
<1>1. PICK to \in {"write", "already", "refused"} :
        /\ SetPin(p, [pins[p] EXCEPT !.at = to])
        /\ to = "write" => ~HasHost(known, pins[p].line)
        /\ to = "already" => pins[p].line \in LinesOf(pins[p].existing)
  BY DEF LookForHost
<1> DEFINE v == [pins[p] EXCEPT !.at = to]
<1>2. pins[p] \in PinType /\ pins[p].line \in Lines /\ pins[p].at = "look"
  BY DEF KnownInv, KnownTyped, LookForHost
<1>3. v \in PinType /\ v.at = to /\ v.existing = pins[p].existing /\ v.line = pins[p].line
  BY <1>2 DEF PinType, PinPlaces
<1>4. ~raced => LinesOf(v.existing) \subseteq LinesOf(known)
  BY <1>2, <1>3 DEF KnownInv, ReadStays
<1>5. ~raced /\ to = "write" => ~HasHost(v.existing, v.line)
  BY <1>1, <1>3, <1>4 DEF HasHost
<1>6. ~raced /\ to = "already" => v.line \in LinesOf(known)
  BY <1>1, <1>3, <1>4
<1> QED BY <1>1, <1>2, <1>3, <1>4, <1>5, <1>6, OneRun DEF LookForHost

\* A run writes its temporary file, or is killed.
LEMMA WriteKeeps ==
  ASSUME KnownInv, NEW p \in Pinners, WriteTemp(p) \/ KillPin(p)
  PROVE  KnownInv'
<1>1. PICK to \in {"replace", "refused"} :
        /\ SetPin(p, [pins[p] EXCEPT !.at = to]) /\ PinElse
        /\ to = "replace" => pins[p].at = "write"
  BY DEF WriteTemp, KillPin
<1> DEFINE v == [pins[p] EXCEPT !.at = to]
<1>2. pins[p] \in PinType /\ pins[p].line \in Lines
  BY DEF KnownInv, KnownTyped, WriteTemp, KillPin
<1>3. v \in PinType /\ v.at = to /\ v.existing = pins[p].existing /\ v.line = pins[p].line
  BY <1>2 DEF PinType, PinPlaces
<1>4. ~raced /\ to = "replace" => /\ LinesOf(v.existing) \subseteq LinesOf(known)
                                  /\ ~HasHost(v.existing, v.line)
  BY <1>1, <1>3 DEF KnownInv, ReadStays
<1> QED BY <1>1, <1>2, <1>3, <1>4, OneRun

\* The step the invariant is about: a run that did not race puts in the place
\* of the file that file and one line for a host it does not name.
LEMMA ReplaceKeeps ==
  ASSUME KnownInv, NEW p \in Pinners, Replace(p)
  PROVE  KnownInv'
<1> DEFINE v == [pins[p] EXCEPT !.at = "pinned"]
           old == LinesOf(pins[p].existing)
           line == pins[p].line
<1>1. pins[p] \in PinType /\ line \in Lines /\ pins[p].at = "replace"
  BY DEF KnownInv, KnownTyped, Replace
<1>2. v \in PinType /\ v.at = "pinned" /\ v.line = line
  BY <1>1 DEF PinType, PinPlaces
<1>3. /\ pins' \in [Pinners -> PinType]
      /\ \A q \in Pinners : pins'[q] = IF q = p THEN v ELSE pins[q]
  BY <1>2 DEF Replace, SetPin, KnownInv, KnownTyped
<1>4. old \subseteq Lines
  BY <1>1, FileLines DEF PinType
<1>5. known' = old \cup {line} /\ known' \in SUBSET Lines /\ LinesOf(known') = known'
  BY <1>1, <1>4, KnownAssumption DEF Replace, LinesOf
<1>6. raced' \in BOOLEAN
  BY DEF Replace, KnownInv, KnownTyped
<1>7. KnownTyped'
  BY <1>1, <1>2, <1>3, <1>5, <1>6 DEF KnownInv, KnownTyped
<1>8. ASSUME ~raced' PROVE PinsKept' /\ ReadStays'
  <2>1. ~raced /\ known = pins[p].existing
    BY <1>8 DEF Replace
  <2>2. LinesOf(known)' = LinesOf(known) \cup {line}
    BY <1>5, <2>1 DEF LinesOf
  <2>3. \A l \in LinesOf(known) : l.host # line.host
    BY <1>1, <2>1 DEF KnownInv, ReadStays, HasHost
  <2>4. PinsKept'
    BY <1>2, <1>3, <2>1, <2>2, <2>3 DEF KnownInv, PinsKept
  <2>5. ReadStays'
    <3> SUFFICES ASSUME NEW q \in Pinners
                 PROVE  /\ pins'[q].at \in {"look", "write", "replace"} =>
                             LinesOf(pins'[q].existing) \subseteq LinesOf(known)'
                        /\ pins'[q].at \in {"write", "replace"} =>
                             ~HasHost(pins'[q].existing, pins'[q].line)
      BY DEF ReadStays, LinesOf, HasHost
    <3> QED BY <1>2, <1>3, <2>1, <2>2 DEF KnownInv, ReadStays
  <2> QED BY <2>4, <2>5
<1>9. raced' => PinsKept'
  BY DEF PinsKept
<1> QED BY <1>7, <1>8, <1>9 DEF KnownInv

\* Every step keeps the invariant.
LEMMA KnownNextKeeps == KnownInv /\ [KnownNext]_knownVars => KnownInv'
<1> SUFFICES ASSUME KnownInv, [KnownNext]_knownVars PROVE KnownInv'
  OBVIOUS
<1>1. CASE UNCHANGED knownVars
  BY <1>1 DEF knownVars, KnownInv, KnownTyped, PinsKept, ReadStays, LinesOf, HasHost
<1> QED BY <1>1, DiscoverKeeps, ReadKeeps, LookKeeps, WriteKeeps, ReplaceKeeps DEF KnownNext

\* For every number of runs, hosts and keys, whichever runs are killed: as
\* long as no run replaced a file other than the one it had read, a host has
\* one key and a key reported as pinned is in the file
\* (ssh_known_hosts.py:109-147, pin_ssh_host.py:38-47).
THEOREM PinsAlwaysKept == KnownSpec => []PinsKept
<1>1. KnownInv => PinsKept
  BY DEF KnownInv
<1> QED BY <1>1, KnownInitHolds, KnownNextKeeps, PTL DEF KnownSpec

-----------------------------------------------------------------------------
(***************************************************************************)
(* Probes and their cache (Probes).  An entry, a probe under way and an    *)
(* answer are each as old as their reading allows; time makes all three    *)
(* older in the same step.                                                 *)
(***************************************************************************)

ProbePlaces == {"idle", "probe", "store", "answered", "failed"}
Whats == {"none", "words", "data", "restricted", "fail"}

ProbeType == [at : ProbePlaces, src : Nat, lasted : Nat, read : Nat, what : Whats]
EntryType == [some : BOOLEAN, age : Nat, read : Nat, what : Whats]

\* What may be answered for the key.
Good(what) ==
  /\ what # "fail"
  /\ kind = "gpio" => what = "data"
  /\ kind \in {"usb", "dmesg"} => what # "none"

ProbesTyped == kind \in ProbeKinds /\ entry \in EntryType /\ probes \in [Probers -> ProbeType]

\* A probe holds what is at most as old as the probe itself, in the chain of
\* its kind.
ProbeOK(b) ==
  /\ b.src \in 1..Links /\ b.lasted <= MaxProbe
  /\ b.at = "store" => b.read <= b.lasted /\ Good(b.what)
  /\ b.at = "answered" => b.read < TTL + MaxProbe /\ Good(b.what)

\* An entry was at most MaxProbe old when it was stored.
EntryOK ==
  /\ entry.read <= TTL + MaxProbe + 1
  /\ entry.some => entry.read <= entry.age + MaxProbe /\ Good(entry.what)

ProbesInv == ProbesTyped /\ EntryOK /\ \A p \in Probers : ProbeOK(probes[p])

-----------------------------------------------------------------------------
\* The last link of a chain gives data or fails.
LEMMA ReadingOK ==
  ASSUME kind \in ProbeKinds, NEW i \in 1..Links, NEW r \in Results
  PROVE  Reading(i, r) \in Whats /\ (Reading(i, r) # "fail" => Good(Reading(i, r)))
<1> USE DEF Good, Reading, Whats
<1>1. r.out \in {"none", "words", "data"}
  <2>1. CASE r = Raised
    BY <2>1 DEF Raised
  <2>2. CASE r \in [raised : {FALSE}, ok : BOOLEAN, out : {"none", "words", "data"}]
    BY <2>2
  <2> QED BY <2>1, <2>2, Zenon DEF Results
<1>2. CASE kind = "video"
  BY <1>1, <1>2 DEF Video
<1>3. CASE kind = "usb"
  BY <1>1, <1>3 DEF Usb
<1>4. CASE kind = "dmesg"
  BY <1>1, <1>4 DEF DmesgRaw
<1>5. CASE kind = "i2c"
  BY <1>1, <1>5 DEF I2c
<1>6. CASE kind = "gpio"
  <2>1. Links = 3
    BY <1>6 DEF Links
  <2>2. i = 1 \/ i = 2 \/ i = 3
    BY <2>1
  <2>3. GpioChain(i, r) \in {"fail", "data"}
    BY <2>2 DEF GpioChain, GpioGpioinfo, GpioDebugfs, GpioSysfs
  <2> QED BY <1>6, <2>3
<1>7. CASE kind = "clk"
  BY <1>1, <1>7 DEF Clk
<1>8. CASE kind = "dma"
  BY <1>1, <1>8 DEF Dma
<1> QED BY <1>2, <1>3, <1>4, <1>5, <1>6, <1>7, <1>8 DEF ProbeKinds

\* A probe tries up to three commands; the kind of probe does not change.
LEMMA LinksOK == Links \in {1, 2, 3} /\ (UNCHANGED kind => Links' = Links)
  BY DEF Links

\* No entry and no request: the invariant holds.
LEMMA ProbesInitOK == ProbesInit => ProbesInv
<1> SUFFICES ASSUME ProbesInit PROVE ProbesInv
  OBVIOUS
<1>1. NewProbe \in ProbeType
  BY DEF NewProbe, ProbeType, ProbePlaces, Whats
<1>2. NoEntry \in EntryType
  BY DEF NoEntry, EntryType, Whats
<1>3. ProbeOK(NewProbe)
  BY LinksOK, ProbesAssumption DEF ProbeOK, NewProbe
<1>4. EntryOK
  BY ProbesAssumption DEF EntryOK, NoEntry, ProbesInit
<1> QED BY <1>1, <1>2, <1>3, <1>4 DEF ProbesInit, ProbesInv, ProbesTyped

\* What is left to show for a step of request p.
LEMMA ProbesStep ==
  ASSUME ProbesInv, NEW p \in Probers, NEW b \in ProbeType, SetProbe(p, b), kind' = kind, ProbeOK(b),
         entry' \in EntryType, EntryOK'
  PROVE  ProbesInv'
<1>1. ASSUME NEW c, ProbeOK(c) PROVE ProbeOK(c)'
  BY <1>1, LinksOK DEF ProbeOK, Good
<1>2. ProbesTyped'
  BY DEF ProbesInv, ProbesTyped, SetProbe
<1>3. probes'[p] = b /\ \A q \in Probers \ {p} : probes'[q] = probes[q]
  BY DEF ProbesInv, ProbesTyped, SetProbe
<1>4. ASSUME NEW q \in Probers PROVE ProbeOK(probes[q])'
  <2>1. CASE q = p
    BY <1>1, <1>3, <2>1
  <2>2. CASE q # p
    <3>1. ProbeOK(probes[q]) /\ probes'[q] = probes[q]
      BY <1>3, <2>2 DEF ProbesInv
    <3> QED BY <1>1, <3>1 DEF ProbeOK, Good
  <2> QED BY <2>1, <2>2
<1> QED BY <1>2, <1>4 DEF ProbesInv

\* A request finds an entry that is young enough, or starts to probe.
LEMMA ProbesLook ==
  ASSUME ProbesInv, NEW p \in Probers, Look(p)
  PROVE  ProbesInv'
<1> USE DEF ProbeType, ProbePlaces, Whats
<1>1. entry' \in EntryType /\ EntryOK' /\ kind' = kind
  BY DEF Look, ProbesInv, ProbesTyped, EntryOK, Good
<1>2. CASE kind # "dmesg" /\ Hit(entry)
  <2> DEFINE b == [NewProbe EXCEPT !.at = "answered", !.read = entry.read, !.what = entry.what]
  <2>1. SetProbe(p, b)
    BY <1>2, Zenon DEF Look
  <2>2. entry.some /\ entry.age < TTL /\ entry.age \in Nat /\ entry.read \in Nat /\ entry.what \in Whats
    BY <1>2 DEF Hit, ProbesInv, ProbesTyped, EntryType
  <2>3. b \in ProbeType
    BY <2>2 DEF NewProbe
  <2>4. ProbeOK(b)
    <3>1. entry.read <= entry.age + MaxProbe /\ Good(entry.what)
      BY <2>2 DEF ProbesInv, EntryOK
    <3>2. b.read < TTL + MaxProbe
      BY <2>2, <3>1, ProbesAssumption DEF NewProbe
    <3>3. /\ b.src = 1 /\ b.lasted = 0 /\ b.at = "answered" /\ b.what = entry.what
      BY DEF NewProbe
    <3> HIDE DEF b
    <3> QED BY <3>1, <3>2, <3>3, LinksOK, ProbesAssumption DEF ProbeOK
  <2> HIDE DEF b
  <2> QED BY <1>1, <2>1, <2>3, <2>4, ProbesStep
<1>3. CASE ~(kind # "dmesg" /\ Hit(entry))
  <2> DEFINE b == [NewProbe EXCEPT !.at = "probe"]
  <2>1. SetProbe(p, b)
    BY <1>3, Zenon DEF Look
  <2>2. b \in ProbeType /\ ProbeOK(b)
    BY LinksOK, ProbesAssumption DEF NewProbe, ProbeOK
  <2> HIDE DEF b
  <2> QED BY <1>1, <2>1, <2>2, ProbesStep
<1> QED BY <1>2, <1>3

\* The board answers the probe: what it read is as old as the probe is long.
LEMMA ProbesRun ==
  ASSUME ProbesInv, NEW p \in Probers, Run(p)
  PROVE  ProbesInv'
<1> USE DEF ProbeType, ProbePlaces, Whats
<1>1. entry' \in EntryType /\ EntryOK' /\ kind' = kind /\ probes[p].at = "probe"
  BY DEF Run, ProbesInv, ProbesTyped, EntryOK, Good
<1>2. PICK r \in Results : LET what == Reading(probes[p].src, r) IN
       SetProbe(p, [probes[p] EXCEPT
         !.src = IF what = "fail" /\ @ < Links THEN @ + 1 ELSE @,
         !.at = IF what # "fail" THEN "store" ELSE IF probes[p].src < Links THEN @ ELSE "failed",
         !.read = probes[p].lasted, !.what = what])
  BY Zenon DEF Run
<1> DEFINE what == Reading(probes[p].src, r)
           src == IF what = "fail" /\ probes[p].src < Links THEN probes[p].src + 1 ELSE probes[p].src
           where == IF what # "fail" THEN "store" ELSE IF probes[p].src < Links THEN probes[p].at ELSE "failed"
           b == [probes[p] EXCEPT !.src = src, !.at = where, !.read = probes[p].lasted, !.what = what]
<1>3. probes[p] \in ProbeType /\ ProbeOK(probes[p]) /\ kind \in ProbeKinds
  BY DEF ProbesInv, ProbesTyped
<1>4. what \in Whats /\ (what # "fail" => Good(what))
  BY <1>3, ReadingOK DEF ProbeOK
<1>5. SetProbe(p, b)
  BY <1>2, Zenon
<1> HIDE DEF what
<1>6. src \in 1..Links /\ src \in Nat
  BY <1>3, LinksOK DEF ProbeOK
<1>7. where \in {"store", "probe", "failed"} /\ (where = "store" => what # "fail")
  BY <1>1
<1> HIDE DEF src, where
<1>8. b \in ProbeType
  BY <1>3, <1>4, <1>6, <1>7
<1>9. b.src = src /\ b.at = where /\ b.read = b.lasted /\ b.lasted = probes[p].lasted /\ b.what = what
  BY <1>3
<1> HIDE DEF b
<1>10. ProbeOK(b)
  BY <1>3, <1>4, <1>6, <1>7, <1>8, <1>9 DEF ProbeOK
<1> QED BY <1>1, <1>5, <1>8, <1>10, ProbesStep

\* The entry is replaced, be it by the older of two readings.
LEMMA ProbesStore ==
  ASSUME ProbesInv, NEW p \in Probers, Store(p)
  PROVE  ProbesInv'
<1> USE DEF ProbeType, ProbePlaces, Whats
<1> DEFINE b == [probes[p] EXCEPT !.at = "answered"]
<1>1. probes[p] \in ProbeType /\ ProbeOK(probes[p]) /\ probes[p].at = "store" /\ kind' = kind
  BY DEF ProbesInv, ProbesTyped, Store
<1>2. SetProbe(p, b)
  BY Zenon DEF Store
<1>3. probes[p].read <= MaxProbe /\ Good(probes[p].what)
  BY <1>1, ProbesAssumption DEF ProbeOK
<1>4. b \in ProbeType /\ ProbeOK(b)
  BY <1>1, <1>3, ProbesAssumption DEF ProbeOK
<1>5. entry' \in EntryType /\ EntryOK'
  <2>1. CASE kind = "dmesg"
    <3>1. entry' = entry
      BY <2>1 DEF Store
    <3> QED BY <1>1, <3>1 DEF ProbesInv, ProbesTyped, EntryOK, Good
  <2>2. CASE kind # "dmesg"
    <3> DEFINE e == [some |-> TRUE, age |-> 0, read |-> probes[p].read, what |-> probes[p].what]
    <3>1. entry' = e
      BY <2>2, Zenon DEF Store
    <3>2. e \in EntryType
      BY <1>1 DEF EntryType
    <3>3. e.read <= TTL + MaxProbe + 1 /\ e.read <= e.age + MaxProbe /\ e.what = probes[p].what
      BY <1>1, <1>3, ProbesAssumption
    <3> HIDE DEF e
    <3> QED BY <1>1, <1>3, <3>1, <3>2, <3>3 DEF EntryOK, Good
  <2> QED BY <2>1, <2>2
<1> HIDE DEF b
<1> QED BY <1>1, <1>2, <1>4, <1>5, ProbesStep

\* Time passes: entries age, and probes and answers last.
LEMMA ProbesTick ==
  ASSUME ProbesInv, Tick
  PROVE  ProbesInv'
<1> USE DEF ProbeType, ProbePlaces, Whats
<1>1. kind' = kind
  BY DEF Tick
<1>2. ASSUME NEW p \in Probers PROVE probes'[p] \in ProbeType /\ ProbeOK(probes[p])'
  <2> DEFINE b == probes[p]
             c == [b EXCEPT !.lasted = @ + 1, !.read = IF b.at = "store" THEN @ + 1 ELSE @]
  <2>1. b \in ProbeType /\ ProbeOK(b)
    BY DEF ProbesInv, ProbesTyped
  <2>2. CASE b.at \in Under
    <3>1. probes'[p] = c
      BY <2>2 DEF Tick
    <3>2. b.lasted < MaxProbe
      BY <2>2 DEF Tick
    <3> HIDE DEF b
    <3>3. c \in ProbeType
      <4> DEFINE t == b.lasted + 1
                 r == IF b.at = "store" THEN b.read + 1 ELSE b.read
      <4>1. t \in Nat /\ r \in Nat
        BY <2>1
      <4>2. c = [b EXCEPT !.lasted = t, !.read = r]
        BY Zenon
      <4> HIDE DEF t, r, c
      <4> QED BY <2>1, <4>1, <4>2
    <3>4. /\ c.src = b.src /\ c.at = b.at /\ c.what = b.what /\ c.lasted = b.lasted + 1
          /\ c.at = "store" => c.read = b.read + 1
      BY <2>1
    <3>5. c.at # "answered"
      BY <2>2, <3>4 DEF Under
    <3> HIDE DEF c
    <3>6. ProbeOK(c)
      BY <2>1, <3>2, <3>3, <3>4, <3>5, ProbesAssumption DEF ProbeOK
    <3> QED BY <1>1, <3>1, <3>3, <3>6, LinksOK DEF ProbeOK, Good
  <2>3. CASE b.at \notin Under
    <3>1. probes'[p] = b
      BY <2>3 DEF Tick
    <3> HIDE DEF b
    <3> QED BY <1>1, <2>1, <3>1, LinksOK DEF ProbeOK, Good
  <2> QED BY <2>2, <2>3
<1>3. probes' \in [Probers -> ProbeType]
  <2> DEFINE F(p) == LET b == probes[p] IN
                     IF b.at \in Under
                     THEN [b EXCEPT !.lasted = @ + 1, !.read = IF b.at = "store" THEN @ + 1 ELSE @]
                     ELSE b
  <2>1. probes' = [p \in Probers |-> F(p)]
    BY Zenon DEF Tick
  <2> HIDE DEF F
  <2>2. \A p \in Probers : F(p) \in ProbeType
    BY <1>2, <2>1
  <2> QED BY <2>1, <2>2
<1>4. entry' \in EntryType /\ EntryOK'
  <2>0. entry \in EntryType /\ EntryOK
    BY DEF ProbesInv, ProbesTyped
  <2>1. CASE entry.some
    <3> DEFINE e == [entry EXCEPT !.age = Older(@), !.read = Older(@)]
    <3>1. entry' = e
      BY <2>1, Zenon DEF Tick
    <3>2. entry.age \in Nat /\ entry.read \in Nat
      BY <2>0 DEF EntryType
    <3>3. Older(entry.age) \in Nat /\ Older(entry.read) \in Nat
      BY <3>2 DEF Older
    <3>4. /\ Older(entry.read) <= TTL + MaxProbe + 1
          /\ Older(entry.read) <= Older(entry.age) + MaxProbe
      BY <2>0, <2>1, <3>2, ProbesAssumption DEF Older, EntryOK
    <3>5. e \in EntryType /\ e.read = Older(entry.read) /\ e.age = Older(entry.age) /\ e.what = entry.what
      BY <2>0, <3>3 DEF EntryType
    <3> HIDE DEF e
    <3> QED BY <1>1, <2>0, <2>1, <3>1, <3>4, <3>5 DEF EntryOK, Good
  <2>2. CASE ~entry.some
    <3>1. entry' = entry
      BY <2>2 DEF Tick
    <3> QED BY <1>1, <2>0, <3>1 DEF EntryOK, Good
  <2> QED BY <2>1, <2>2
<1> QED BY <1>1, <1>2, <1>3, <1>4 DEF ProbesInv, ProbesTyped

\* Every step keeps the invariant.
LEMMA ProbesNextKeeps == ProbesInv /\ [ProbesNext]_probeVars => ProbesInv'
<1> SUFFICES ASSUME ProbesInv, [ProbesNext]_probeVars PROVE ProbesInv'
  OBVIOUS
<1>1. CASE UNCHANGED probeVars
  <2>1. kind' = kind /\ entry' = entry /\ probes' = probes
    BY <1>1 DEF probeVars
  <2> QED BY <2>1, LinksOK DEF ProbesInv, ProbesTyped, EntryOK, ProbeOK, Good
<1>2. ASSUME NEW p \in Probers, Look(p) \/ Run(p) \/ Store(p) PROVE ProbesInv'
  BY <1>2, ProbesLook, ProbesRun, ProbesStore
<1>3. CASE Tick
  BY <1>3, ProbesTick
<1> QED BY <1>1, <1>2, <1>3 DEF ProbesNext

\* For any life of an entry, any length of a probe and any number of requests:
\* an answer was read no longer ago than both together, in whichever order the
\* probes store; the fallbacks end in data, and a failure is never cached
\* (diag.py:17-26, 131-151, 207-228, peripherals.py:23-32, 165-310).
THEOREM ProbesAlwaysFresh == ProbesSpec => []ProbesFresh
<1>1. ProbesInv => ProbesFresh
  BY DEF ProbesInv, ProbeOK, Good, ProbesFresh
<1> QED BY <1>1, ProbesInitOK, ProbesNextKeeps, PTL DEF ProbesSpec

-----------------------------------------------------------------------------
(***************************************************************************)
(* Deployments (DeployJobs).  Where a run is decides how far its stages    *)
(* are, what has been decided about them, what its transfer may be and     *)
(* what is published about the run; a run that is published as running is  *)
(* the one the plan refers to.                                             *)
(***************************************************************************)

WorkPlaces == {"upload", "submitted", "published", "polling", "judging", "acting"}
StateFor(v) == CASE v = "cancelled" -> "cancelled" [] v = "failed" -> "error" [] OTHER -> "done"

\* How far the stages of a run are.
StagesOK(r) ==
  /\ place[r] \notin {"popping", "ended"} =>
       \A i \in DOMAIN Stages :
         /\ i < index[r] => stages[r][i] \in {"done", "skipped", "failed"}
         /\ i = index[r] => stages[r][i] = IF place[r] \in WorkPlaces THEN "running" ELSE "pending"
         /\ i > index[r] => stages[r][i] = "pending"
  /\ place[r] \in WorkPlaces => index[r] <= Len(Stages)
  /\ place[r] \in {"finishing", "settling"} /\ verdict[r] = "ok" => index[r] = Len(Stages) + 1
  /\ place[r] \in {"popping", "ended"} =>
       \A i \in DOMAIN Stages : stages[r][i] \notin {"pending", "running"}
  /\ place[r] \in {"new", "starting", "aborting"} => index[r] = 1

\* What the stages say about the verdict.
VerdictOK(r) ==
  /\ place[r] \in {"new", "starting"} \cup WorkPlaces => verdict[r] = "ok"
  /\ place[r] = "between" => verdict[r] # "failed"
  /\ place[r] = "aborting" => verdict[r] = "failed"
  /\ place[r] = "between" /\ verdict[r] = "cancelled" => r \in flagged
  /\ verdict[r] = "ok" => \A i \in DOMAIN Stages : stages[r][i] # "failed"
  /\ verdict[r] = "failed" /\ place[r] # "aborting" => \E i \in DOMAIN Stages : stages[r][i] = "failed"

StateOK(r) ==
  /\ place[r] = "new" => state[r] = "none"
  /\ place[r] \in Working <=> state[r] = "running"
  /\ place[r] \in Over => state[r] = StateFor(verdict[r])

TransferOK(r) ==
  verdict[r] = "ok" /\ place[r] \notin {"submitted", "published", "polling", "judging"}
    => transfer[r] \in {"none", "done"}

\* A plan that is running is in _jobs.
RunningIsJob == \A r \in Runs : state[r] = "running" => job = r

DeployInv ==
  /\ DeployTypeOK
  /\ RunningIsJob
  /\ \A r \in Runs : StagesOK(r) /\ VerdictOK(r) /\ StateOK(r) /\ TransferOK(r)

-----------------------------------------------------------------------------
\* A plan has a stage.
LEMMA StagesFact == Len(Stages) \in Nat /\ Len(Stages) >= 1 /\ DOMAIN Stages = 1..Len(Stages)
  BY DeployAssumption

\* What the invariant says about a run.
LEMMA DeployImplies == DeployInv => RunsConsistent
<1> SUFFICES ASSUME DeployInv PROVE RunsConsistent
  OBVIOUS
<1>1. OneRunAtATime
  BY DEF DeployInv, RunningIsJob, StateOK, OneRunAtATime
<1>2. OutcomeMatchesStages
  <2> SUFFICES ASSUME NEW r \in Runs, place[r] \in {"popping", "ended"}
               PROVE  /\ \A i \in DOMAIN Stages : stages[r][i] \notin {"pending", "running"}
                      /\ state[r] = "done" => \A i \in DOMAIN Stages : stages[r][i] # "failed"
                      /\ state[r] = "error" => \E i \in DOMAIN Stages : stages[r][i] = "failed"
    BY DEF OutcomeMatchesStages
  <2>1. StagesOK(r) /\ VerdictOK(r) /\ state[r] = StateFor(verdict[r])
        /\ verdict[r] \in {"ok", "failed", "cancelled"}
    BY DEF DeployInv, StateOK, Over, DeployTypeOK
  <2> QED BY <2>1 DEF StagesOK, VerdictOK, StateFor
<1>3. DoneMeansUploaded
  <2> SUFFICES ASSUME NEW r \in Runs, state[r] = "done", transfer[r] # "none" PROVE transfer[r] = "done"
    BY DEF DoneMeansUploaded
  <2>1. place[r] \in RunPlaces /\ verdict[r] \in {"ok", "failed", "cancelled"} /\ StateOK(r) /\ TransferOK(r)
    BY DEF DeployInv, DeployTypeOK
  <2>2. place[r] \in Over
    BY <2>1 DEF StateOK, Working, Over, RunPlaces
  <2>3. verdict[r] = "ok"
    BY <2>1, <2>2 DEF StateOK, StateFor
  <2> QED BY <2>1, <2>2, <2>3 DEF TransferOK, Over
<1> QED BY <1>1, <1>2, <1>3 DEF RunsConsistent, DeployInv

\* Nothing runs.
LEMMA DeployInitOK == DeployInit => DeployInv
<1> SUFFICES ASSUME DeployInit PROVE DeployInv
  OBVIOUS
<1> USE StagesFact
<1>1. DeployTypeOK
  BY DEF DeployInit, DeployTypeOK, States, StageStates, RunPlaces
<1>2. RunningIsJob
  BY DEF DeployInit, RunningIsJob
<1>3. ASSUME NEW r \in Runs PROVE StagesOK(r) /\ VerdictOK(r) /\ StateOK(r) /\ TransferOK(r)
  <2>1. StagesOK(r)
    BY DEF DeployInit, StagesOK, WorkPlaces
  <2>2. VerdictOK(r)
    BY DEF DeployInit, VerdictOK
  <2>3. StateOK(r) /\ TransferOK(r)
    BY DEF DeployInit, StateOK, TransferOK, Working, Over
  <2> QED BY <2>1, <2>2, <2>3
<1> QED BY <1>1, <1>2, <1>3 DEF DeployInv

\* What is left to show for a step of run r; the flags of the other runs stay.
LEMMA DeployStep ==
  ASSUME DeployInv, NEW r \in Runs, DeployTypeOK', RunningIsJob',
         \A q \in Runs \ {r} : /\ state'[q] = state[q] /\ stages'[q] = stages[q]
                               /\ place'[q] = place[q] /\ index'[q] = index[q]
                               /\ verdict'[q] = verdict[q] /\ transfer'[q] = transfer[q],
         flagged \subseteq flagged' \cup {r},
         StagesOK(r)', VerdictOK(r)', StateOK(r)', TransferOK(r)'
  PROVE  DeployInv'
<1>1. ASSUME NEW q \in Runs PROVE (StagesOK(q) /\ VerdictOK(q) /\ StateOK(q) /\ TransferOK(q))'
  <2>1. CASE q = r
    BY <2>1
  <2>2. CASE q # r
    <3>1. StagesOK(q) /\ VerdictOK(q) /\ StateOK(q) /\ TransferOK(q)
      BY DEF DeployInv
    <3>2. /\ state'[q] = state[q] /\ stages'[q] = stages[q] /\ place'[q] = place[q]
          /\ index'[q] = index[q] /\ verdict'[q] = verdict[q] /\ transfer'[q] = transfer[q]
      BY <2>2
    <3>3. StagesOK(q)'
      BY <3>1, <3>2 DEF StagesOK
    <3>4. VerdictOK(q)'
      BY <2>2, <3>1, <3>2 DEF VerdictOK
    <3>5. StateOK(q)' /\ TransferOK(q)'
      BY <3>1, <3>2 DEF StateOK, TransferOK
    <3> QED BY <3>3, <3>4, <3>5
  <2> QED BY <2>1, <2>2
<1> QED BY <1>1 DEF DeployInv
\* The parts of the invariant for one run.
LEMMA DeployOne ==
  ASSUME DeployInv, NEW r \in Runs
  PROVE  /\ StagesOK(r) /\ VerdictOK(r) /\ StateOK(r) /\ TransferOK(r)
         /\ state[r] \in States /\ place[r] \in RunPlaces /\ index[r] \in 1 .. Len(Stages) + 1
         /\ verdict[r] \in {"ok", "failed", "cancelled"} /\ stages[r] \in [DOMAIN Stages -> StageStates]
         /\ transfer[r] \in {"none", "running", "done", "error", "cancelled"}
  BY DEF DeployInv, DeployTypeOK

\* start keeps the invariant.
LEMMA DeployStart ==
  ASSUME DeployInv, NEW r \in Runs, Start(r)
  PROVE  DeployInv'
<1> USE StagesFact DEF WorkPlaces, Working, Over, RunPlaces
<1>0. /\ place[r] = "new"
      /\ place'[r] = "starting"
      /\ stages'[r] = stages[r] /\ index'[r] = index[r] /\ verdict'[r] = verdict[r] /\ state'[r] = "running" /\ transfer'[r] = transfer[r]
      /\ r \in flagged' <=> r \in flagged
  BY DeployOne DEF DeployInv, DeployTypeOK, Start, MoveRun, transferVars, runVars
<1>1. DeployTypeOK'
  BY DEF DeployInv, DeployTypeOK, Start, MoveRun, transferVars, runVars, States, StageStates
<1>2. \A q \in Runs \ {r} : /\ state'[q] = state[q] /\ stages'[q] = stages[q]
                               /\ place'[q] = place[q] /\ index'[q] = index[q]
                               /\ verdict'[q] = verdict[q] /\ transfer'[q] = transfer[q]
  BY DEF DeployInv, DeployTypeOK, Start, MoveRun, transferVars, runVars
<1>3. RunningIsJob'
  <2>1. \A q \in Runs : state[q] # "running"
    BY DeployAssumption DEF DeployInv, RunningIsJob, Start
  <2>2. job' = r /\ \A q \in Runs \ {r} : state'[q] = state[q]
    BY <1>2 DEF Start
  <2> QED BY <2>1, <2>2 DEF RunningIsJob
<1>4. StagesOK(r)'
  BY <1>0, DeployOne DEF StagesOK
<1>5. VerdictOK(r)'
  BY <1>0, DeployOne DEF VerdictOK
<1>6. StateOK(r)'
  BY <1>0, DeployOne DEF StateOK, StateFor
<1>7. TransferOK(r)'
  BY <1>0, DeployOne DEF TransferOK, VerdictOK
<1>8. flagged \subseteq flagged' \cup {r}
  BY DEF Start, transferVars, runVars
<1> QED BY <1>1, <1>2, <1>3, <1>4, <1>5, <1>6, <1>7, <1>8, DeployStep

\* Removing the entry of _progs keeps the invariant.
LEMMA DeployPop ==
  ASSUME DeployInv, NEW r \in Runs, Pop(r)
  PROVE  DeployInv'
<1> USE StagesFact DEF WorkPlaces, Working, Over, RunPlaces
<1>0. /\ place[r] = "popping"
      /\ place'[r] = "ended"
      /\ stages'[r] = stages[r] /\ index'[r] = index[r] /\ verdict'[r] = verdict[r] /\ state'[r] = state[r] /\ transfer'[r] = transfer[r]
      /\ r \in flagged' <=> r \in flagged
  BY DeployOne DEF DeployInv, DeployTypeOK, Pop, MoveRun, transferVars, runVars
<1>1. DeployTypeOK'
  BY DEF DeployInv, DeployTypeOK, Pop, MoveRun, transferVars, runVars, States, StageStates
<1>2. \A q \in Runs \ {r} : /\ state'[q] = state[q] /\ stages'[q] = stages[q]
                               /\ place'[q] = place[q] /\ index'[q] = index[q]
                               /\ verdict'[q] = verdict[q] /\ transfer'[q] = transfer[q]
  BY DEF DeployInv, DeployTypeOK, Pop, MoveRun, transferVars, runVars
<1>3. RunningIsJob'
  BY DEF DeployInv, DeployTypeOK, RunningIsJob, StateOK, Pop, MoveRun, transferVars, runVars
<1>4. StagesOK(r)'
  BY <1>0, DeployOne DEF StagesOK
<1>5. VerdictOK(r)'
  BY <1>0, DeployOne DEF VerdictOK
<1>6. StateOK(r)'
  BY <1>0, DeployOne DEF StateOK, StateFor
<1>7. TransferOK(r)'
  BY <1>0, DeployOne DEF TransferOK, VerdictOK
<1>8. flagged \subseteq flagged' \cup {r}
  BY DEF Pop, transferVars, runVars
<1> QED BY <1>1, <1>2, <1>3, <1>4, <1>5, <1>6, <1>7, <1>8, DeployStep

\* The beginning of _run keeps the invariant.
LEMMA DeployBegin ==
  ASSUME DeployInv, NEW r \in Runs, BeginRun(r)
  PROVE  DeployInv'
<1> USE StagesFact DEF WorkPlaces, Working, Over, RunPlaces
<1>0. /\ place[r] = "starting"
      /\ place'[r] = "between"
      /\ stages'[r] = stages[r] /\ index'[r] = index[r] /\ verdict'[r] = verdict[r] /\ state'[r] = state[r] /\ transfer'[r] = transfer[r]
  BY DeployOne DEF DeployInv, DeployTypeOK, BeginRun, MoveRun, transferVars, runVars
<1>1. DeployTypeOK'
  BY DEF DeployInv, DeployTypeOK, BeginRun, MoveRun, transferVars, runVars, States, StageStates
<1>2. \A q \in Runs \ {r} : /\ state'[q] = state[q] /\ stages'[q] = stages[q]
                               /\ place'[q] = place[q] /\ index'[q] = index[q]
                               /\ verdict'[q] = verdict[q] /\ transfer'[q] = transfer[q]
  BY DEF DeployInv, DeployTypeOK, BeginRun, MoveRun, transferVars, runVars
<1>3. RunningIsJob'
  BY DEF DeployInv, DeployTypeOK, RunningIsJob, StateOK, BeginRun, MoveRun, transferVars, runVars
<1>4. StagesOK(r)'
  BY <1>0, DeployOne DEF StagesOK
<1>5. VerdictOK(r)'
  BY <1>0, DeployOne DEF VerdictOK
<1>6. StateOK(r)'
  BY <1>0, DeployOne DEF StateOK, StateFor
<1>7. TransferOK(r)'
  BY <1>0, DeployOne DEF TransferOK, VerdictOK
<1>8. flagged \subseteq flagged' \cup {r}
  BY DEF BeginRun, transferVars, runVars
<1> QED BY <1>1, <1>2, <1>3, <1>4, <1>5, <1>6, <1>7, <1>8, DeployStep

\* _abort keeps the invariant.
LEMMA DeployAbort ==
  ASSUME DeployInv, NEW r \in Runs, Abort(r)
  PROVE  DeployInv'
<1> USE StagesFact DEF WorkPlaces, Working, Over, RunPlaces
<1>0. /\ place[r] = "starting"
      /\ place'[r] = "aborting"
      /\ stages'[r] = stages[r] /\ index'[r] = index[r] /\ verdict'[r] = "failed"
      /\ state'[r] = "error" /\ transfer'[r] = transfer[r]
  BY DeployOne DEF DeployInv, DeployTypeOK, Abort, MoveRun, transferVars, runVars
<1>1. DeployTypeOK'
  BY DEF DeployInv, DeployTypeOK, Abort, MoveRun, transferVars, runVars, States, StageStates
<1>2. \A q \in Runs \ {r} : /\ state'[q] = state[q] /\ stages'[q] = stages[q]
                               /\ place'[q] = place[q] /\ index'[q] = index[q]
                               /\ verdict'[q] = verdict[q] /\ transfer'[q] = transfer[q]
  BY DEF DeployInv, DeployTypeOK, Abort, MoveRun, transferVars, runVars
<1>3. RunningIsJob'
  BY DEF DeployInv, DeployTypeOK, RunningIsJob, StateOK, Abort, MoveRun, transferVars, runVars
<1>4. StagesOK(r)'
  BY <1>0, DeployOne DEF StagesOK
<1>5. VerdictOK(r)'
  BY <1>0, DeployOne DEF VerdictOK
<1>6. StateOK(r)'
  BY <1>0, DeployOne DEF StateOK, StateFor
<1>7. TransferOK(r)'
  BY <1>0, DeployOne DEF TransferOK, VerdictOK
<1>8. flagged \subseteq flagged' \cup {r}
  BY DEF Abort, transferVars, runVars
<1> QED BY <1>1, <1>2, <1>3, <1>4, <1>5, <1>6, <1>7, <1>8, DeployStep

\* Publishing the transfer keeps the invariant.
LEMMA DeployPublish ==
  ASSUME DeployInv, NEW r \in Runs, Publish(r)
  PROVE  DeployInv'
<1> USE StagesFact DEF WorkPlaces, Working, Over, RunPlaces
<1>0. /\ place[r] = "submitted"
      /\ place'[r] = "published"
      /\ stages'[r] = stages[r] /\ index'[r] = index[r] /\ verdict'[r] = verdict[r] /\ state'[r] = state[r] /\ transfer'[r] = transfer[r]
      /\ r \in flagged' <=> r \in flagged
  BY DeployOne DEF DeployInv, DeployTypeOK, Publish, MoveRun, transferVars, runVars
<1>1. DeployTypeOK'
  BY DEF DeployInv, DeployTypeOK, Publish, MoveRun, transferVars, runVars, States, StageStates
<1>2. \A q \in Runs \ {r} : /\ state'[q] = state[q] /\ stages'[q] = stages[q]
                               /\ place'[q] = place[q] /\ index'[q] = index[q]
                               /\ verdict'[q] = verdict[q] /\ transfer'[q] = transfer[q]
  BY DEF DeployInv, DeployTypeOK, Publish, MoveRun, transferVars, runVars
<1>3. RunningIsJob'
  BY DEF DeployInv, DeployTypeOK, RunningIsJob, StateOK, Publish, MoveRun, transferVars, runVars
<1>4. StagesOK(r)'
  BY <1>0, DeployOne DEF StagesOK
<1>5. VerdictOK(r)'
  BY <1>0, DeployOne DEF VerdictOK
<1>6. StateOK(r)'
  BY <1>0, DeployOne DEF StateOK, StateFor
<1>7. TransferOK(r)'
  BY <1>0, DeployOne DEF TransferOK, VerdictOK
<1>8. flagged \subseteq flagged' \cup {r}
  BY DEF Publish, transferVars, runVars
<1> QED BY <1>1, <1>2, <1>3, <1>4, <1>5, <1>6, <1>7, <1>8, DeployStep

\* Catching up with an early cancel keeps the invariant.
LEMMA DeployLook ==
  ASSUME DeployInv, NEW r \in Runs, LookAgain(r)
  PROVE  DeployInv'
<1> USE StagesFact DEF WorkPlaces, Working, Over, RunPlaces
<1>0. /\ place[r] = "published"
      /\ place'[r] = "polling"
      /\ stages'[r] = stages[r] /\ index'[r] = index[r] /\ verdict'[r] = verdict[r] /\ state'[r] = state[r] /\ transfer'[r] = transfer[r]
      /\ r \in flagged' <=> r \in flagged
  BY DeployOne DEF DeployInv, DeployTypeOK, LookAgain, MoveRun, transferVars, runVars
<1>1. DeployTypeOK'
  BY DEF DeployInv, DeployTypeOK, LookAgain, MoveRun, transferVars, runVars, States, StageStates
<1>2. \A q \in Runs \ {r} : /\ state'[q] = state[q] /\ stages'[q] = stages[q]
                               /\ place'[q] = place[q] /\ index'[q] = index[q]
                               /\ verdict'[q] = verdict[q] /\ transfer'[q] = transfer[q]
  BY DEF DeployInv, DeployTypeOK, LookAgain, MoveRun, transferVars, runVars
<1>3. RunningIsJob'
  BY DEF DeployInv, DeployTypeOK, RunningIsJob, StateOK, LookAgain, MoveRun, transferVars, runVars
<1>4. StagesOK(r)'
  BY <1>0, DeployOne DEF StagesOK
<1>5. VerdictOK(r)'
  BY <1>0, DeployOne DEF VerdictOK
<1>6. StateOK(r)'
  BY <1>0, DeployOne DEF StateOK, StateFor
<1>7. TransferOK(r)'
  BY <1>0, DeployOne DEF TransferOK, VerdictOK
<1>8. flagged \subseteq flagged' \cup {r}
  BY DEF LookAgain, transferVars, runVars
<1> QED BY <1>1, <1>2, <1>3, <1>4, <1>5, <1>6, <1>7, <1>8, DeployStep

\* The end of polling keeps the invariant.
LEMMA DeployStopPolling ==
  ASSUME DeployInv, NEW r \in Runs, StopPolling(r)
  PROVE  DeployInv'
<1> USE StagesFact DEF WorkPlaces, Working, Over, RunPlaces
<1>0. /\ place[r] = "polling"
      /\ place'[r] = "judging"
      /\ stages'[r] = stages[r] /\ index'[r] = index[r] /\ verdict'[r] = verdict[r] /\ state'[r] = state[r] /\ transfer'[r] = transfer[r]
      /\ r \in flagged' <=> r \in flagged
  BY DeployOne DEF DeployInv, DeployTypeOK, StopPolling, MoveRun, transferVars, runVars
<1>1. DeployTypeOK'
  BY DEF DeployInv, DeployTypeOK, StopPolling, MoveRun, transferVars, runVars, States, StageStates
<1>2. \A q \in Runs \ {r} : /\ state'[q] = state[q] /\ stages'[q] = stages[q]
                               /\ place'[q] = place[q] /\ index'[q] = index[q]
                               /\ verdict'[q] = verdict[q] /\ transfer'[q] = transfer[q]
  BY DEF DeployInv, DeployTypeOK, StopPolling, MoveRun, transferVars, runVars
<1>3. RunningIsJob'
  BY DEF DeployInv, DeployTypeOK, RunningIsJob, StateOK, StopPolling, MoveRun, transferVars, runVars
<1>4. StagesOK(r)'
  BY <1>0, DeployOne DEF StagesOK
<1>5. VerdictOK(r)'
  BY <1>0, DeployOne DEF VerdictOK
<1>6. StateOK(r)'
  BY <1>0, DeployOne DEF StateOK, StateFor
<1>7. TransferOK(r)'
  BY <1>0, DeployOne DEF TransferOK, VerdictOK
<1>8. flagged \subseteq flagged' \cup {r}
  BY DEF StopPolling, transferVars, runVars
<1> QED BY <1>1, <1>2, <1>3, <1>4, <1>5, <1>6, <1>7, <1>8, DeployStep

\* The end of a transfer keeps the invariant.
LEMMA DeployFileEnds ==
  ASSUME DeployInv, NEW r \in Runs, FileEnds(r)
  PROVE  DeployInv'
<1> USE StagesFact DEF WorkPlaces, Working, Over, RunPlaces
<1>0. /\ transfer[r] = "running"
      /\ place'[r] = place[r] /\ state'[r] = state[r]
      /\ stages'[r] = stages[r] /\ index'[r] = index[r] /\ verdict'[r] = verdict[r]
      /\ r \in flagged' <=> r \in flagged
  BY DeployOne DEF DeployInv, DeployTypeOK, FileEnds, MoveRun, transferVars, runVars
<1>1. DeployTypeOK'
  BY DEF DeployInv, DeployTypeOK, FileEnds, MoveRun, transferVars, runVars, States, StageStates
<1>2. \A q \in Runs \ {r} : /\ state'[q] = state[q] /\ stages'[q] = stages[q]
                               /\ place'[q] = place[q] /\ index'[q] = index[q]
                               /\ verdict'[q] = verdict[q] /\ transfer'[q] = transfer[q]
  BY DEF DeployInv, DeployTypeOK, FileEnds, MoveRun, transferVars, runVars
<1>3. RunningIsJob'
  BY DEF DeployInv, DeployTypeOK, RunningIsJob, StateOK, FileEnds, MoveRun, transferVars, runVars
<1>4. StagesOK(r)'
  BY <1>0, DeployOne DEF StagesOK
<1>5. VerdictOK(r)'
  BY <1>0, DeployOne DEF VerdictOK
<1>6. StateOK(r)'
  BY <1>0, DeployOne DEF StateOK, StateFor
<1>7. TransferOK(r)'
  BY <1>0, DeployOne DEF TransferOK, VerdictOK
<1>8. flagged \subseteq flagged' \cup {r}
  BY DEF FileEnds, transferVars, runVars
<1> QED BY <1>1, <1>2, <1>3, <1>4, <1>5, <1>6, <1>7, <1>8, DeployStep

\* A user who cancels the transfer itself keeps the invariant.
LEMMA DeployTransferCancelled ==
  ASSUME DeployInv, NEW r \in Runs, TransferCancelled(r)
  PROVE  DeployInv'
<1> USE StagesFact DEF WorkPlaces, Working, Over, RunPlaces
<1>0. /\ transfer[r] = "running"
      /\ place'[r] = place[r]
      /\ stages'[r] = stages[r] /\ index'[r] = index[r] /\ verdict'[r] = verdict[r] /\ state'[r] = state[r] /\ transfer'[r] = transfer[r]
      /\ r \in flagged' <=> r \in flagged
  BY DeployOne DEF DeployInv, DeployTypeOK, TransferCancelled, MoveRun, transferVars, runVars
<1>1. DeployTypeOK'
  BY DEF DeployInv, DeployTypeOK, TransferCancelled, MoveRun, transferVars, runVars, States, StageStates
<1>2. \A q \in Runs \ {r} : /\ state'[q] = state[q] /\ stages'[q] = stages[q]
                               /\ place'[q] = place[q] /\ index'[q] = index[q]
                               /\ verdict'[q] = verdict[q] /\ transfer'[q] = transfer[q]
  BY DEF DeployInv, DeployTypeOK, TransferCancelled, MoveRun, transferVars, runVars
<1>3. RunningIsJob'
  BY DEF DeployInv, DeployTypeOK, RunningIsJob, StateOK, TransferCancelled, MoveRun, transferVars, runVars
<1>4. StagesOK(r)'
  BY <1>0, DeployOne DEF StagesOK
<1>5. VerdictOK(r)'
  BY <1>0, DeployOne DEF VerdictOK
<1>6. StateOK(r)'
  BY <1>0, DeployOne DEF StateOK, StateFor
<1>7. TransferOK(r)'
  BY <1>0, DeployOne DEF TransferOK, VerdictOK
<1>8. flagged \subseteq flagged' \cup {r}
  BY DEF TransferCancelled, transferVars, runVars
<1> QED BY <1>1, <1>2, <1>3, <1>4, <1>5, <1>6, <1>7, <1>8, DeployStep

\* The second part of cancel keeps the invariant.
LEMMA DeployCancelTransfer ==
  ASSUME DeployInv, NEW r \in Runs, CancelTransfer(r)
  PROVE  DeployInv'
<1> USE StagesFact DEF WorkPlaces, Working, Over, RunPlaces
<1>0. /\ r \in cancels
      /\ place'[r] = place[r]
      /\ stages'[r] = stages[r] /\ index'[r] = index[r] /\ verdict'[r] = verdict[r] /\ state'[r] = state[r] /\ transfer'[r] = transfer[r]
      /\ r \in flagged' <=> r \in flagged
  BY DeployOne DEF DeployInv, DeployTypeOK, CancelTransfer, MoveRun, transferVars, runVars
<1>1. DeployTypeOK'
  BY DEF DeployInv, DeployTypeOK, CancelTransfer, MoveRun, transferVars, runVars, States, StageStates
<1>2. \A q \in Runs \ {r} : /\ state'[q] = state[q] /\ stages'[q] = stages[q]
                               /\ place'[q] = place[q] /\ index'[q] = index[q]
                               /\ verdict'[q] = verdict[q] /\ transfer'[q] = transfer[q]
  BY DEF DeployInv, DeployTypeOK, CancelTransfer, MoveRun, transferVars, runVars
<1>3. RunningIsJob'
  BY DEF DeployInv, DeployTypeOK, RunningIsJob, StateOK, CancelTransfer, MoveRun, transferVars, runVars
<1>4. StagesOK(r)'
  BY <1>0, DeployOne DEF StagesOK
<1>5. VerdictOK(r)'
  BY <1>0, DeployOne DEF VerdictOK
<1>6. StateOK(r)'
  BY <1>0, DeployOne DEF StateOK, StateFor
<1>7. TransferOK(r)'
  BY <1>0, DeployOne DEF TransferOK, VerdictOK
<1>8. flagged \subseteq flagged' \cup {r}
  BY DEF CancelTransfer, transferVars, runVars
<1> QED BY <1>1, <1>2, <1>3, <1>4, <1>5, <1>6, <1>7, <1>8, DeployStep

\* The state a run ends with keeps the invariant.
LEMMA DeployFinish ==
  ASSUME DeployInv, NEW r \in Runs, FinishRun(r)
  PROVE  DeployInv'
<1> USE StagesFact DEF WorkPlaces, Working, Over, RunPlaces
<1>0. /\ place[r] = "finishing"
      /\ place'[r] = "settling"
      /\ stages'[r] = stages[r] /\ index'[r] = index[r] /\ verdict'[r] = verdict[r] /\ transfer'[r] = transfer[r]
      /\ r \in flagged' <=> r \in flagged
  BY DeployOne DEF DeployInv, DeployTypeOK, FinishRun, MoveRun, transferVars, runVars
<1>1. DeployTypeOK'
  BY DEF DeployInv, DeployTypeOK, FinishRun, MoveRun, transferVars, runVars, States, StageStates
<1>2. \A q \in Runs \ {r} : /\ state'[q] = state[q] /\ stages'[q] = stages[q]
                               /\ place'[q] = place[q] /\ index'[q] = index[q]
                               /\ verdict'[q] = verdict[q] /\ transfer'[q] = transfer[q]
  BY DEF DeployInv, DeployTypeOK, FinishRun, MoveRun, transferVars, runVars
<1>3. RunningIsJob'
  BY DEF DeployInv, DeployTypeOK, RunningIsJob, StateOK, FinishRun, MoveRun, transferVars, runVars
<1>4. StagesOK(r)'
  BY <1>0, DeployOne DEF StagesOK
<1>5. VerdictOK(r)'
  BY <1>0, DeployOne DEF VerdictOK
<1>6. StateOK(r)'
  <2>1. state'[r] = StateFor(verdict[r])
    BY DEF FinishRun, StateFor, DeployInv, DeployTypeOK
  <2>2. StateFor(verdict[r]) # "running"
    BY DEF StateFor
  <2> QED BY <1>0, <2>1, <2>2 DEF StateOK
<1>7. TransferOK(r)'
  BY <1>0, DeployOne DEF TransferOK, VerdictOK
<1>8. flagged \subseteq flagged' \cup {r}
  BY DEF FinishRun, transferVars, runVars
<1> QED BY <1>1, <1>2, <1>3, <1>4, <1>5, <1>6, <1>7, <1>8, DeployStep

\* A stage is over.
LEMMA DeployEndStage ==
  ASSUME DeployInv, NEW r \in Runs, place[r] \in WorkPlaces, r \notin published,
         NEW res \in {"done", "skipped", "failed"}, NEW v \in {"ok", "failed", "cancelled"},
         v = "ok" => res # "failed" /\ transfer[r] \in {"none", "done"},
         v = "failed" => res = "failed",
         v = "cancelled" => r \in flagged,
         EndStage(r, res, v),
         UNCHANGED <<job, prog, state, flagged, published, transfer, stopped, cancels, answered>>
  PROVE  DeployInv'
<1> USE StagesFact DEF WorkPlaces, Working, Over, RunPlaces
<1> DEFINE p == IF v = "failed" THEN "finishing" ELSE "between"
<1>0. /\ index[r] \in DOMAIN Stages /\ index[r] \in Nat /\ state[r] = "running" /\ verdict[r] = "ok"
      /\ place'[r] = p /\ verdict'[r] = v /\ index'[r] = index[r] + 1
      /\ stages'[r] = [stages[r] EXCEPT ![index[r]] = res]
  <2>1. index[r] \in DOMAIN Stages /\ index[r] \in Nat
    BY DeployOne DEF StagesOK
  <2>2. state[r] = "running" /\ verdict[r] = "ok"
    BY DeployOne DEF StateOK, VerdictOK
  <2>3. place'[r] = p /\ verdict'[r] = v /\ index'[r] = index[r] + 1
    BY DEF EndStage, MoveRun, DeployInv, DeployTypeOK
  <2>4. stages'[r] = [stages[r] EXCEPT ![index[r]] = res]
    BY DEF EndStage, DeployInv, DeployTypeOK
  <2> QED BY <2>1, <2>2, <2>3, <2>4
<1>1. /\ stages'[r][index[r]] = res
      /\ \A i \in DOMAIN Stages \ {index[r]} : stages'[r][i] = stages[r][i]
      /\ stages'[r] \in [DOMAIN Stages -> StageStates]
  BY <1>0, DeployOne DEF StageStates
<1>2. \A q \in Runs \ {r} : /\ state'[q] = state[q] /\ stages'[q] = stages[q]
                            /\ place'[q] = place[q] /\ index'[q] = index[q]
                            /\ verdict'[q] = verdict[q] /\ transfer'[q] = transfer[q]
  BY DEF EndStage, MoveRun, DeployInv, DeployTypeOK
<1>3. DeployTypeOK'
  <2>1. stages' \in [Runs -> [DOMAIN Stages -> StageStates]]
    <3>1. \A q \in Runs : stages'[q] \in [DOMAIN Stages -> StageStates]
      BY <1>1, <1>2, DeployOne
    <3>2. DOMAIN stages' = Runs /\ stages' = [q \in Runs |-> stages'[q]]
      BY DEF EndStage, DeployInv, DeployTypeOK
    <3> QED BY <3>1, <3>2
  <2>2. place' \in [Runs -> RunPlaces] /\ index' \in [Runs -> 1 .. Len(Stages) + 1]
    BY <1>0 DEF EndStage, MoveRun, DeployInv, DeployTypeOK
  <2>3. verdict' \in [Runs -> {"ok", "failed", "cancelled"}]
    BY DEF EndStage, DeployInv, DeployTypeOK
  <2>4. \A q \in published : place'[q] \in {"published", "polling"}
    BY <1>2 DEF DeployInv, DeployTypeOK
  <2> QED BY <2>1, <2>2, <2>3, <2>4 DEF DeployInv, DeployTypeOK
<1>4. RunningIsJob'
  BY DEF DeployInv, RunningIsJob
<1>5. StagesOK(r)'
  <2>1. StagesOK(r)
    BY DeployOne
  <2>2. p \in {"finishing", "between"} /\ (p = "finishing" => v # "ok")
    OBVIOUS
  <2> HIDE DEF p
  <2> QED BY <1>0, <1>1, <2>1, <2>2 DEF StagesOK
<1>6. VerdictOK(r)'
  <2>1. VerdictOK(r)
    BY DeployOne
  <2>2. v = "ok" => \A i \in DOMAIN Stages : stages'[r][i] # "failed"
    BY <1>0, <1>1, <2>1 DEF VerdictOK
  <2>3. v = "failed" => \E i \in DOMAIN Stages : stages'[r][i] = "failed"
    BY <1>0, <1>1
  <2> QED BY <1>0, <2>2, <2>3 DEF VerdictOK
<1>7. StateOK(r)' /\ TransferOK(r)'
  BY <1>0, DeployOne DEF StateOK, TransferOK
<1> QED BY <1>2, <1>3, <1>4, <1>5, <1>6, <1>7, DeployStep

\* An exception in a stage keeps the invariant.
LEMMA DeployRaise ==
  ASSUME DeployInv, NEW r \in Runs, place[r] \in WorkPlaces, r \notin published, Raise(r),
         UNCHANGED <<job, prog, state, flagged, published, transfer, stopped, cancels, answered>>
  PROVE  DeployInv'
<1> DEFINE v == IF r \in flagged THEN "cancelled" ELSE "failed"
<1>1. EndStage(r, "failed", v)
  BY Zenon DEF Raise
<1>2. v \in {"failed", "cancelled"} /\ (v = "cancelled" => r \in flagged)
  OBVIOUS
<1> HIDE DEF v
<1> QED BY <1>1, <1>2, DeployEndStage

\* The verdict on a transfer keeps the invariant.
LEMMA DeployJudge ==
  ASSUME DeployInv, NEW r \in Runs, Judge(r)
  PROVE  DeployInv'
<1>1. place[r] = "judging" /\ place[r] \in WorkPlaces /\ r \notin published /\ verdict[r] = "ok"
  BY DeployOne DEF Judge, DeployInv, DeployTypeOK, WorkPlaces, VerdictOK
<1>2. CASE r \in flagged \/ transfer[r] # "done"
  BY <1>1, <1>2, DeployRaise DEF Judge, transferVars
<1>3. CASE ~(r \in flagged \/ transfer[r] # "done")
  <2>1. EndStage(r, "done", "ok")
    BY <1>1, <1>3 DEF Judge
  <2> QED BY <1>1, <1>3, <2>1, DeployEndStage DEF Judge, transferVars
<1> QED BY <1>2, <1>3

\* A stage other than an upload keeps the invariant.
LEMMA DeployAct ==
  ASSUME DeployInv, NEW r \in Runs, Act(r)
  PROVE  DeployInv'
<1>1. /\ place[r] = "acting" /\ place[r] \in WorkPlaces /\ r \notin published /\ verdict[r] = "ok"
      /\ transfer[r] \in {"none", "done"}
      /\ UNCHANGED <<job, prog, state, flagged, published, transfer, stopped, cancels, answered>>
  BY DeployOne DEF Act, DeployInv, DeployTypeOK, WorkPlaces, VerdictOK, TransferOK, transferVars
<1>2. CASE EndStage(r, "done", verdict[r])
  BY <1>1, <1>2, DeployEndStage
<1>3. CASE EndStage(r, "skipped", verdict[r])
  BY <1>1, <1>3, DeployEndStage
<1>4. CASE Raise(r)
  BY <1>1, <1>4, DeployRaise
<1>5. CASE EndStage(r, "failed", "failed")
  BY <1>1, <1>5, DeployEndStage
<1> QED BY <1>2, <1>3, <1>4, <1>5 DEF Act

\* Submitting a transfer keeps the invariant.
LEMMA DeploySubmit ==
  ASSUME DeployInv, NEW r \in Runs, Submit(r)
  PROVE  DeployInv'
<1> USE DEF WorkPlaces, Working, Over, RunPlaces
<1>0. place[r] = "upload" /\ place[r] \in WorkPlaces /\ r \notin published /\ verdict[r] = "ok"
  BY DeployOne DEF Submit, DeployInv, DeployTypeOK, VerdictOK
<1>1. CASE Raise(r) /\ UNCHANGED <<transfer, stopped>>
  BY <1>0, <1>1, DeployRaise DEF Submit
<1>2. CASE /\ transfer' = [transfer EXCEPT ![r] = "running"] /\ stopped' = stopped \ {r}
           /\ MoveRun(r, "submitted") /\ UNCHANGED <<stages, verdict, index>>
  <2>0. place'[r] = "submitted"
    BY <1>2 DEF MoveRun, DeployInv, DeployTypeOK
  <2>1. DeployTypeOK'
    BY <1>0, <1>2 DEF DeployInv, DeployTypeOK, MoveRun, Submit
  <2>2. \A q \in Runs \ {r} : /\ state'[q] = state[q] /\ stages'[q] = stages[q]
                              /\ place'[q] = place[q] /\ index'[q] = index[q]
                              /\ verdict'[q] = verdict[q] /\ transfer'[q] = transfer[q]
    BY <1>2 DEF DeployInv, DeployTypeOK, MoveRun, Submit
  <2>3. RunningIsJob'
    BY DEF DeployInv, RunningIsJob, Submit
  <2>4. StagesOK(r)'
    BY <1>0, <1>2, <2>0, DeployOne DEF StagesOK
  <2>5. VerdictOK(r)'
    BY <1>0, <1>2, <2>0, DeployOne DEF VerdictOK
  <2>6. StateOK(r)' /\ TransferOK(r)'
    BY <1>0, <1>2, <2>0, DeployOne DEF StateOK, TransferOK, Submit
  <2>7. flagged' = flagged
    BY DEF Submit
  <2> QED BY <2>1, <2>2, <2>3, <2>4, <2>5, <2>6, <2>7, DeployStep
<1> QED BY <1>1, <1>2 DEF Submit

\* The head of the loop over the stages keeps the invariant.
LEMMA DeployNextStage ==
  ASSUME DeployInv, NEW r \in Runs, NextStage(r)
  PROVE  DeployInv'
<1> USE StagesFact DEF WorkPlaces, Working, Over, RunPlaces
<1>0. /\ place[r] = "between" /\ r \notin published /\ index[r] \in Nat /\ state[r] = "running"
      /\ UNCHANGED <<job, prog, state, index, flagged, published, transfer, stopped, cancels, answered>>
  <2>1. place[r] = "between" /\ UNCHANGED <<job, prog, state, index, flagged, published, transfer, stopped, cancels, answered>>
    BY Zenon DEF NextStage, transferVars
  <2>2. r \notin published
    BY <2>1 DEF DeployInv, DeployTypeOK
  <2>3. index[r] \in Nat /\ state[r] = "running"
    BY <2>1, DeployOne DEF StateOK
  <2> QED BY <2>1, <2>2, <2>3
<1>1. RunningIsJob'
  BY <1>0 DEF DeployInv, RunningIsJob
<1>2. ASSUME NEW v \in {"ok", "failed", "cancelled"}, verdict' = [verdict EXCEPT ![r] = v],
             v = "ok" => index[r] = Len(Stages) + 1 /\ verdict[r] = "ok", v # "failed",
             MoveRun(r, "finishing"), UNCHANGED stages
      PROVE  DeployInv'
  <2>0. place'[r] = "finishing" /\ verdict'[r] = v
    BY <1>2 DEF MoveRun, DeployInv, DeployTypeOK
  <2>1. DeployTypeOK'
    BY <1>0, <1>2 DEF DeployInv, DeployTypeOK, MoveRun
  <2>2. \A q \in Runs \ {r} : /\ state'[q] = state[q] /\ stages'[q] = stages[q]
                              /\ place'[q] = place[q] /\ index'[q] = index[q]
                              /\ verdict'[q] = verdict[q] /\ transfer'[q] = transfer[q]
    BY <1>0, <1>2 DEF DeployInv, DeployTypeOK, MoveRun
  <2>3. StagesOK(r)'
    BY <1>0, <1>2, <2>0, DeployOne DEF StagesOK
  <2>4. VerdictOK(r)'
    BY <1>0, <1>2, <2>0, DeployOne DEF VerdictOK
  <2>5. StateOK(r)' /\ TransferOK(r)'
    BY <1>0, <1>2, <2>0, DeployOne DEF StateOK, TransferOK
  <2> QED BY <1>0, <1>1, <2>1, <2>2, <2>3, <2>4, <2>5, DeployStep
<1>3. CASE index[r] > Len(Stages)
  <2>1. verdict' = [verdict EXCEPT ![r] = verdict[r]] /\ MoveRun(r, "finishing") /\ UNCHANGED stages
    BY <1>3 DEF NextStage, DeployInv, DeployTypeOK
  <2>2. verdict[r] \in {"ok", "cancelled"} /\ index[r] = Len(Stages) + 1
    BY <1>0, <1>3, DeployOne DEF VerdictOK
  <2> QED BY <1>2, <2>1, <2>2
<1>4. CASE ~(index[r] > Len(Stages)) /\ r \in flagged
  <2>1. verdict' = [verdict EXCEPT ![r] = "cancelled"] /\ MoveRun(r, "finishing") /\ UNCHANGED stages
    BY <1>4 DEF NextStage
  <2> QED BY <1>2, <2>1
<1>5. CASE ~(index[r] > Len(Stages)) /\ r \notin flagged
  <2> DEFINE p == IF Stages[index[r]] = "upload" THEN "upload" ELSE "acting"
  <2>1. stages' = [stages EXCEPT ![r][index[r]] = "running"] /\ MoveRun(r, p) /\ UNCHANGED verdict
    BY <1>5 DEF NextStage
  <2>2. p \in {"upload", "acting"}
    OBVIOUS
  <2> HIDE DEF p
  <2>3. place'[r] = p /\ stages'[r] = [stages[r] EXCEPT ![index[r]] = "running"]
    BY <2>1 DEF MoveRun, DeployInv, DeployTypeOK
  <2>4. index[r] \in DOMAIN Stages
    BY <1>0, <1>5, DeployOne
  <2>5. /\ stages'[r][index[r]] = "running"
        /\ \A i \in DOMAIN Stages \ {index[r]} : stages'[r][i] = stages[r][i]
        /\ stages'[r] \in [DOMAIN Stages -> StageStates]
    BY <2>3, <2>4, DeployOne DEF StageStates
  <2>6. \A q \in Runs \ {r} : /\ state'[q] = state[q] /\ stages'[q] = stages[q]
                              /\ place'[q] = place[q] /\ index'[q] = index[q]
                              /\ verdict'[q] = verdict[q] /\ transfer'[q] = transfer[q]
    BY <1>0, <2>1 DEF DeployInv, DeployTypeOK, MoveRun
  <2>7. DeployTypeOK'
    <3>1. \A q \in Runs : stages'[q] \in [DOMAIN Stages -> StageStates]
      BY <2>5, <2>6, DeployOne
    <3>2. stages' = [q \in Runs |-> stages'[q]]
      BY <2>1 DEF DeployInv, DeployTypeOK
    <3>3. stages' \in [Runs -> [DOMAIN Stages -> StageStates]]
      BY <3>1, <3>2
    <3>4. place' \in [Runs -> RunPlaces] /\ \A q \in published : place'[q] \in {"published", "polling"}
      BY <1>0, <2>1, <2>2, <2>6 DEF MoveRun, DeployInv, DeployTypeOK
    <3> QED BY <1>0, <2>1, <3>3, <3>4 DEF DeployInv, DeployTypeOK
  <2>8. verdict[r] = "ok" /\ transfer[r] \in {"none", "done"}
    BY <1>0, <1>5, DeployOne DEF VerdictOK, TransferOK
  <2>9. StagesOK(r)'
    <3>1. StagesOK(r)
      BY DeployOne
    <3> QED BY <1>0, <1>5, <2>2, <2>3, <2>4, <2>5, <3>1 DEF StagesOK
  <2>10. VerdictOK(r)'
    <3>1. VerdictOK(r)
      BY DeployOne
    <3> QED BY <2>1, <2>2, <2>3, <2>5, <2>8, <3>1 DEF VerdictOK
  <2>11. StateOK(r)' /\ TransferOK(r)'
    BY <1>0, <2>1, <2>2, <2>3, <2>8 DEF StateOK, TransferOK
  <2> QED BY <1>0, <1>1, <2>6, <2>7, <2>9, <2>10, <2>11, DeployStep
<1> QED BY <1>3, <1>4, <1>5

\* Settling the stages that were not run keeps the invariant.
LEMMA DeploySettle ==
  ASSUME DeployInv, NEW r \in Runs, Settle(r)
  PROVE  DeployInv'
<1> USE StagesFact DEF WorkPlaces, Working, Over, RunPlaces
<1> DEFINE p == IF place[r] = "settling" THEN "popping" ELSE "ended"
           left == LeftOver(verdict[r])
           sg == [i \in DOMAIN Stages |-> IF stages[r][i] = "pending" THEN left ELSE stages[r][i]]
<1>0. /\ place[r] \in {"settling", "aborting"} /\ r \notin published /\ p \in {"popping", "ended"}
      /\ UNCHANGED <<job, prog, state, index, verdict, flagged, published, transfer, stopped, cancels, answered>>
  BY DEF Settle, DeployInv, DeployTypeOK, transferVars
<1>1. stages' = [stages EXCEPT ![r] = sg]
  BY DEF Settle
<1>2. left \in {"skipped", "failed"} /\ (verdict[r] # "cancelled" => left = "failed")
  BY DEF LeftOver
<1> HIDE DEF left
<1>3. sg \in [DOMAIN Stages -> StageStates]
  BY <1>2, DeployOne DEF StageStates
<1>4. \A i \in DOMAIN Stages : sg[i] = IF stages[r][i] = "pending" THEN left ELSE stages[r][i]
  OBVIOUS
<1> HIDE DEF sg
<1>5. MoveRun(r, p)
  BY DEF Settle
<1> HIDE DEF p
<1>6. place'[r] = p /\ stages'[r] = sg
  BY <1>1, <1>5 DEF MoveRun, DeployInv, DeployTypeOK
<1>7. \A q \in Runs \ {r} : /\ state'[q] = state[q] /\ stages'[q] = stages[q]
                            /\ place'[q] = place[q] /\ index'[q] = index[q]
                            /\ verdict'[q] = verdict[q] /\ transfer'[q] = transfer[q]
  BY <1>0, <1>1, <1>5 DEF DeployInv, DeployTypeOK, MoveRun
<1>8. DeployTypeOK'
  BY <1>0, <1>1, <1>3, <1>5 DEF DeployInv, DeployTypeOK, MoveRun
<1>9. RunningIsJob'
  BY <1>0 DEF DeployInv, RunningIsJob
<1>10. \A i \in DOMAIN Stages : stages[r][i] # "running"
  BY <1>0, DeployOne DEF StagesOK
<1>11. verdict[r] = "ok" => \A i \in DOMAIN Stages : stages[r][i] # "pending"
  BY <1>0, DeployOne DEF StagesOK, VerdictOK
<1>12. StagesOK(r)'
  BY <1>0, <1>2, <1>4, <1>6, <1>10 DEF StagesOK
<1>13. VerdictOK(r)'
  <2>1. verdict[r] = "ok" => \A i \in DOMAIN Stages : sg[i] # "failed"
    BY <1>4, <1>11, DeployOne DEF VerdictOK
  <2>2. ASSUME verdict[r] = "failed" PROVE \E i \in DOMAIN Stages : sg[i] = "failed"
    <3>1. CASE place[r] = "aborting"
      <4>1. index[r] = 1 /\ 1 \in DOMAIN Stages /\ stages[r][1] = "pending"
        BY <3>1, DeployOne DEF StagesOK
      <4> QED BY <1>2, <1>4, <2>2, <4>1
    <3>2. CASE place[r] # "aborting"
      <4>1. PICK i \in DOMAIN Stages : stages[r][i] = "failed"
        BY <2>2, <3>2, DeployOne DEF VerdictOK
      <4> QED BY <1>4, <4>1
    <3> QED BY <3>1, <3>2
  <2> QED BY <1>0, <1>6, <2>1, <2>2 DEF VerdictOK
<1>14. StateOK(r)' /\ TransferOK(r)'
  BY <1>0, <1>6, DeployOne DEF StateOK, TransferOK
<1> QED BY <1>0, <1>7, <1>8, <1>9, <1>12, <1>13, <1>14, DeployStep

\* The first part of cancel keeps the invariant.
LEMMA DeployCancel ==
  ASSUME DeployInv, Cancel
  PROVE  DeployInv'
<1>1. DeployTypeOK'
  BY DEF DeployInv, DeployTypeOK, Cancel, runVars, transferVars
<1>2. /\ UNCHANGED <<job, state, stages, place, index, verdict, transfer>> /\ flagged \subseteq flagged'
  BY DEF Cancel, runVars, transferVars
<1>3. RunningIsJob'
  BY <1>2 DEF DeployInv, RunningIsJob
<1>4. ASSUME NEW q \in Runs PROVE (StagesOK(q) /\ VerdictOK(q) /\ StateOK(q) /\ TransferOK(q))'
  <2>1. StagesOK(q)'
    BY <1>2, DeployOne DEF StagesOK
  <2>2. VerdictOK(q)'
    BY <1>2, DeployOne DEF VerdictOK
  <2>3. StateOK(q)' /\ TransferOK(q)'
    BY <1>2, DeployOne DEF StateOK, TransferOK
  <2> QED BY <2>1, <2>2, <2>3
<1> QED BY <1>1, <1>3, <1>4 DEF DeployInv

\* Every step keeps the invariant.
LEMMA DeployNextKeeps == DeployInv /\ [DeployNext]_deployVars => DeployInv'
<1> SUFFICES ASSUME DeployInv, [DeployNext]_deployVars PROVE DeployInv'
  OBVIOUS
<1>1. CASE UNCHANGED deployVars
  <2> USE <1>1 DEF deployVars, runVars, transferVars
  <2>1. DeployTypeOK' /\ RunningIsJob'
    BY DEF DeployInv, DeployTypeOK, RunningIsJob
  <2>2. \A q \in Runs : (StagesOK(q) /\ VerdictOK(q) /\ StateOK(q) /\ TransferOK(q))'
    BY DEF DeployInv, StagesOK, VerdictOK, StateOK, TransferOK
  <2> QED BY <2>1, <2>2 DEF DeployInv
<1>2. ASSUME NEW r \in Runs, Start(r) \/ Pop(r) \/ BeginRun(r) \/ Abort(r) \/ NextStage(r)
      PROVE  DeployInv'
  BY <1>2, DeployStart, DeployPop, DeployBegin, DeployAbort, DeployNextStage
<1>3. ASSUME NEW r \in Runs, Submit(r) \/ Publish(r) \/ LookAgain(r) \/ StopPolling(r) \/ Judge(r)
      PROVE  DeployInv'
  BY <1>3, DeploySubmit, DeployPublish, DeployLook, DeployStopPolling, DeployJudge
<1>4. ASSUME NEW r \in Runs, \/ FileEnds(r) \/ TransferCancelled(r) \/ Act(r) \/ FinishRun(r)
                             \/ Settle(r) \/ CancelTransfer(r)
      PROVE  DeployInv'
  BY <1>4, DeployFileEnds, DeployTransferCancelled, DeployAct, DeployFinish, DeploySettle,
     DeployCancelTransfer
<1>5. CASE Cancel
  BY <1>5, DeployCancel
<1> QED BY <1>1, <1>2, <1>3, <1>4, <1>5 DEF DeployNext

\* For any number of runs and any stages: one run of a plan at a time, its
\* stages in order and settled before the run is, and an outcome that agrees
\* with them and with the last transfer, whenever cancel comes
\* (deployjob.py:101-150, 169-268, 270-306, 340-360).
THEOREM RunsAlwaysConsistent == DeploySpec => []RunsConsistent
  BY DeployInitOK, DeployNextKeeps, DeployImplies, PTL DEF DeploySpec

-----------------------------------------------------------------------------
(***************************************************************************)
(* The output of a command (OutputBuffer).  A position is firm when it     *)
(* lies between two characters and stays there whatever is appended; the   *)
(* head of the ring, every cursor and both ends of every answer are firm.  *)
(***************************************************************************)

\* The last k bytes of s are the beginning of a character.
TailBytes(s, k) ==
  /\ k <= Len(s)
  /\ Width(s[Len(s) - k + 1]) > k
  /\ \A i \in Len(s) - k + 2 .. Len(s) : s[i] = "c"

NoTail(s) == \A k \in 1 .. 3 : ~TailBytes(s, k)

\* A position between two characters that stays one whatever is appended.
FirmIn(w, over, n) ==
  /\ n \in 0 .. Len(w)
  /\ n < Len(w) => w[n + 1] # "c"
  /\ n = Len(w) => over \/ NoTail(w)

Firm(n) == FirmIn(written, final, n)

\* pendingLen is the part of a character at the end, and in the ring.
PendingOK ==
  /\ pendingLen \in 0 .. 3 /\ pendingLen <= End - base
  /\ pendingLen = 0 => NoTail(written)
  /\ pendingLen > 0 => TailBytes(written, pendingLen)

RingOK ==
  /\ written \in Seq(Bytes) /\ final \in BOOLEAN
  /\ base \in 0 .. End /\ End - base <= Limit
  /\ base = 0 \/ End - base >= Limit - 3
  /\ Firm(base)

ClientOK ==
  /\ cursor = -1 \/ Firm(cursor)
  /\ answer.kind \in {"none", "text"}
  /\ answer.kind = "text" => Firm(answer.from) /\ Firm(answer.to) /\ answer.from <= answer.to

BufInv == RingOK /\ PendingOK /\ ClientOK

-----------------------------------------------------------------------------
\* A byte has a width, and one that continues a character has width one.
LEMMA WidthFact == \A b \in Bytes : Width(b) \in 1 .. 4 /\ (b = "c" => Width(b) = 1)
  BY DEF Bytes, Width

\* Of four bytes in a row one begins a character.
LEMMA FourBytes ==
  ASSUME NEW w \in Seq(Bytes), IsText(w), NEW m \in Nat, m + 4 <= Len(w)
  PROVE  \E i \in m + 1 .. m + 4 : w[i] # "c"
<1> SUFFICES ASSUME \A i \in m + 1 .. m + 4 : w[i] = "c" PROVE FALSE
  OBVIOUS
<1>1. Len(w) \in Nat /\ m + 4 \in DOMAIN w
  OBVIOUS
<1>2. w[m + 4] = "c" /\ w[m + 3] = "c" /\ w[m + 2] = "c" /\ w[m + 1] = "c"
  OBVIOUS
<1>3. PICK k \in 1 .. 3 : Width(w[(m + 4) - k]) > k
  BY <1>1, <1>2 DEF IsText
<1>4. w[(m + 4) - k] = "c"
  OBVIOUS
<1>5. Width("c") = 1
  BY DEF Width
<1>6. QED BY <1>3, <1>4, <1>5

\* The head of the ring is moved to the next character, by three bytes at most.
LEMMA CutFact ==
  ASSUME NEW w \in Seq(Bytes), IsText(w), NEW m \in Nat, m + 4 <= Len(w)
  PROVE  Cut(w, m) \in m .. m + 3 /\ w[Cut(w, m) + 1] # "c"
<1> DEFINE P(n) == /\ n = Len(w) \/ w[n + 1] # "c"
                   /\ \A i \in m .. n - 1 : w[i + 1] = "c"
<1>1. Len(w) \in Nat
  OBVIOUS
<1>2. \E n \in m .. Len(w) : P(n)
  <2>1. PICK j \in m + 1 .. m + 4 : w[j] # "c"
    BY FourBytes
  <2>2. CASE w[m + 1] # "c"
    <3>1. P(m) /\ m \in m .. Len(w)
      BY <1>1, <2>2
    <3>2. QED BY <3>1
  <2>3. CASE w[m + 1] = "c" /\ w[m + 2] # "c"
    <3>1. P(m + 1) /\ m + 1 \in m .. Len(w)
      BY <1>1, <2>3
    <3>2. QED BY <3>1
  <2>4. CASE w[m + 1] = "c" /\ w[m + 2] = "c" /\ w[m + 3] # "c"
    <3>1. P(m + 2) /\ m + 2 \in m .. Len(w)
      BY <1>1, <2>4
    <3>2. QED BY <3>1
  <2>5. CASE w[m + 1] = "c" /\ w[m + 2] = "c" /\ w[m + 3] = "c"
    <3>1. w[m + 4] # "c"
      BY <2>1, <2>5
    <3>2. P(m + 3) /\ m + 3 \in m .. Len(w)
      BY <1>1, <2>5, <3>1
    <3>3. QED BY <3>2
  <2>6. QED BY <2>2, <2>3, <2>4, <2>5
<1> DEFINE n == Cut(w, m)
<1>3. n \in m .. Len(w) /\ P(n)
  <2> DEFINE Q(x) == x \in m .. Len(w) /\ P(x)
  <2>1. n = CHOOSE x \in m .. Len(w) : P(x)
    BY DEF Cut
  <2> HIDE DEF P, n
  <2>2. QED BY <1>2, <2>1
<1> HIDE DEF n
<1>4. n <= m + 3
  <2>1. PICK j \in m + 1 .. m + 4 : w[j] # "c"
    BY FourBytes
  <2>2. SUFFICES ASSUME n >= m + 4 PROVE FALSE
    BY <1>1, <1>3
  <2>3. j - 1 \in m .. n - 1 /\ (j - 1) + 1 = j
    BY <1>1, <1>3, <2>2
  <2>4. QED BY <1>3, <2>1, <2>3
<1>5. n # Len(w)
  BY <1>1, <1>4
<1>6. QED BY <1>1, <1>3, <1>4, <1>5 DEF n

\* What append computes of the last four bytes holds of all bytes.
LEMMA WithheldFact ==
  ASSUME NEW w \in Seq(Bytes), NEW b \in 0 .. Len(w), b < Len(w), w[b + 1] # "c"
  PROVE  LET k == Withheld(SubSeq(w, b + 1, Len(w)))
         IN  /\ k \in 0 .. 3 /\ k <= Len(w) - b
             /\ k = 0 => NoTail(w)
             /\ k > 0 => TailBytes(w, k)
<1> DEFINE s == SubSeq(w, b + 1, Len(w))
<1> DEFINE f == IF Len(s) > 4 THEN Len(s) - 3 ELSE 1
<1> DEFINE t == SubSeq(s, f, Len(s))
<1>1. Len(w) \in Nat /\ b \in Nat
  OBVIOUS
<1>2. s \in Seq(Bytes) /\ Len(s) = Len(w) - b /\ \A i \in 1 .. Len(w) - b : s[i] = w[b + i]
  BY <1>1
<1> HIDE DEF s
<1>3. f \in 1 .. Len(s) /\ f \in Nat
  BY <1>1, <1>2
<1>4. /\ t \in Seq(Bytes) /\ Len(t) = Len(s) - f + 1
      /\ \A i \in 1 .. Len(s) - f + 1 : t[i] = s[f + i - 1]
  <2> HIDE DEF f
  <2>1. QED BY <1>1, <1>2, <1>3
<1> DEFINE m == Len(t)
<1>5. m \in 1 .. 4 /\ m <= Len(w) - b /\ (m < 4 => m = Len(w) - b)
  <2>1. CASE Len(s) > 4
    BY <1>1, <1>2, <1>4, <2>1
  <2>2. CASE ~(Len(s) > 4)
    BY <1>1, <1>2, <1>4, <2>2
  <2>3. QED BY <2>1, <2>2
<1>6. \A i \in 1 .. m : t[i] = w[Len(w) - m + i]
  <2>1. f \in Nat /\ m = Len(s) - f + 1
    BY <1>3, <1>4
  <2> HIDE DEF f, t
  <2>2. ASSUME NEW i \in 1 .. m PROVE t[i] = w[Len(w) - m + i]
    <3>1. t[i] = s[f + i - 1]
      BY <1>4, <2>1, <2>2
    <3>2. f + i - 1 \in 1 .. Len(w) - b
      BY <1>1, <1>2, <1>3, <1>5, <2>1
    <3>3. s[f + i - 1] = w[b + (f + i - 1)]
      BY <1>2, <3>2
    <3>4. b + (f + i - 1) = Len(w) - m + i
      BY <1>1, <1>2, <1>5, <2>1
    <3>5. QED BY <3>1, <3>3, <3>4
  <2>3. QED BY <2>2
<1> HIDE DEF f, t
<1>7. ASSUME NEW k \in 1 .. 3, k <= m PROVE TailBytes(t, k) <=> TailBytes(w, k)
  <2>1. t[m - k + 1] = w[Len(w) - k + 1]
    <3>1. m - k + 1 \in 1 .. m /\ Len(w) - m + (m - k + 1) = Len(w) - k + 1
      BY <1>1, <1>5, <1>7
    <3>2. QED BY <1>6, <3>1
  <2>2. ASSUME \A i \in m - k + 2 .. m : t[i] = "c", NEW j \in Len(w) - k + 2 .. Len(w)
        PROVE  w[j] = "c"
    <3> DEFINE i == j - Len(w) + m
    <3>1. i \in m - k + 2 .. m /\ i \in 1 .. m /\ Len(w) - m + i = j
      BY <1>1, <1>5, <1>7, <2>2
    <3>2. QED BY <1>6, <2>2, <3>1
  <2>3. ASSUME \A j \in Len(w) - k + 2 .. Len(w) : w[j] = "c", NEW i \in m - k + 2 .. m
        PROVE  t[i] = "c"
    <3> DEFINE j == Len(w) - m + i
    <3>1. j \in Len(w) - k + 2 .. Len(w) /\ i \in 1 .. m
      BY <1>1, <1>5, <1>7, <2>3
    <3>2. QED BY <1>6, <2>3, <3>1
  <2>4. k <= Len(w)
    BY <1>1, <1>5, <1>7
  <2>5. QED BY <1>7, <2>1, <2>2, <2>3, <2>4 DEF TailBytes
<1>8. ASSUME NEW k \in 1 .. 3, k > m PROVE ~TailBytes(w, k)
  <2>1. m = Len(w) - b /\ b + 1 \in Len(w) - k + 2 .. Len(w)
    BY <1>1, <1>5, <1>8
  <2>2. QED BY <2>1 DEF TailBytes
<1> DEFINE tails == {k \in 1 .. 3 : TailBytes(t, k)}
<1>9. Undecided(t) = IF tails = {} THEN 0 ELSE CHOOSE k \in tails : TRUE
  BY DEF Undecided, TailBytes
<1>10. Withheld(s) = Undecided(t)
  BY DEF Withheld, t, f
<1> DEFINE u == Undecided(t)
<1>11. (u = 0 /\ tails = {}) \/ u \in tails
  BY <1>9
<1> HIDE DEF u
<1>12. CASE tails = {} /\ u = 0
  <2>1. NoTail(w)
    <3>1. ASSUME NEW k \in 1 .. 3 PROVE ~TailBytes(w, k)
      <4>1. CASE k <= m
        BY <1>7, <1>12, <4>1
      <4>2. CASE k > m
        BY <1>8, <4>2
      <4>3. QED BY <1>5, <4>1, <4>2
    <3>2. QED BY <3>1 DEF NoTail
  <2>2. QED BY <1>1, <1>10, <1>12, <2>1 DEF u, s
<1>13. CASE u \in tails
  <2>1. u \in 1 .. 3 /\ TailBytes(t, u)
    BY <1>13
  <2>2. u <= m
    BY <2>1 DEF TailBytes
  <2>3. TailBytes(w, u) /\ u <= Len(w) - b /\ u \in 0 .. 3 /\ u # 0
    BY <1>1, <1>5, <1>7, <2>1, <2>2
  <2>4. QED BY <1>10, <2>3 DEF u, s
<1>14. QED BY <1>11, <1>12, <1>13

\* A text does not go on with a continuation where no character has begun.
LEMMA NextBegins ==
  ASSUME NEW v \in Seq(Bytes), NEW w \in Seq(Bytes), Len(v) < Len(w),
         \A i \in 1 .. Len(v) : w[i] = v[i], IsText(w), NoTail(v)
  PROVE  w[Len(v) + 1] # "c"
<1> SUFFICES ASSUME w[Len(v) + 1] = "c" PROVE FALSE
  OBVIOUS
<1>1. Len(v) \in Nat /\ Len(w) \in Nat /\ Len(v) + 1 \in DOMAIN w
  OBVIOUS
<1>2. PICK k \in 1 .. 3 : /\ (Len(v) + 1) - k >= 1
                          /\ Width(w[(Len(v) + 1) - k]) > k
                          /\ \A n \in (Len(v) + 1) - k + 1 .. Len(v) + 1 : w[n] = "c"
  BY <1>1 DEF IsText
<1>3. k <= Len(v) /\ (Len(v) + 1) - k = Len(v) - k + 1 /\ Len(v) - k + 1 \in 1 .. Len(v)
  BY <1>1, <1>2
<1>4. Width(v[Len(v) - k + 1]) > k
  BY <1>2, <1>3
<1>5. \A i \in Len(v) - k + 2 .. Len(v) : v[i] = "c"
  <2>1. ASSUME NEW i \in Len(v) - k + 2 .. Len(v) PROVE v[i] = "c"
    <3>1. i \in (Len(v) + 1) - k + 1 .. Len(v) + 1 /\ i \in 1 .. Len(v)
      BY <1>1, <1>3
    <3>2. QED BY <1>2, <3>1
  <2>2. QED BY <2>1
<1>6. QED BY <1>3, <1>4, <1>5 DEF NoTail, TailBytes

-----------------------------------------------------------------------------
\* Nothing written, and position 0 is firm.
LEMMA BufInitOK == BufInit => BufInv
<1> SUFFICES ASSUME BufInit PROVE BufInv
  OBVIOUS
<1>1. written = <<>> /\ written \in Seq(Bytes) /\ End = 0
  BY DEF BufInit, End
<1>2. NoTail(written)
  <2>1. Len(written) = 0
    BY <1>1 DEF End
  <2>2. QED BY <2>1 DEF NoTail, TailBytes
<1>3. Firm(0)
  BY <1>1, <1>2 DEF Firm, FirmIn, End
<1>4. RingOK
  <2>1. base = 0 /\ final = FALSE /\ Limit \in Nat
    BY BufferAssumption DEF BufInit
  <2>2. base \in 0 .. End /\ End - base <= Limit
    BY <1>1, <2>1
  <2>3. Firm(base)
    BY <1>3, <2>1, Zenon
  <2>4. QED BY <1>1, <2>1, <2>2, <2>3 DEF RingOK
<1>5. PendingOK
  BY <1>1, <1>2 DEF PendingOK, BufInit
<1>6. ClientOK
  BY DEF ClientOK, BufInit
<1>7. QED BY <1>4, <1>5, <1>6 DEF BufInv

\* A firm position stays firm when text is appended.
LEMMA FirmStays ==
  ASSUME NEW v \in Seq(Bytes), NEW w \in Seq(Bytes), Len(v) < Len(w),
         \A i \in 1 .. Len(v) : w[i] = v[i], IsText(w), NEW n, FirmIn(v, FALSE, n)
  PROVE  FirmIn(w, FALSE, n) /\ n < Len(w)
<1>1. Len(v) \in Nat /\ Len(w) \in Nat /\ n \in 0 .. Len(v) /\ n \in Int
  BY DEF FirmIn
<1>2. CASE n < Len(v)
  <2>1. n + 1 \in 1 .. Len(v) /\ v[n + 1] # "c"
    BY <1>1, <1>2 DEF FirmIn
  <2>2. w[n + 1] # "c" /\ n \in 0 .. Len(w) /\ n # Len(w) /\ n < Len(w)
    BY <1>1, <2>1
  <2>3. QED BY <2>2 DEF FirmIn
<1>3. CASE n = Len(v)
  <2>1. NoTail(v)
    BY <1>3 DEF FirmIn
  <2>2. w[Len(v) + 1] # "c"
    BY <2>1, NextBegins
  <2>3. n \in 0 .. Len(w) /\ n # Len(w) /\ n < Len(w)
    BY <1>1, <1>3
  <2>4. w[n + 1] # "c"
    BY <1>3, <2>2
  <2>5. QED BY <2>3, <2>4 DEF FirmIn
<1>4. n < Len(v) \/ n = Len(v)
  BY <1>1
<1>5. QED BY <1>2, <1>3, <1>4, Zenon

\* append: the head moves to a firm position, and what is withheld is the tail.
LEMMA BufRead ==
  ASSUME BufInv, Read, Text, Limit >= 4
  PROVE  BufInv'
<1>1. RingOK /\ PendingOK /\ ClientOK
  BY DEF BufInv
<1>2. PICK n \in 1 .. MaxChunk : \E chunk \in [1 .. n -> Bytes] :
        IsText(written \o chunk) /\ Extend(chunk)
  BY DEF Read
<1>3. PICK chunk \in [1 .. n -> Bytes] : IsText(written \o chunk) /\ Extend(chunk)
  BY <1>2
<1> DEFINE w == written \o chunk
<1>4. n \in Nat /\ n >= 1 /\ chunk \in Seq(Bytes) /\ Len(chunk) = n
  BY BufferAssumption
<1>5. written \in Seq(Bytes) /\ Len(written) \in Nat
  BY <1>1 DEF RingOK
<1>6. w \in Seq(Bytes) /\ Len(w) = Len(written) + n /\ \A i \in 1 .. Len(written) : w[i] = written[i]
  BY <1>4, <1>5
<1>7. IsText(w) /\ final = FALSE /\ UNCHANGED <<final, cursor, answer>>
  BY <1>1, <1>3 DEF Read, RingOK
<1> DEFINE b == IF Len(w) - base > Limit THEN Cut(w, Len(w) - Limit) ELSE base
<1>8. written' = w /\ base' = b /\ pendingLen' = Withheld(SubSeq(w, b + 1, Len(w)))
  BY <1>3 DEF Extend
<1> HIDE DEF w
<1>9. Len(w) \in Nat /\ base \in Nat /\ base <= Len(written) /\ Limit \in Nat /\ Len(written) < Len(w)
  BY <1>1, <1>4, <1>5, <1>6, BufferAssumption DEF RingOK, End
<1>10. ASSUME NEW x, FirmIn(written, FALSE, x) PROVE FirmIn(w, FALSE, x) /\ x < Len(w)
  BY <1>5, <1>6, <1>7, <1>9, <1>10, FirmStays
<1>11. b \in 0 .. Len(w) /\ b < Len(w) /\ w[b + 1] # "c" /\ Len(w) - b <= Limit
       /\ (b = 0 \/ Len(w) - b >= Limit - 3)
  <2>1. CASE Len(w) - base > Limit
    <3> DEFINE m == Len(w) - Limit
    <3>1. m \in Nat /\ m + 4 <= Len(w)
      BY <1>9, <2>1
    <3>2. b = Cut(w, m)
      BY <2>1
    <3> DEFINE c == Cut(w, m)
    <3>3. c \in m .. m + 3 /\ w[c + 1] # "c"
      <4> HIDE DEF m
      <4>1. QED BY <1>6, <1>7, <3>1, CutFact
    <3> HIDE DEF c
    <3>4. c \in Nat /\ c < Len(w) /\ Len(w) - c <= Limit /\ Len(w) - c >= Limit - 3
      BY <1>9, <3>1, <3>3
    <3>5. b = c
      BY <3>2 DEF c
    <3> HIDE DEF b
    <3>6. QED BY <1>9, <3>3, <3>4, <3>5
  <2>2. CASE ~(Len(w) - base > Limit)
    <3>1. b = base
      BY <2>2
    <3>2. FirmIn(w, FALSE, base) /\ base < Len(w)
      BY <1>1, <1>7, <1>10 DEF RingOK, Firm
    <3>3. w[base + 1] # "c"
      BY <3>2 DEF FirmIn
    <3>4. base = 0 \/ Len(w) - base >= Limit - 3
      BY <1>1, <1>9 DEF RingOK, End
    <3> HIDE DEF b
    <3>5. QED BY <1>9, <2>2, <3>1, <3>2, <3>3, <3>4
  <2>3. QED BY <2>1, <2>2
<1> HIDE DEF b
<1>12. RingOK'
  <2>1. Firm(base)'
    BY <1>8, <1>9, <1>11 DEF Firm, FirmIn
  <2>2. QED BY <1>1, <1>6, <1>7, <1>8, <1>9, <1>11, <2>1 DEF RingOK, End
<1>13. PendingOK'
  <2> DEFINE k == Withheld(SubSeq(w, b + 1, Len(w)))
  <2>1. /\ k \in 0 .. 3 /\ k <= Len(w) - b
        /\ k = 0 => NoTail(w)
        /\ k > 0 => TailBytes(w, k)
    BY <1>6, <1>11, WithheldFact
  <2>2. pendingLen' = k
    BY <1>8
  <2> HIDE DEF k
  <2>3. QED BY <1>8, <2>1, <2>2 DEF PendingOK, End
<1>14. ClientOK'
  BY <1>1, <1>7, <1>8, <1>10 DEF ClientOK, Firm
<1>15. QED BY <1>12, <1>13, <1>14 DEF BufInv

\* The command ends: what was withheld is shown.
LEMMA BufFinish ==
  ASSUME BufInv, FinishOutput
  PROVE  BufInv'
<1>1. UNCHANGED <<written, base, pendingLen, cursor, answer>> /\ final' = TRUE
  BY DEF FinishOutput
<1>2. ASSUME NEW n, FirmIn(written, final, n) PROVE FirmIn(written, TRUE, n)
  BY <1>2 DEF FirmIn
<1>3. RingOK' /\ PendingOK' /\ ClientOK'
  BY <1>1, <1>2 DEF BufInv, RingOK, PendingOK, ClientOK, Firm, End
<1>4. QED BY <1>3 DEF BufInv

\* No firm position lies inside the bytes that are withheld.
LEMMA FirmIsVisible ==
  ASSUME RingOK, PendingOK, NEW n, Firm(n)
  PROVE  n <= IF final THEN End ELSE End - pendingLen
<1>1. End \in Nat /\ n \in 0 .. End /\ pendingLen \in 0 .. 3 /\ End = Len(written)
  BY DEF RingOK, PendingOK, Firm, FirmIn, End
<1>2. CASE final
  BY <1>1, <1>2
<1>3. CASE ~final
  <2>1. SUFFICES ASSUME n > End - pendingLen PROVE FALSE
    BY <1>1, <1>3
  <2>2. pendingLen > 0 /\ TailBytes(written, pendingLen)
    BY <1>1, <2>1 DEF PendingOK
  <2>3. CASE n = End
    <3>1. NoTail(written)
      BY <1>1, <1>3, <2>3 DEF Firm, FirmIn
    <3>2. QED BY <1>1, <2>2, <3>1 DEF NoTail
  <2>4. CASE n < End
    <3>1. written[n + 1] # "c"
      BY <1>1, <2>4 DEF Firm, FirmIn
    <3>2. n + 1 \in Len(written) - pendingLen + 2 .. Len(written)
      BY <1>1, <2>1, <2>4
    <3>3. QED BY <2>2, <3>1, <3>2 DEF TailBytes
  <2>5. QED BY <1>1, <2>3, <2>4
<1>4. QED BY <1>2, <1>3

\* What is shown ends at a firm position.
LEMMA VisibleIsFirm ==
  ASSUME RingOK, PendingOK
  PROVE  Firm(IF final THEN End ELSE End - pendingLen)
<1>1. End \in Nat /\ pendingLen \in 0 .. 3 /\ End = Len(written) /\ pendingLen <= End
  BY DEF RingOK, PendingOK, End
<1>2. CASE final
  BY <1>1, <1>2 DEF Firm, FirmIn
<1>3. CASE ~final /\ pendingLen = 0
  <2>1. NoTail(written)
    BY <1>3 DEF PendingOK
  <2>2. QED BY <1>1, <1>3, <2>1 DEF Firm, FirmIn
<1>4. CASE ~final /\ pendingLen > 0
  <2> DEFINE p == End - pendingLen
  <2>1. p \in 0 .. Len(written) /\ p < Len(written) /\ p # Len(written) /\ p + 1 = Len(written) - pendingLen + 1
    BY <1>1, <1>4
  <2>2. Width(written[p + 1]) > pendingLen
    BY <1>4, <2>1 DEF PendingOK, TailBytes
  <2>3. written[p + 1] # "c"
    <3>1. Width("c") = 1
      BY DEF Width
    <3>2. QED BY <1>1, <1>4, <2>2, <3>1
  <2> HIDE DEF p
  <2>4. Firm(p)
    BY <2>1, <2>3 DEF Firm, FirmIn
  <2>5. QED BY <1>4, <2>4 DEF p
<1>5. QED BY <1>1, <1>2, <1>3, <1>4

\* snapshot with no cursor, or with one from before.
LEMMA BufPoll ==
  ASSUME BufInv, Poll
  PROVE  BufInv'
<1>1. RingOK /\ PendingOK /\ ClientOK
  BY DEF BufInv
<1>2. UNCHANGED <<written, base, pendingLen, final>>
  BY DEF Poll
<1>3. PICK offset \in {cursor, -1} : answer' = Snapshot(offset)
  BY DEF Poll
<1>4. cursor' = IF answer'.kind = "text" THEN answer'.to ELSE cursor
  BY DEF Poll
<1> DEFINE to == IF final THEN End ELSE End - pendingLen
<1> DEFINE from == StartOf(offset)
<1>5. Firm(to)
  BY <1>1, VisibleIsFirm
<1>6. Firm(base) /\ (offset = -1 \/ Firm(offset))
  BY <1>1, <1>3 DEF RingOK, ClientOK
<1>7. Firm(from)
  BY <1>6 DEF StartOf
<1>8. from <= to /\ (offset = -1 \/ offset <= to)
  <2>1. \A n : Firm(n) => n <= to
    BY <1>1, FirmIsVisible
  <2> HIDE DEF to, from
  <2>2. QED BY <1>6, <1>7, <2>1
<1>9. End \in Nat /\ to \in 0 .. End /\ from \in 0 .. End /\ (offset # -1 => offset \in 0 .. End) /\ End = Len(written)
  BY <1>1, <1>5, <1>6, <1>7 DEF RingOK, Firm, FirmIn, End
<1>10. Snapshot(offset) = IF offset > to THEN [kind |-> "beyond"]
                          ELSE IF from < to /\ written[from + 1] = "c" THEN [kind |-> "inside"]
                          ELSE [kind |-> "text", from |-> from, to |-> to]
  BY DEF Snapshot
<1> HIDE DEF to, from
<1>11. ~(offset > to)
  BY <1>8, <1>9
<1>12. ~(from < to /\ written[from + 1] = "c")
  BY <1>7, <1>9 DEF Firm, FirmIn
<1>13. answer' = [kind |-> "text", from |-> from, to |-> to]
  BY <1>3, <1>10, <1>11, <1>12
<1>14. answer'.kind = "text" /\ answer'.from = from /\ answer'.to = to /\ cursor' = to
  BY <1>4, <1>13
<1>15. RingOK' /\ PendingOK'
  BY <1>1, <1>2 DEF RingOK, PendingOK, Firm, End
<1>16. ClientOK'
  BY <1>2, <1>5, <1>7, <1>8, <1>14 DEF ClientOK, Firm
<1>17. QED BY <1>15, <1>16 DEF BufInv

\* What the invariant says about the ring and the client.
LEMMA BufImplies == BufInv => BufferFaithful
<1> SUFFICES ASSUME BufInv PROVE BufferFaithful
  OBVIOUS
<1>1. RingOK /\ PendingOK /\ ClientOK /\ End \in Nat /\ End = Len(written) /\ Limit \in Nat
  BY BufferAssumption DEF BufInv, RingOK, End
<1>2. BufTypeOK
  <2>1. cursor \in -1 .. End
    BY <1>1 DEF ClientOK, Firm, FirmIn
  <2>2. QED BY <1>1, <2>1 DEF BufTypeOK, RingOK, PendingOK, ClientOK
<1>3. KeepsNewest
  BY <1>1 DEF KeepsNewest, RingOK
<1>4. WholeCharacters
  <2>1. \A n : Firm(n) => Boundary(n)
    BY <1>1 DEF Firm, FirmIn, Boundary
  <2>2. QED BY <1>1, <2>1 DEF WholeCharacters, ClientOK
<1>5. CursorAccepted
  BY <1>1 DEF CursorAccepted, ClientOK
<1>6. QED BY <1>2, <1>3, <1>4, <1>5 DEF BufferFaithful

\* Every step keeps the invariant.
LEMMA BufNextKeeps ==
  ASSUME Text, Limit >= 4
  PROVE  BufInv /\ [BufNext]_bufVars => BufInv'
<1> SUFFICES ASSUME BufInv, [BufNext]_bufVars PROVE BufInv'
  OBVIOUS
<1>1. CASE UNCHANGED bufVars
  BY <1>1 DEF bufVars, BufInv, RingOK, PendingOK, ClientOK, Firm, End
<1>2. CASE BufNext
  BY <1>2, BufRead, BufFinish, BufPoll DEF BufNext
<1>3. QED BY <1>1, <1>2

\* For output in UTF-8, and a limit of at least one character of four bytes,
\* however the pipe is read and whenever the client polls: the ring keeps its
\* newest bytes but for three at most, a client is shown whole characters only
\* and its cursor is never refused (output_buffer.py:34-57, 59-90).
THEOREM OutputAlwaysFaithful == Text /\ Limit >= 4 => (BufSpec => []BufferFaithful)
<1> SUFFICES ASSUME Text, Limit >= 4 PROVE BufSpec => []BufferFaithful
  OBVIOUS
<1>1. BufInv /\ [BufNext]_bufVars => BufInv'
  BY BufNextKeeps
<1>2. QED BY <1>1, BufInitOK, BufImplies, PTL DEF BufSpec
=============================================================================
