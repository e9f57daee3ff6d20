---------------------------- MODULE PortalProofs ----------------------------
(***************************************************************************)
(* What the portal promises about its own state, for every number of       *)
(* requests, workers, groups, keys and sessions: the pool of workers, the  *)
(* file of groups and the registry of keys, with a crash between any two   *)
(* steps, and the sessions of the assistant.                               *)
(***************************************************************************)
EXTENDS HttpServer, GroupStore, KeyStore, AgentSessions, DataLemmas

-----------------------------------------------------------------------------
(***************************************************************************)
(* The server and its workers (HttpServer).  The numbers are those of      *)
(* sets: slots of the requests that hold one, workers of the threads that  *)
(* were started.                                                           *)
(***************************************************************************)

Holding == {w \in Workers : worker[w] \in {"busy", "counting", "releasing"}}
IdleWorkers == {w \in Workers : worker[w] \in {"get", "empty"}}
Taken == {r \in Requests : state[r] \in {"queued", "handled", "uncounted"}}
Counted == {r \in Requests : state[r] \in {"queued", "handled"}}

ServerTyped ==
  /\ state \in [Requests -> RequestStates]
  /\ slots \in Nat /\ active \in Int
  /\ work \in Seq(Requests)
  /\ worker \in [Workers -> WorkerStates]
  /\ job \in [Workers -> Requests \cup {NoRequest}]
  /\ accepting \in BOOLEAN /\ closing \in BOOLEAN
  /\ drain \in {"no", "waiting", "joining", "true", "false"}

\* The queue holds queued requests, each once.
WorkOK ==
  /\ \A i \in 1..Len(work) : state[work[i]] = "queued"
  /\ \A i, j \in 1..Len(work) : work[i] = work[j] => i = j

\* A worker past get has a request of its own, which is as far as the worker
\* is; a request whose slot is still to be given back has such a worker.
JobsOK ==
  /\ \A w \in Workers :
       /\ worker[w] \in {"busy", "counting"} => job[w] \in Requests /\ state[job[w]] = "handled"
       /\ worker[w] = "releasing" => job[w] \in Requests /\ state[job[w]] = "uncounted"
  /\ \A v, w \in Holding : job[v] = job[w] => v = w
  /\ \A r \in Requests : state[r] = "uncounted" =>
       \E w \in Workers : worker[w] = "releasing" /\ job[w] = r

\* A slot is free, or the request that took it waits or is with a worker.
CountsOK ==
  /\ slots + Len(work) + Cardinality(Holding) = MaxWorkers
  /\ slots + Cardinality(Taken) = MaxWorkers
  /\ active = Cardinality(Counted)

EndOK ==
  /\ drain # "no" => closing
  /\ closing => ~accepting
  /\ drain \in {"joining", "true"} => active = 0
  /\ \A w \in Workers : worker[w] = "returned" => closing
  /\ drain = "true" => \A w \in Workers : worker[w] = "returned"

\* The inductive invariant.
ServerInv == ServerTyped /\ WorkOK /\ JobsOK /\ CountsOK /\ EndOK

-----------------------------------------------------------------------------
\* Requests and workers are finitely many.
LEMMA ServerFinite ==
  /\ IsFiniteSet(Holding) /\ Cardinality(Holding) \in Nat
  /\ IsFiniteSet(IdleWorkers) /\ Cardinality(IdleWorkers) \in Nat
  /\ IsFiniteSet(Taken) /\ Cardinality(Taken) \in Nat
  /\ IsFiniteSet(Counted) /\ Cardinality(Counted) \in Nat
  /\ MaxWorkers \in Nat
<1>1. IsFiniteSet(Holding) /\ IsFiniteSet(IdleWorkers)
  BY ServerAssumption, FS_Subset DEF Holding, IdleWorkers
<1>2. IsFiniteSet(Taken) /\ IsFiniteSet(Counted)
  BY ServerAssumption, FS_Subset DEF Taken, Counted
<1> QED BY <1>1, <1>2, ServerAssumption, FS_CardinalityType DEF MaxWorkers

\* The server starts.
LEMMA ServerInit == Init => ServerInv
<1> SUFFICES ASSUME Init PROVE ServerInv
  OBVIOUS
<1>1. ServerTyped
  <2>1. slots \in Nat /\ active \in Int
    BY ServerFinite DEF Init
  <2>2. work \in Seq(Requests)
    BY DEF Init
  <2>3. accepting \in BOOLEAN /\ closing \in BOOLEAN
    BY Zenon DEF Init
  <2>4. /\ state \in [Requests -> RequestStates] /\ worker \in [Workers -> WorkerStates]
        /\ job \in [Workers -> Requests \cup {NoRequest}] /\ drain = "no"
    BY DEF Init, RequestStates, WorkerStates
  <2> QED BY <2>1, <2>2, <2>3, <2>4 DEF ServerTyped
<1>2. Holding = {} /\ Taken = {} /\ Counted = {}
  BY DEF Init, Holding, Taken, Counted
<1>3. CountsOK
  BY <1>2, FS_EmptySet, ServerFinite DEF Init, CountsOK
<1>4. WorkOK /\ JobsOK /\ EndOK
  BY <1>2 DEF Init, WorkOK, JobsOK, EndOK
<1> QED BY <1>1, <1>3, <1>4 DEF ServerInv

\* process_request with a free slot: counted, queued, and a worker for it.
LEMMA ServerAdmit ==
  ASSUME ServerInv, NEW r \in Requests, Admit(r)
  PROVE  ServerInv'
<1> USE DEF ServerInv, workerVars, endVars
<1>1. ServerTyped'
  BY DEF ServerTyped, Admit, RequestStates
<1>2. /\ Len(work') = Len(work) + 1
      /\ \A i \in 1..Len(work) : work'[i] = work[i]
      /\ work'[Len(work) + 1] = r
  BY DEF ServerTyped, Admit
<1>3. /\ state'[r] = "queued" /\ state[r] = "new"
      /\ \A q \in Requests \ {r} : state'[q] = state[q]
  BY DEF ServerTyped, Admit
<1>4. \A i \in 1..Len(work) : work[i] \in Requests \ {r}
  BY <1>3 DEF ServerTyped, WorkOK
<1>5. WorkOK'
  <2>1. Len(work) \in Nat
    BY DEF ServerTyped
  <2>2. \A i \in 1..Len(work)' : i \in 1..Len(work) \/ i = Len(work) + 1
    BY <1>2, <2>1
  <2> QED BY <1>2, <1>3, <1>4, <2>1, <2>2 DEF WorkOK
<1>6. JobsOK'
  BY <1>3 DEF JobsOK, Admit, Holding
<1>7. Taken' = Taken \cup {r} /\ r \notin Taken /\ Counted' = Counted \cup {r} /\ r \notin Counted
  BY <1>3 DEF Taken, Counted
<1>8. Cardinality(Taken') = Cardinality(Taken) + 1 /\ Cardinality(Counted') = Cardinality(Counted) + 1
  BY <1>7, ServerFinite, FS_AddElement
<1>9. Holding' = Holding
  BY DEF Admit, Holding
<1>10. CountsOK'
  <2>1. slots' = slots - 1 /\ active' = active + 1
    BY DEF Admit
  <2>2. Len(work) \in Nat /\ slots \in Nat
    BY DEF ServerTyped
  <2> QED BY <1>2, <1>8, <1>9, <2>1, <2>2, ServerFinite DEF CountsOK, MaxWorkers
<1>11. EndOK'
  BY DEF EndOK, Admit, ServerTyped
<1> QED BY <1>1, <1>5, <1>6, <1>10, <1>11

\* A step that changes neither the queue, the counters nor which requests and
\* workers count keeps the counts.
LEMMA CountsSame ==
  ASSUME ServerInv, UNCHANGED <<slots, active, work>>,
         Holding' = Holding, Taken' = Taken, Counted' = Counted
  PROVE  CountsOK'
  BY DEF ServerInv, CountsOK, MaxWorkers

\* process_request without one: refused, nothing counted.
LEMMA ServerRefuse ==
  ASSUME ServerInv, NEW r \in Requests, Refuse(r)
  PROVE  ServerInv'
<1> USE DEF ServerInv, workerVars, endVars
<1>1. ServerTyped'
  BY DEF ServerTyped, Refuse, RequestStates
<1>2. /\ state[r] = "new" /\ state'[r] = "refused"
      /\ \A q \in Requests \ {r} : state'[q] = state[q]
  BY DEF ServerTyped, Refuse
<1>3. WorkOK'
  BY <1>2 DEF WorkOK, Refuse, ServerTyped
<1>4. JobsOK'
  BY <1>2 DEF JobsOK, Refuse, Holding
<1>5. Holding' = Holding /\ Taken' = Taken /\ Counted' = Counted
  BY <1>2 DEF Holding, Taken, Counted, Refuse
<1>6. CountsOK'
  BY <1>5, CountsSame DEF Refuse
<1>7. EndOK'
  BY DEF EndOK, Refuse
<1> QED BY <1>1, <1>3, <1>4, <1>6, <1>7

\* A worker takes a request from the queue.
LEMMA ServerGet ==
  ASSUME ServerInv, NEW w \in Workers, Get(w)
  PROVE  ServerInv'
<1> USE DEF ServerInv, endVars
<1> DEFINE r == Head(work)
<1>0. /\ Len(work) \in Nat \ {0} /\ r = work[1] /\ r \in Requests
      /\ Len(work') = Len(work) - 1
      /\ \A i \in 1..Len(work') : work'[i] = work[i + 1] /\ i + 1 \in 1..Len(work)
  BY DEF ServerTyped, Get, Go
<1>1. ServerTyped'
  BY <1>0 DEF ServerTyped, Get, Go, RequestStates, WorkerStates
<1>2. /\ state[r] = "queued" /\ state'[r] = "handled"
      /\ \A q \in Requests \ {r} : state'[q] = state[q]
  BY <1>0 DEF ServerTyped, WorkOK, Get
<1>3. /\ worker[w] = "get" /\ worker'[w] = "busy" /\ job'[w] = r
      /\ \A v \in Workers \ {w} : worker'[v] = worker[v] /\ job'[v] = job[v]
  BY DEF ServerTyped, Get, Go
<1>4. WorkOK'
  <2>1. \A i \in 1..Len(work') : work'[i] \in Requests \ {r}
    BY <1>0 DEF ServerTyped, WorkOK
  <2>2. \A i \in 1..Len(work') : work'[i] = work[i + 1] /\ i + 1 \in 1..Len(work)
    BY <1>0
  <2>3. \A i \in 1..Len(work') : state'[work'[i]] = "queued"
    BY <1>2, <2>1, <2>2 DEF WorkOK
  <2>4. ASSUME NEW i \in 1..Len(work'), NEW j \in 1..Len(work'), work'[i] = work'[j]
        PROVE  i = j
    <3>1. i + 1 = j + 1
      BY <2>2, <2>4 DEF WorkOK
    <3> QED BY <3>1
  <2> QED BY <2>3, <2>4 DEF WorkOK
<1>5. JobsOK'
  <2>1. \A v \in Holding : job[v] # r /\ v # w
    BY <1>2, <1>3 DEF JobsOK, Holding
  <2>2. \A v \in Holding' : v = w \/ v \in Holding
    BY <1>3 DEF Holding
  <2>3. \A u, v \in Holding' : job'[u] = job'[v] => u = v
    BY <1>3, <2>1, <2>2 DEF JobsOK, Holding
  <2>4. \A v \in Workers :
          /\ worker'[v] \in {"busy", "counting"} => job'[v] \in Requests /\ state'[job'[v]] = "handled"
          /\ worker'[v] = "releasing" => job'[v] \in Requests /\ state'[job'[v]] = "uncounted"
    BY <1>0, <1>2, <1>3, <2>1 DEF JobsOK, Holding
  <2>5. \A q \in Requests : state'[q] = "uncounted" =>
          \E v \in Workers : worker'[v] = "releasing" /\ job'[v] = q
    BY <1>2, <1>3 DEF JobsOK
  <2> QED BY <2>3, <2>4, <2>5 DEF JobsOK
<1>6. CountsOK'
  <2>1. Taken' = Taken /\ Counted' = Counted
    BY <1>0, <1>2 DEF Taken, Counted
  <2>2. Holding' = Holding \cup {w} /\ w \notin Holding
    BY <1>3 DEF Holding
  <2>3. Cardinality(Holding') = Cardinality(Holding) + 1
    BY <2>2, ServerFinite, FS_AddElement
  <2>4. slots' = slots /\ active' = active /\ slots \in Nat
    BY DEF Get, ServerTyped
  <2> QED BY <1>0, <2>1, <2>3, <2>4, ServerFinite DEF CountsOK, MaxWorkers
<1>7. EndOK'
  BY <1>3 DEF EndOK, Get
<1> QED BY <1>1, <1>4, <1>5, <1>6, <1>7

\* A worker goes on without a request, or in the handler of its own.
LEMMA ServerGoes ==
  ASSUME ServerInv, NEW w \in Workers, NEW p \in WorkerStates, Go(w, p),
         UNCHANGED <<reqVars, job, endVars>>,
         \/ worker[w] \in {"get", "empty"} /\ p \in {"get", "empty", "returned"}
         \/ worker[w] = "busy" /\ p = "counting",
         p = "returned" => closing
  PROVE  ServerInv'
<1> USE DEF ServerInv, reqVars, endVars
<1>1. ServerTyped'
  BY DEF ServerTyped, Go
<1>2. worker'[w] = p /\ \A v \in Workers \ {w} : worker'[v] = worker[v]
  BY DEF ServerTyped, Go
<1>3. Holding' = Holding
  BY <1>2 DEF Holding
<1>4. JobsOK'
  <2>1. \A v \in Workers : (worker'[v] = "releasing") <=> (worker[v] = "releasing")
    BY <1>2
  <2>2. \A v \in Workers : (worker'[v] \in {"busy", "counting"}) <=> (worker[v] \in {"busy", "counting"})
    BY <1>2
  <2> QED BY <1>3, <2>1, <2>2 DEF JobsOK
<1>5. WorkOK' /\ Taken' = Taken /\ Counted' = Counted
  BY DEF WorkOK, Taken, Counted
<1>6. CountsOK'
  BY <1>3, <1>5, CountsSame
<1>7. EndOK'
  <2>1. worker[w] # "returned"
    OBVIOUS
  <2> QED BY <1>2, <2>1 DEF EndOK
<1> QED BY <1>1, <1>4, <1>5, <1>6, <1>7

\* A request is over and counted down.
LEMMA ServerCountDown ==
  ASSUME ServerInv, NEW w \in Workers, CountDown(w)
  PROVE  ServerInv'
<1> USE DEF ServerInv, endVars
<1> DEFINE r == job[w]
<1>1. /\ worker[w] = "counting" /\ worker'[w] = "releasing"
      /\ \A v \in Workers \ {w} : worker'[v] = worker[v]
  BY DEF ServerTyped, CountDown, Go
<1>2. r \in Requests /\ state[r] = "handled" /\ w \in Holding
  BY <1>1 DEF JobsOK, Holding
<1>3. state'[r] = "uncounted" /\ \A q \in Requests \ {r} : state'[q] = state[q]
  BY <1>2 DEF ServerTyped, CountDown
<1>4. ServerTyped'
  <2>1. slots' \in Nat /\ active' \in Int
    BY DEF ServerTyped, CountDown
  <2>2. state' \in [Requests -> RequestStates] /\ worker' \in [Workers -> WorkerStates]
    BY DEF ServerTyped, CountDown, Go, RequestStates, WorkerStates
  <2> QED BY <2>1, <2>2 DEF ServerTyped, CountDown
<1>5. WorkOK'
  <2>1. \A i \in 1..Len(work) : work[i] \in Requests \ {r}
    BY <1>2 DEF ServerTyped, WorkOK
  <2> QED BY <1>3, <2>1 DEF WorkOK, CountDown
<1>6. Holding' = Holding
  BY <1>1 DEF Holding
<1>7. JobsOK'
  <2>1. \A v \in Holding \ {w} : job[v] # r
    BY <1>2 DEF JobsOK
  <2>2. job' = job
    BY DEF CountDown
  <2>3. \A v \in Workers :
          /\ worker'[v] \in {"busy", "counting"} => job[v] \in Requests /\ state'[job[v]] = "handled"
          /\ worker'[v] = "releasing" => job[v] \in Requests /\ state'[job[v]] = "uncounted"
    BY <1>1, <1>2, <1>3, <2>1 DEF JobsOK, Holding
  <2>4. \A q \in Requests : state'[q] = "uncounted" =>
          \E v \in Workers : worker'[v] = "releasing" /\ job[v] = q
    BY <1>1, <1>3 DEF JobsOK
  <2> QED BY <1>6, <2>2, <2>3, <2>4 DEF JobsOK
<1>8. CountsOK'
  <2>1. Taken' = Taken
    BY <1>2, <1>3 DEF Taken
  <2>2. Counted' = Counted \ {r} /\ r \in Counted
    BY <1>2, <1>3 DEF Counted
  <2>3. Cardinality(Counted') = Cardinality(Counted) - 1
    BY <2>2, ServerFinite, FS_RemoveElement
  <2>4. UNCHANGED <<slots, work>> /\ active' = active - 1
    BY DEF CountDown
  <2> QED BY <1>6, <2>1, <2>3, <2>4 DEF CountsOK, MaxWorkers
<1>9. EndOK'
  <2>1. drain \notin {"joining", "true"}
    <3>1. Counted # {}
      BY <1>2 DEF Counted
    <3>2. Cardinality(Counted) # 0
      BY <3>1, ServerFinite, FS_EmptySet
    <3> QED BY <3>2 DEF EndOK, CountsOK
  <2> QED BY <1>1, <2>1 DEF EndOK, CountDown
<1> QED BY <1>4, <1>5, <1>7, <1>8, <1>9

\* The slot is given back.
LEMMA ServerRelease ==
  ASSUME ServerInv, NEW w \in Workers, ReleaseSlot(w)
  PROVE  ServerInv'
<1> USE DEF ServerInv, endVars
<1> DEFINE r == job[w]
<1>1. /\ worker[w] = "releasing" /\ worker'[w] = "get"
      /\ \A v \in Workers \ {w} : worker'[v] = worker[v]
  BY DEF ServerTyped, ReleaseSlot, Go
<1>2. r \in Requests /\ state[r] = "uncounted" /\ w \in Holding
  BY <1>1 DEF JobsOK, Holding
<1>3. state'[r] = "done" /\ \A q \in Requests \ {r} : state'[q] = state[q]
  BY <1>2 DEF ServerTyped, ReleaseSlot
<1>4. ServerTyped'
  <2>1. slots' \in Nat /\ active' \in Int
    BY DEF ServerTyped, ReleaseSlot
  <2>2. state' \in [Requests -> RequestStates] /\ worker' \in [Workers -> WorkerStates]
    BY DEF ServerTyped, ReleaseSlot, Go, RequestStates, WorkerStates
  <2> QED BY <2>1, <2>2 DEF ServerTyped, ReleaseSlot
<1>5. WorkOK'
  <2>1. \A i \in 1..Len(work) : work[i] \in Requests \ {r}
    BY <1>2 DEF ServerTyped, WorkOK
  <2> QED BY <1>3, <2>1 DEF WorkOK, ReleaseSlot
<1>6. Holding' = Holding \ {w}
  BY <1>1 DEF Holding
<1>7. JobsOK'
  <2>1. \A v \in Holding \ {w} : job[v] # r
    BY <1>2 DEF JobsOK
  <2>2. job' = job
    BY DEF ReleaseSlot
  <2>3. \A v \in Workers :
          /\ worker'[v] \in {"busy", "counting"} => job[v] \in Requests /\ state'[job[v]] = "handled"
          /\ worker'[v] = "releasing" => job[v] \in Requests /\ state'[job[v]] = "uncounted"
    BY <1>1, <1>2, <1>3, <2>1 DEF JobsOK, Holding
  <2>4. \A q \in Requests : state'[q] = "uncounted" =>
          \E v \in Workers : worker'[v] = "releasing" /\ job[v] = q
    BY <1>1, <1>2, <1>3 DEF JobsOK
  <2> QED BY <1>6, <2>2, <2>3, <2>4 DEF JobsOK
<1>8. CountsOK'
  <2>1. Counted' = Counted
    BY <1>2, <1>3 DEF Counted
  <2>2. Taken' = Taken \ {r} /\ r \in Taken
    BY <1>2, <1>3 DEF Taken
  <2>3. /\ Cardinality(Taken') = Cardinality(Taken) - 1
        /\ Cardinality(Holding') = Cardinality(Holding) - 1
    BY <1>2, <1>6, <2>2, ServerFinite, FS_RemoveElement
  <2>4. UNCHANGED <<active, work>> /\ slots' = slots + 1
    BY DEF ReleaseSlot
  <2>5. Len(work) \in Nat /\ slots \in Nat
    BY DEF ServerTyped
  <2> QED BY <2>1, <2>3, <2>4, <2>5, ServerFinite DEF CountsOK, MaxWorkers
<1>9. EndOK'
  BY <1>1 DEF EndOK, ReleaseSlot
<1> QED BY <1>4, <1>5, <1>7, <1>8, <1>9

\* Shutdown changes where main is and nothing else.
LEMMA ServerShutsDown ==
  ASSUME ServerInv,
         StopAccepting \/ ServerClose \/ DrainWaits \/ DrainJoins \/ DrainTimesOut
  PROVE  ServerInv'
<1> USE DEF ServerInv, reqVars, workerVars
<1>1. UNCHANGED <<reqVars, workerVars>>
  BY DEF StopAccepting, ServerClose, DrainWaits, DrainJoins, DrainTimesOut
<1>2. ServerTyped'
  BY <1>1 DEF ServerTyped, StopAccepting, ServerClose, DrainWaits, DrainJoins, DrainTimesOut
<1>3. Holding' = Holding /\ Taken' = Taken /\ Counted' = Counted
  BY <1>1 DEF Holding, Taken, Counted
<1>4. WorkOK' /\ JobsOK'
  BY <1>1, <1>3 DEF WorkOK, JobsOK
<1>5. CountsOK'
  BY <1>1, <1>3, CountsSame
<1>6. EndOK'
  BY <1>1 DEF EndOK, ServerTyped, StopAccepting, ServerClose, DrainWaits, DrainJoins, DrainTimesOut
<1> QED BY <1>2, <1>4, <1>5, <1>6

\* Every step keeps the invariant.
LEMMA ServerNext == ServerInv /\ [Next]_vars => ServerInv'
<1> SUFFICES ASSUME ServerInv, [Next]_vars PROVE ServerInv'
  OBVIOUS
<1>1. CASE UNCHANGED vars
  BY <1>1 DEF vars, reqVars, workerVars, endVars, ServerInv, ServerTyped, WorkOK, JobsOK, CountsOK,
              EndOK, Holding, Taken, Counted, MaxWorkers
<1>2. ASSUME NEW r \in Requests, Admit(r) \/ Refuse(r) PROVE ServerInv'
  BY <1>2, ServerAdmit, ServerRefuse
<1>3. ASSUME NEW w \in Workers, GetTimesOut(w) \/ LookAtClosing(w) \/ HandlerEnds(w) PROVE ServerInv'
  BY <1>3, ServerGoes DEF GetTimesOut, LookAtClosing, HandlerEnds, WorkerStates
<1>4. ASSUME NEW w \in Workers, Get(w) \/ CountDown(w) \/ ReleaseSlot(w) PROVE ServerInv'
  BY <1>4, ServerGet, ServerCountDown, ServerRelease
<1>5. CASE StopAccepting \/ ServerClose \/ DrainWaits \/ DrainJoins \/ DrainTimesOut
  BY <1>5, ServerShutsDown
<1> QED BY <1>1, <1>2, <1>3, <1>4, <1>5 DEF Next

\* What the invariant says about the counters of the server.
LEMMA ServerImplies == ServerInv => ServerConsistent
<1> SUFFICES ASSUME ServerInv PROVE ServerConsistent
  OBVIOUS
<1> USE DEF ServerInv
<1>1. Cardinality(Counted) <= Cardinality(Taken)
  <2>1. Counted \subseteq Taken
    BY DEF Counted, Taken
  <2> QED BY <2>1, ServerFinite, FS_Subset
<1>2. TypeOK
  BY <1>1, ServerFinite DEF TypeOK, ServerTyped, CountsOK, MaxWorkers
<1>3. SlotsExact
  BY ServerFinite DEF SlotsExact, CountsOK, Taken, Counted, ServerTyped, MaxWorkers
<1>4. WorkerForEach
  <2> SUFFICES ASSUME ~closing PROVE Len(work) <= Cardinality(IdleWorkers)
    BY DEF WorkerForEach, IdleWorkers
  <2>1. Workers = Holding \cup IdleWorkers /\ Holding \cap IdleWorkers = {}
    BY DEF Holding, IdleWorkers, EndOK, ServerTyped, WorkerStates
  <2>2. MaxWorkers = Cardinality(Holding) + Cardinality(IdleWorkers)
    <3>1. Cardinality(Holding \cap IdleWorkers) = 0
      BY <2>1, FS_EmptySet
    <3>2. Cardinality(Holding \cup IdleWorkers) =
            Cardinality(Holding) + Cardinality(IdleWorkers) - Cardinality(Holding \cap IdleWorkers)
      BY ServerFinite, FS_Union
    <3> QED BY <2>1, <3>1, <3>2, ServerFinite DEF MaxWorkers
  <2>3. Len(work) \in Nat /\ slots \in Nat
    BY DEF ServerTyped
  <2> QED BY <2>2, <2>3, ServerFinite DEF CountsOK
<1>5. DrainIsComplete
  <2> SUFFICES ASSUME drain = "true"
               PROVE  /\ \A r \in Requests : state[r] \in {"new", "done", "refused"}
                      /\ \A w \in Workers : worker[w] = "returned"
    BY DEF DrainIsComplete
  <2>1. \A w \in Workers : worker[w] = "returned"
    BY DEF EndOK
  <2>2. Counted = {}
    BY ServerFinite, FS_EmptySet DEF EndOK, CountsOK
  <2>3. \A r \in Requests : state[r] # "uncounted"
    BY <2>1 DEF JobsOK
  <2> QED BY <2>1, <2>2, <2>3 DEF Counted, ServerTyped, RequestStates
<1> QED BY <1>2, <1>3, <1>4, <1>5 DEF ServerConsistent

\* For every number of workers, slots and connections: a slot is taken exactly
\* for the requests that are queued or handled, every admitted request has a
\* worker that will take it, and a drain that returned True leaves no request
\* and no worker behind (server.py:52-123).
THEOREM ServerAlwaysConsistent == Spec => []ServerConsistent
<1>1. Spec => []ServerInv
  BY ServerInit, ServerNext, PTL DEF Spec
<1> QED BY <1>1, ServerImplies, PTL

-----------------------------------------------------------------------------
(***************************************************************************)
(* The file of groups (GroupStore).  While nothing has gone wrong, the     *)
(* file a save works on is its own, and groups.json is what the last       *)
(* complete save wrote.                                                    *)
(***************************************************************************)

Inodes == 1..MaxInodes
EdPlaces == {"idle", "checked", "gone", "open", "write", "rename"}
EdType == [at : EdPlaces, op : {"none", "create", "update", "delete", "remove"},
           group : Groups \cup {Nil}, ids : SUBSET Boards, fh : Inodes \cup {Nil}, alone : BOOLEAN]

GroupTyped ==
  /\ boards \subseteq Boards
  /\ groups \in GroupMaps /\ acked \in GroupMaps
  /\ ed \in [Editors -> EdType]
  /\ inode \in [Inodes -> GroupMaps \cup {Torn, Nil}]
  /\ gFile \in Inodes /\ gTmp \in Inodes \cup {Nil}
  /\ trust \in BOOLEAN

\* The two files are two files, and both exist.
FilesOK ==
  /\ gTmp # gFile /\ inode[gFile] # Nil
  /\ gTmp # Nil => inode[gTmp] # Nil

Nobody == \A p \in Editors : ~Saving(p)

\* A save that is alone has the temporary file to itself.
AloneOK ==
  /\ \A p, q \in Editors : Saving(p) /\ ed[p].alone /\ Saving(q) => p = q
  /\ \A p \in Editors : ed[p].alone /\ ed[p].at = "write" =>
       ed[p].fh = gTmp /\ gTmp # Nil /\ inode[gTmp] = Torn
  /\ \A p \in Editors : ed[p].alone /\ ed[p].at = "rename" => gTmp # Nil /\ inode[gTmp] = groups

\* What groups.json holds while it is trusted.
TrustOK ==
  /\ Nobody => acked = groups
  /\ trust /\ Nobody => inode[gFile] = groups
  /\ \A p \in Editors : trust /\ Saving(p) => ed[p].alone /\ inode[gFile] = acked

GroupInv == GroupTyped /\ FilesOK /\ AloneOK /\ TrustOK

-----------------------------------------------------------------------------
\* What the invariant says about groups.json.
LEMMA GroupImplies == GroupInv => GroupsSaved
<1> SUFFICES ASSUME GroupInv, trust
             PROVE  (Nobody => inode[gFile] = groups) /\ inode[gFile] \in {acked, groups}
  BY DEF GroupsSaved, Nobody
<1>1. CASE Nobody
  BY <1>1 DEF GroupInv, TrustOK
<1>2. CASE ~Nobody
  BY <1>2 DEF GroupInv, TrustOK, Nobody
<1> QED BY <1>1, <1>2

\* An empty file, or none, and nobody saving.
LEMMA GroupInitOK == GroupInit => GroupInv
<1> SUFFICES ASSUME GroupInit PROVE GroupInv
  OBVIOUS
<1>1. NoGroups \in GroupMaps
  BY DEF NoGroups, GroupMaps
<1>2. Idle \in EdType
  BY DEF Idle, EdType, EdPlaces
<1>3. 1 \in Inodes
  BY GroupAssumption DEF Inodes
<1> HIDE DEF NoGroups, Idle
<1>4. GroupTyped
  <2>1. inode \in [Inodes -> GroupMaps \cup {Torn, Nil}]
    BY <1>1 DEF GroupInit, Inodes
  <2>2. trust \in BOOLEAN /\ gTmp \in Inodes \cup {Nil} /\ gFile \in Inodes
    BY <1>3 DEF GroupInit
  <2> QED BY <1>1, <1>2, <2>1, <2>2 DEF GroupInit, GroupTyped
<1>5. inode[gFile] = NoGroups /\ gTmp = Nil /\ gFile = 1
  BY <1>3 DEF GroupInit, Inodes
<1>6. \A p \in Editors : ed[p].at = "idle" /\ ~Saving(p)
  BY DEF GroupInit, Idle, Saving
<1>7. FilesOK
  BY <1>1, <1>3, <1>5, GroupAssumption DEF FilesOK, Inodes
<1>8. AloneOK /\ TrustOK
  BY <1>5, <1>6 DEF AloneOK, TrustOK, Nobody, GroupInit
<1> QED BY <1>4, <1>7, <1>8 DEF GroupInv

\* A step of a request that neither was nor comes to be saving, and leaves
\* groups and files alone.
LEMMA GroupAside ==
  ASSUME GroupInv, NEW p \in Editors, NEW e \in EdType, ~Saving(p), e.at \notin {"open", "write", "rename"},
         ed' = [ed EXCEPT ![p] = e], boards' \subseteq Boards,
         UNCHANGED <<groups, gFile, gTmp, inode, acked, trust>>
  PROVE  GroupInv'
<1>1. ed'[p] = e /\ \A q \in Editors \ {p} : ed'[q] = ed[q]
  BY DEF GroupInv, GroupTyped
<1>2. GroupTyped' /\ FilesOK'
  BY DEF GroupInv, GroupTyped, FilesOK
<1>3. \A q \in Editors : Saving(q)' <=> Saving(q)
  BY <1>1 DEF Saving
<1>4. \A q \in Editors : Saving(q) => ed'[q] = ed[q]
  BY <1>1
<1>5. AloneOK'
  BY <1>3, <1>4 DEF GroupInv, AloneOK, Saving
<1>6. TrustOK'
  BY <1>3, <1>4 DEF GroupInv, TrustOK, Nobody
<1> QED BY <1>2, <1>5, <1>6 DEF GroupInv

\* A request that is not under way.
LEMMA IdleTyped == Idle \in EdType /\ Idle.at = "idle"
  BY DEF Idle, EdType, EdPlaces

\* A request arrives, or a board is deleted.
LEMMA GroupArrives ==
  ASSUME GroupInv, NEW p \in Editors, EditArrives(p) \/ BoardGoes(p)
  PROVE  GroupInv'
<1>0. ~Saving(p)
  BY DEF EditArrives, BoardGoes, Saving
<1>1. CASE EditArrives(p)
  <2>1. PICK g \in Groups, op \in {"create", "update", "delete"}, ids \in SUBSET Boards :
          ed' = [ed EXCEPT ![p] = [Idle EXCEPT !.at = "checked", !.op = op, !.group = g,
                                               !.ids = ids \cap boards]]
    BY <1>1, Zenon DEF EditArrives
  <2> DEFINE s == ids \cap boards
             e == [Idle EXCEPT !.at = "checked", !.op = op, !.group = g, !.ids = s]
  <2>2. s \in SUBSET Boards
    OBVIOUS
  <2> HIDE DEF s
  <2>3. e \in EdType /\ e.at = "checked"
    BY <2>2 DEF Idle, EdType, EdPlaces
  <2>4. ed' = [ed EXCEPT ![p] = e]
    BY <2>1 DEF s
  <2> HIDE DEF e
  <2>5. boards' \subseteq Boards /\ UNCHANGED <<groups, gFile, gTmp, inode, acked, trust>>
    BY <1>1 DEF EditArrives, GroupInv, GroupTyped
  <2> QED BY <1>0, <2>3, <2>4, <2>5, GroupAside
<1>2. CASE BoardGoes(p)
  <2>1. PICK d \in boards : boards' = boards \ {d} /\
          ed' = [ed EXCEPT ![p] = [Idle EXCEPT !.at = "gone", !.op = "remove", !.ids = {d}]]
    BY <1>2, Zenon DEF BoardGoes
  <2> DEFINE e == [Idle EXCEPT !.at = "gone", !.op = "remove", !.ids = {d}]
  <2>2. d \in Boards /\ boards' \subseteq Boards
    BY <2>1 DEF GroupInv, GroupTyped
  <2>3. e \in EdType /\ e.at = "gone"
    BY <2>2 DEF Idle, EdType, EdPlaces
  <2>4. ed' = [ed EXCEPT ![p] = e]
    BY <2>1
  <2> HIDE DEF e
  <2>5. UNCHANGED <<groups, gFile, gTmp, inode, acked, trust>>
    BY <1>2 DEF BoardGoes
  <2> QED BY <1>0, <2>2, <2>3, <2>4, <2>5, GroupAside
<1> QED BY <1>1, <1>2

\* The groups have changed and a save begins.
LEMMA GroupBegins ==
  ASSUME GroupInv, NEW p \in Editors, ~Saving(p), BeginsSave(p), groups' \in GroupMaps,
         UNCHANGED <<boards, gFile, gTmp, inode, acked>>
  PROVE  GroupInv'
<1> DEFINE lone == \A q \in Editors : ~Saving(q)
           E(q) == IF q = p THEN [ed[p] EXCEPT !.at = "open", !.alone = lone]
                   ELSE [ed[q] EXCEPT !.alone = FALSE]
<1>1. ed' = [q \in Editors |-> E(q)] /\ trust' = (trust /\ lone)
  BY Zenon DEF BeginsSave
<1>2. lone \in BOOLEAN
  BY Zenon
<1>3. ASSUME NEW q \in Editors \ {p}
      PROVE  /\ E(q) \in EdType /\ E(q).at = ed[q].at /\ E(q).alone = FALSE
  BY DEF GroupInv, GroupTyped, EdType
<1>4. E(p) \in EdType /\ E(p).at = "open" /\ E(p).alone = lone
  <2> HIDE DEF lone
  <2> QED BY <1>2 DEF GroupInv, GroupTyped, EdType, EdPlaces
<1>5. /\ \A q \in Editors : ed'[q] = E(q)
      /\ ed' \in [Editors -> EdType]
  <2> HIDE DEF E
  <2> QED BY <1>1, <1>3, <1>4
<1>6. /\ ed'[p].at = "open" /\ ed'[p].alone = lone
      /\ \A q \in Editors \ {p} : ed'[q].at = ed[q].at /\ ed'[q].alone = FALSE
  <2> HIDE DEF E
  <2> QED BY <1>3, <1>4, <1>5, Zenon
<1> HIDE DEF E
<1>7. Saving(p)' /\ \A q \in Editors \ {p} : Saving(q)' <=> Saving(q)
  BY <1>6 DEF Saving
<1>8. GroupTyped' /\ FilesOK'
  <2>1. trust' \in BOOLEAN
    BY <1>1, Zenon
  <2> QED BY <1>5, <2>1 DEF GroupInv, GroupTyped, FilesOK
<1>9. AloneOK'
  <2>1. \A q \in Editors : ed'[q].alone => q = p
    BY <1>6
  <2>2. ed'[p].alone => \A q \in Editors \ {p} : ~Saving(q)
    BY <1>6
  <2> QED BY <1>6, <1>7, <2>1, <2>2 DEF AloneOK
<1>10. TrustOK'
  <2>1. ~Nobody'
    BY <1>7 DEF Nobody
  <2>2. ASSUME trust' PROVE ed'[p].alone /\ inode[gFile] = acked /\ \A q \in Editors : Saving(q)' => q = p
    <3>1. trust /\ lone
      BY <1>1, <2>2, Zenon
    <3>2. inode[gFile] = groups /\ acked = groups
      BY <3>1 DEF GroupInv, TrustOK, Nobody
    <3> QED BY <1>6, <1>7, <3>1, <3>2
  <2> QED BY <2>1, <2>2 DEF TrustOK
<1> QED BY <1>8, <1>9, <1>10 DEF GroupInv

\* An edit under the lock.
LEMMA GroupEditLocks ==
  ASSUME GroupInv, NEW p \in Editors, EditLocks(p)
  PROVE  GroupInv'
<1>0. ~Saving(p) /\ UNCHANGED <<boards, gFile, gTmp, inode, acked>>
  BY DEF EditLocks, Saving
<1>1. CASE ~Allowed(p) /\ ed' = [ed EXCEPT ![p] = Idle] /\ UNCHANGED <<groups, gLock, trust>>
  <2>1. Idle.at \notin {"open", "write", "rename"} /\ boards' \subseteq Boards
    BY <1>0, IdleTyped DEF GroupInv, GroupTyped
  <2> QED BY <1>0, <1>1, <2>1, IdleTyped, GroupAside
<1>2. CASE groups' = Edited(p) /\ BeginsSave(p)
  <2>1. ed[p].ids \in SUBSET Boards /\ groups \in GroupMaps
    BY DEF GroupInv, GroupTyped, EdType
  <2>2. Edited(p) \in GroupMaps
    BY <2>1 DEF Edited, GroupMaps
  <2> QED BY <1>0, <1>2, <2>2, GroupBegins
<1> QED BY <1>1, <1>2, Zenon DEF EditLocks

\* A board that is deleted leaves its groups.
LEMMA GroupRemove ==
  ASSUME GroupInv, NEW p \in Editors, RemoveFromGroups(p)
  PROVE  GroupInv'
<1> DEFINE member == {g \in Groups : groups[g] # Absent /\ groups[g] \cap ed[p].ids # {}}
<1>0. /\ ~Saving(p) /\ UNCHANGED <<boards, gFile, gTmp, inode, acked>>
      /\ groups' = [g \in Groups |-> IF g \in member THEN groups[g] \ ed[p].ids ELSE groups[g]]
  BY DEF RemoveFromGroups, Saving
<1>1. groups \in GroupMaps
  BY DEF GroupInv, GroupTyped
<1>2. groups' \in GroupMaps
  BY <1>0, <1>1 DEF GroupMaps
<1>3. CASE member = {}
  <2>1. ed' = [ed EXCEPT ![p] = Idle] /\ trust' = trust
    BY <1>3 DEF RemoveFromGroups
  <2>2. groups' = groups
    BY <1>0, <1>1, <1>3 DEF GroupMaps
  <2>3. Idle.at \notin {"open", "write", "rename"} /\ boards' \subseteq Boards
    BY <1>0, IdleTyped DEF GroupInv, GroupTyped
  <2> QED BY <1>0, <2>1, <2>2, <2>3, IdleTyped, GroupAside
<1>4. CASE member # {}
  <2>1. BeginsSave(p)
    BY <1>4 DEF RemoveFromGroups
  <2> QED BY <1>0, <1>2, <2>1, GroupBegins
<1> QED BY <1>3, <1>4

\* A save opens its temporary file.
LEMMA GroupOpens ==
  ASSUME GroupInv, NEW p \in Editors, SaveOpens(p)
  PROVE  GroupInv'
<1>1. PICK i \in IF gTmp # Nil THEN {gTmp} ELSE {x \in 1..MaxInodes : inode[x] = Nil} :
        /\ gTmp' = i /\ inode' = [inode EXCEPT ![i] = Torn]
        /\ ed' = [ed EXCEPT ![p].at = "write", ![p].fh = i]
  BY Zenon DEF SaveOpens
<1>2. ed[p].at = "open" /\ UNCHANGED <<boards, groups, gFile, acked, trust>>
  BY DEF SaveOpens
<1>3. i \in Inodes /\ i # gFile /\ i # Nil
  BY <1>1, GroupAssumption DEF GroupInv, GroupTyped, FilesOK, Inodes
<1>4. inode'[i] = Torn /\ inode'[gFile] = inode[gFile] /\ inode' \in [Inodes -> GroupMaps \cup {Torn, Nil}]
  BY <1>1, <1>3 DEF GroupInv, GroupTyped
<1>5. /\ ed'[p].at = "write" /\ ed'[p].fh = i /\ ed'[p].alone = ed[p].alone
      /\ \A q \in Editors \ {p} : ed'[q] = ed[q]
  BY <1>1 DEF GroupInv, GroupTyped, EdType
<1>6. ed' \in [Editors -> EdType]
  <2> DEFINE e == [ed[p] EXCEPT !.at = "write", !.fh = i]
  <2>1. e \in EdType
    BY <1>3 DEF GroupInv, GroupTyped, EdType, EdPlaces
  <2>2. ed' = [ed EXCEPT ![p] = e]
    BY <1>1 DEF GroupInv, GroupTyped, EdType
  <2> HIDE DEF e
  <2> QED BY <2>1, <2>2 DEF GroupInv, GroupTyped
<1>7. \A q \in Editors : (Saving(q)' <=> Saving(q)) /\ ed'[q].alone = ed[q].alone
  BY <1>2, <1>5 DEF Saving
<1>8. GroupTyped' /\ FilesOK'
  BY <1>1, <1>2, <1>3, <1>4, <1>6, GroupAssumption DEF GroupInv, GroupTyped, FilesOK
<1>9. AloneOK'
  <2>1. Saving(p)
    BY <1>2 DEF Saving
  <2>2. \A q \in Editors \ {p} : Saving(q) => ~ed[q].alone
    BY <2>1 DEF GroupInv, AloneOK
  <2>3. \A q \in Editors \ {p} : ed'[q].at \in {"write", "rename"} => ~ed'[q].alone
    BY <1>5, <2>2 DEF Saving
  <2>4. \A q, r \in Editors : Saving(q)' /\ ed'[q].alone /\ Saving(r)' => q = r
    BY <1>7 DEF GroupInv, AloneOK
  <2> QED BY <1>1, <1>3, <1>4, <1>5, <2>3, <2>4 DEF AloneOK
<1>10. TrustOK'
  BY <1>2, <1>4, <1>7 DEF GroupInv, TrustOK, Nobody
<1> QED BY <1>8, <1>9, <1>10 DEF GroupInv

\* A save ends: request p is idle again, the others are where they were.
LEMMA GroupIdles ==
  ASSUME GroupInv, NEW p \in Editors, ed' = [ed EXCEPT ![p] = Idle]
  PROVE  /\ ed' \in [Editors -> EdType]
         /\ \A q \in Editors \ {p} : ed'[q] = ed[q]
         /\ ~Saving(p)' /\ ed'[p].at = "idle"
         /\ \A q \in Editors \ {p} : Saving(q)' <=> Saving(q)
<1>1. ed' \in [Editors -> EdType] /\ ed'[p] = Idle /\ \A q \in Editors \ {p} : ed'[q] = ed[q]
  BY IdleTyped DEF GroupInv, GroupTyped
<1> QED BY <1>1, IdleTyped DEF Saving

\* A save writes, or fails in the middle.
LEMMA GroupWrites ==
  ASSUME GroupInv, NEW p \in Editors, SaveWrites(p)
  PROVE  GroupInv'
<1> DEFINE i == ed[p].fh
<1>0. ed[p].at = "write" /\ Saving(p) /\ UNCHANGED <<boards, groups, gFile, gTmp>>
  BY DEF SaveWrites, Saving
<1>1. CASE /\ inode' \in {[inode EXCEPT ![i] = x] : x \in {groups} \cup IF inode[i] = Torn THEN {} ELSE {Torn}}
           /\ ed' = [ed EXCEPT ![p].at = "rename"] /\ UNCHANGED <<trust, acked>>
  <2>1. PICK x \in {groups} \cup IF inode[i] = Torn THEN {} ELSE {Torn} : inode' = [inode EXCEPT ![i] = x]
    BY <1>1, Zenon
  <2>2. x \in GroupMaps \cup {Torn} /\ x # Nil /\ (inode[i] = Torn => x = groups)
    BY GroupAssumption DEF GroupInv, GroupTyped
  <2>3. /\ ed'[p].at = "rename" /\ ed'[p].alone = ed[p].alone
        /\ \A q \in Editors \ {p} : ed'[q] = ed[q]
        /\ ed' \in [Editors -> EdType]
    BY <1>1 DEF GroupInv, GroupTyped, EdType, EdPlaces
  <2>4. \A q \in Editors : (Saving(q)' <=> Saving(q)) /\ ed'[q].alone = ed[q].alone
    BY <1>0, <2>3 DEF Saving
  <2>5. inode' \in [Inodes -> GroupMaps \cup {Torn, Nil}]
    BY <2>1, <2>2 DEF GroupInv, GroupTyped
  <2>6. \A j \in Inodes : inode'[j] = inode[j] \/ (j = i /\ inode'[j] = x)
    BY <2>1 DEF GroupInv, GroupTyped
  <2>7. GroupTyped' /\ FilesOK'
    BY <1>0, <1>1, <2>2, <2>3, <2>5, <2>6 DEF GroupInv, GroupTyped, FilesOK
  <2>8. ed[p].alone => i = gTmp /\ gTmp # Nil /\ inode[i] = Torn
    BY <1>0 DEF GroupInv, AloneOK
  <2>9. AloneOK'
    <3>1. \A q \in Editors \ {p} : Saving(q) => ~ed[q].alone
      BY <1>0 DEF GroupInv, AloneOK
    <3>2. \A q \in Editors \ {p} : ed'[q].at \in {"write", "rename"} => ~ed'[q].alone
      BY <2>3, <3>1 DEF Saving
    <3>3. ed[p].alone => inode'[gTmp] = groups
      BY <2>1, <2>2, <2>8 DEF GroupInv, GroupTyped
    <3>4. \A q, r \in Editors : Saving(q)' /\ ed'[q].alone /\ Saving(r)' => q = r
      BY <2>4 DEF GroupInv, AloneOK
    <3> QED BY <1>0, <2>3, <2>8, <3>2, <3>3, <3>4 DEF AloneOK
  <2>10. TrustOK'
    <3>1. trust => inode'[gFile] = inode[gFile]
      <4>1. trust => ed[p].alone
        BY <1>0 DEF GroupInv, TrustOK
      <4> QED BY <2>6, <2>8, <4>1 DEF GroupInv, GroupTyped, FilesOK
    <3> QED BY <1>0, <1>1, <2>4, <3>1 DEF GroupInv, TrustOK, Nobody
  <2> QED BY <2>7, <2>9, <2>10 DEF GroupInv
<1>2. CASE ed' = [ed EXCEPT ![p] = Idle] /\ trust' = FALSE /\ acked' = groups /\ UNCHANGED inode
  <2>1. GroupTyped' /\ FilesOK'
    BY <1>0, <1>2, GroupIdles DEF GroupInv, GroupTyped, FilesOK
  <2>2. AloneOK'
    BY <1>0, <1>2, GroupIdles DEF GroupInv, AloneOK
  <2>3. TrustOK'
    BY <1>0, <1>2 DEF TrustOK
  <2> QED BY <2>1, <2>2, <2>3 DEF GroupInv
<1> QED BY <1>1, <1>2, Zenon DEF SaveWrites

\* A save replaces groups.json.
LEMMA GroupRenames ==
  ASSUME GroupInv, NEW p \in Editors, SaveRenames(p)
  PROVE  GroupInv'
<1>0. /\ ed[p].at = "rename" /\ Saving(p) /\ UNCHANGED <<boards, groups>>
      /\ ed' = [ed EXCEPT ![p] = Idle] /\ acked' = groups
  BY DEF SaveRenames, Saving
<1>1. \A q \in Editors : Saving(q)' => Saving(q) /\ q # p /\ ~ed[q].alone /\ ~ed[p].alone /\ ~trust
  BY <1>0, GroupIdles DEF GroupInv, AloneOK, TrustOK
<1>2. \A q \in Editors : ed'[q].alone /\ ed'[q].at \in {"write", "rename"} => FALSE
  BY <1>0, <1>1, GroupIdles DEF Saving
<1>3. AloneOK'
  BY <1>0, <1>1, <1>2, GroupIdles DEF AloneOK
<1>4. CASE /\ gTmp # Nil /\ gFile' = gTmp /\ gTmp' = Nil
           /\ inode' = [inode EXCEPT ![gFile] = IF \E q \in Editors : ed[q].fh = gFile THEN @ ELSE Nil]
           /\ trust' = (trust \/ ed[p].alone)
  <2>1. gTmp \in Inodes /\ gTmp # gFile /\ inode'[gTmp] = inode[gTmp] /\ inode[gTmp] # Nil
        /\ inode' \in [Inodes -> GroupMaps \cup {Torn, Nil}]
    BY <1>4 DEF GroupInv, GroupTyped, FilesOK
  <2>2. trust' \in BOOLEAN /\ (trust' => ed[p].alone)
    <3>1. trust => ed[p].alone
      BY <1>0 DEF GroupInv, TrustOK
    <3> QED BY <1>4, <3>1, Zenon
  <2>3. GroupTyped'
    BY <1>0, <1>4, <2>1, <2>2, GroupIdles DEF GroupInv, GroupTyped
  <2>4. FilesOK'
    BY <1>4, <2>1 DEF FilesOK
  <2>5. ed[p].alone => inode[gTmp] = groups
    BY <1>0 DEF GroupInv, AloneOK
  <2>6. TrustOK'
    BY <1>0, <1>1, <1>4, <2>1, <2>2, <2>5 DEF TrustOK, Nobody
  <2> QED BY <1>3, <2>3, <2>4, <2>6 DEF GroupInv
<1>5. CASE gTmp = Nil /\ trust' = FALSE /\ UNCHANGED <<gFile, gTmp, inode>>
  <2>1. GroupTyped' /\ FilesOK'
    BY <1>0, <1>5, GroupIdles DEF GroupInv, GroupTyped, FilesOK
  <2>2. TrustOK'
    BY <1>0, <1>5 DEF TrustOK
  <2> QED BY <1>3, <2>1, <2>2 DEF GroupInv
<1> QED BY <1>4, <1>5, Zenon DEF SaveRenames

\* A crash, and what is read at the next start.
LEMMA GroupCrash ==
  ASSUME GroupInv, CrashGroups
  PROVE  GroupInv'
<1> DEFINE bad == inode[gFile] \in {Torn, Nil}
           loaded == IF bad THEN NoGroups ELSE inode[gFile]
<1>1. /\ ed' = [p \in Editors |-> Idle] /\ groups' = loaded /\ acked' = loaded /\ trust' = (~bad)
      /\ inode' = [i \in 1..MaxInodes |-> IF i \in {gFile, gTmp} THEN inode[i] ELSE Nil]
      /\ UNCHANGED <<boards, gFile, gTmp>>
  BY Zenon DEF CrashGroups
<1>2. NoGroups \in GroupMaps
  BY DEF NoGroups, GroupMaps
<1>3. loaded \in GroupMaps
  BY <1>2 DEF GroupInv, GroupTyped
<1>4. ed' \in [Editors -> EdType] /\ \A p \in Editors : ed'[p].at = "idle"
  BY <1>1, IdleTyped
<1>5. /\ inode' \in [Inodes -> GroupMaps \cup {Torn, Nil}] /\ inode'[gFile] = inode[gFile]
      /\ gTmp # Nil => inode'[gTmp] = inode[gTmp]
  BY <1>1 DEF GroupInv, GroupTyped, Inodes
<1>6. trust' \in BOOLEAN
  BY <1>1, Zenon
<1>7. trust' => inode'[gFile] = groups'
  BY <1>1, <1>5
<1> HIDE DEF loaded, bad
<1>8. GroupTyped'
  BY <1>1, <1>3, <1>4, <1>5, <1>6 DEF GroupInv, GroupTyped
<1>9. FilesOK'
  BY <1>1, <1>5 DEF GroupInv, FilesOK
<1>10. AloneOK' /\ TrustOK'
  BY <1>1, <1>4, <1>7 DEF AloneOK, TrustOK, Saving
<1> QED BY <1>8, <1>9, <1>10 DEF GroupInv

\* Every step keeps the invariant.
LEMMA GroupNextKeeps == GroupInv /\ [GroupNext]_groupVars => GroupInv'
<1> SUFFICES ASSUME GroupInv, [GroupNext]_groupVars PROVE GroupInv'
  OBVIOUS
<1>1. CASE UNCHANGED groupVars
  BY <1>1 DEF groupVars, GroupInv, GroupTyped, FilesOK, AloneOK, TrustOK, Nobody, Saving
<1>2. ASSUME NEW p \in Editors, \/ EditArrives(p) \/ EditLocks(p) \/ BoardGoes(p) \/ RemoveFromGroups(p)
                                \/ SaveOpens(p) \/ SaveWrites(p) \/ SaveRenames(p)
      PROVE  GroupInv'
  BY <1>2, GroupArrives, GroupEditLocks, GroupRemove, GroupOpens, GroupWrites, GroupRenames
<1>3. CASE CrashGroups
  BY <1>3, GroupCrash
<1> QED BY <1>1, <1>2, <1>3 DEF GroupNext

\* For any number of requests, groups and crashes: while no two saves have
\* overlapped and none has failed since the last save that ran alone,
\* groups.json can be read and holds what the last answered request left, or
\* what the request in progress is about to answer (groups.py:59-64, 80-120).
THEOREM GroupsAlwaysSaved == GroupSpec => []GroupsSaved
  BY GroupInitOK, GroupNextKeeps, GroupImplies, PTL DEF GroupSpec

-----------------------------------------------------------------------------
(***************************************************************************)
(* The registry of keys (KeyStore).                                        *)
(***************************************************************************)

ClerkPlaces == {"free", "keygen", "made", "listed", "delete", "unlisted", "unlink", "found"}

ClerkType == [at : ClerkPlaces, key : Keys \cup {NoKey}, board : KBoards \cup {NoKey},
              refs : SUBSET (Keys \cup {NoKey})]

KeyTyped ==
  /\ keyMem \subseteq Keys /\ keyFile \subseteq Keys /\ keyDirs \subseteq Keys
  /\ ck \in [Clerks -> ClerkType]
  /\ keyRef \in [KBoards -> Keys \cup {NoKey}]
  /\ raced \in BOOLEAN

\* A request inside a critical section holds the lock.
LockHeld ==
  \A p \in Clerks : ck[p].at \in {"keygen", "made", "listed", "unlisted"} => keyLock = p

FilesThere == keyMem \cup keyFile \subseteq keyDirs

\* What a request may rely on between its steps.  The files of a key are
\* removed without the lock: the key is then in neither list, and no other
\* request is making or removing it.
KeyInHand ==
  \A p \in Clerks :
    /\ ck[p].at = "keygen" => ck[p].key \in Keys /\ ck[p].key \notin keyDirs
    /\ ck[p].at \in {"made", "unlisted", "unlink"} => ck[p].key \in keyDirs
    /\ ck[p].at \in {"unlisted", "unlink"} => ck[p].key \notin keyMem
    /\ ck[p].at = "unlink" =>
         /\ ck[p].key \notin keyFile
         /\ \A q \in Clerks \ {p} :
              ck[q].at \in {"made", "unlisted", "unlink"} => ck[q].key # ck[p].key
    /\ ck[p].at \in {"delete", "found"} => ck[p].key \in Keys

\* Without a race, a board that refers to a key was seen by the request that
\* is to delete it, and no board refers to a key that is being removed.
BoardsSeen ==
  /\ \A d \in KBoards : keyRef[d] = NoKey \/ keyRef[d] \in keyDirs
  /\ \A p \in Clerks, d \in KBoards : keyRef[d] = ck[p].key =>
       /\ ck[p].at = "delete" => ck[p].key \in ck[p].refs
       /\ ck[p].at \notin {"unlisted", "unlink"}

\* The inductive invariant.
KeyInv == KeyTyped /\ LockHeld /\ FilesThere /\ KeyInHand /\ (~raced => BoardsSeen)

-----------------------------------------------------------------------------
\* One request changes and the others do not.
Changes(p, where, key, refs) ==
  /\ ck' \in [Clerks -> ClerkType]
  /\ \A q \in Clerks \ {p} : ck'[q] = ck[q]
  /\ ck'[p].at = where /\ ck'[p].key = key /\ ck'[p].refs = refs

\* A step of a request.
LEMMA StepChanges ==
  ASSUME KeyTyped, NEW p \in Clerks, NEW where \in ClerkPlaces, Step(p, where)
  PROVE  Changes(p, where, ck[p].key, ck[p].refs)
  BY DEF KeyTyped, ClerkType, Step, Changes

\* A request is answered.
LEMMA AnswerChanges ==
  ASSUME KeyTyped, NEW p \in Clerks, ck' = [ck EXCEPT ![p] = Free]
  PROVE  Changes(p, "free", NoKey, {})
<1>1. Free \in ClerkType /\ Free.at = "free" /\ Free.key = NoKey /\ Free.refs = {}
  BY DEF Free, ClerkType, ClerkPlaces
<1> QED BY <1>1 DEF KeyTyped, Changes

\* A request arrives.
LEMMA ArrivalChanges ==
  ASSUME KeyTyped, NEW p \in Clerks, NEW r \in ClerkType, Arrives(p, r)
  PROVE  Changes(p, r.at, r.key, r.refs)
  BY DEF KeyTyped, Changes, Arrives

\* A step of one request under which neither list, nor the files, nor the
\* boards change.
LEMMA OnlyRequest ==
  ASSUME KeyInv, NEW p \in Clerks,
         NEW where \in {"free", "delete", "found"}, NEW key \in Keys \cup {NoKey},
         NEW refs, Changes(p, where, key, refs),
         where # "free" => key \in Keys,
         where = "delete" /\ ~raced => \A d \in KBoards : keyRef[d] = key => key \in refs,
         keyLock' = keyLock \/ (keyLock = p /\ keyLock' = NoKey),
         UNCHANGED <<keyMem, keyFile, keyDirs, keyRef, raced>>
  PROVE  KeyInv'
<1>1. KeyTyped'
  BY DEF KeyInv, KeyTyped, Changes
<1>2. LockHeld'
  BY KeyAssumption DEF KeyInv, LockHeld, Changes
<1>3. FilesThere'
  BY DEF KeyInv, FilesThere
<1>4. KeyInHand'
  BY DEF KeyInv, KeyInHand, Changes
<1>5. ~raced' => BoardsSeen'
  BY DEF KeyInv, BoardsSeen, Changes
<1> QED BY <1>1, <1>2, <1>3, <1>4, <1>5 DEF KeyInv

-----------------------------------------------------------------------------

\* No key and no request.
LEMMA KeyInitHolds == KeyInit => KeyInv
<1> SUFFICES ASSUME KeyInit PROVE KeyInv
  OBVIOUS
<1>1. \A p \in Clerks : ck[p] = Free /\ ck[p].at = "free" /\ ck[p] \in ClerkType
  BY DEF KeyInit, Free, ClerkType, ClerkPlaces
<1>2. KeyTyped /\ FilesThere
  BY <1>1 DEF KeyInit, KeyTyped, FilesThere
<1>3. LockHeld /\ KeyInHand /\ BoardsSeen
  BY <1>1 DEF KeyInit, LockHeld, KeyInHand, BoardsSeen
<1> QED BY <1>2, <1>3 DEF KeyInv

\* A request for a new key.
LEMMA GenerateKeeps ==
  ASSUME KeyInv, NEW p \in Clerks, Generate(p)
  PROVE  KeyInv'
<1>1. PICK k \in Keys \ (keyMem \cup keyFile \cup keyDirs) :
        Arrives(p, [Free EXCEPT !.at = "keygen", !.key = k])
  BY DEF Generate
<1> DEFINE r == [Free EXCEPT !.at = "keygen", !.key = k]
<1>2. r \in ClerkType /\ r.at = "keygen" /\ r.key = k
  BY DEF Free, ClerkType, ClerkPlaces
<1>3. Changes(p, "keygen", k, r.refs)
  BY <1>1, <1>2, ArrivalChanges DEF KeyInv
<1>4. UNCHANGED <<keyMem, keyFile, keyDirs, keyRef, raced>> /\ keyLock = NoKey /\ keyLock' = p
  BY <1>1 DEF Arrives, Generate
<1>5. KeyTyped'
  BY <1>3, <1>4 DEF KeyInv, KeyTyped, Changes
<1>6. LockHeld'
  BY <1>3, <1>4, KeyAssumption DEF KeyInv, LockHeld, Changes
<1>7. FilesThere' /\ KeyInHand'
  BY <1>3, <1>4 DEF KeyInv, FilesThere, KeyInHand, Changes
<1>8. ~raced' => BoardsSeen'
  BY <1>3, <1>4 DEF KeyInv, BoardsSeen, Changes
<1> QED BY <1>5, <1>6, <1>7, <1>8 DEF KeyInv

\* The files of a key are made, or not.
LEMMA KeygenKeeps ==
  ASSUME KeyInv, NEW p \in Clerks, Keygen(p)
  PROVE  KeyInv'
<1>1. CASE Answer(p) /\ keyLock' = NoKey /\ UNCHANGED keyDirs
  <2>1. Changes(p, "free", NoKey, {})
    BY <1>1, AnswerChanges DEF Answer, KeyInv
  <2>2. keyLock = p
    BY DEF KeyInv, LockHeld, Keygen
  <2> QED BY <1>1, <2>1, <2>2, OnlyRequest DEF Answer, Keygen
<1>2. CASE keyDirs' = keyDirs \cup {ck[p].key} /\ Step(p, "made") /\ UNCHANGED keyLock
  <2> DEFINE k == ck[p].key
  <2>1. Changes(p, "made", k, ck[p].refs)
    BY <1>2, StepChanges DEF KeyInv, ClerkPlaces
  <2>2. UNCHANGED <<keyMem, keyFile, keyRef, raced, keyLock>> /\ keyDirs' = keyDirs \cup {k}
    BY <1>2 DEF Step, Keygen
  <2>3. k \in Keys /\ k \notin keyDirs /\ ck[p].at = "keygen" /\ keyLock = p
    BY DEF KeyInv, KeyInHand, LockHeld, Keygen
  <2>4. KeyTyped' /\ FilesThere'
    BY <2>1, <2>2, <2>3 DEF KeyInv, KeyTyped, FilesThere, Changes
  <2>5. LockHeld'
    BY <2>1, <2>2, <2>3 DEF KeyInv, LockHeld, Changes
  <2>6. KeyInHand'
    <3>1. \A q \in Clerks \ {p} : ck[q].at \notin {"keygen", "made", "listed", "unlisted"}
      BY <2>3 DEF KeyInv, LockHeld
    <3> QED BY <2>1, <2>2, <2>3, <3>1 DEF KeyInv, KeyInHand, Changes
  <2>7. ~raced' => BoardsSeen'
    BY <2>1, <2>2 DEF KeyInv, BoardsSeen, Changes
  <2> QED BY <2>4, <2>5, <2>6, <2>7 DEF KeyInv
<1> QED BY <1>1, <1>2 DEF Keygen

\* A key is listed.
LEMMA ListKeeps ==
  ASSUME KeyInv, NEW p \in Clerks, ListKey(p)
  PROVE  KeyInv'
<1> DEFINE k == ck[p].key
<1>1. Changes(p, "listed", k, ck[p].refs)
  BY StepChanges DEF KeyInv, ClerkPlaces, ListKey
<1>2. UNCHANGED <<keyFile, keyDirs, keyRef, raced, keyLock>> /\ keyMem' = keyMem \cup {k}
  BY DEF Step, ListKey
<1>3. k \in keyDirs /\ keyLock = p /\ ck[p].at = "made"
  BY DEF KeyInv, KeyInHand, LockHeld, ListKey
<1>4. KeyTyped' /\ FilesThere'
  BY <1>1, <1>2, <1>3 DEF KeyInv, KeyTyped, FilesThere, Changes
<1>5. LockHeld'
  BY <1>1, <1>2, <1>3 DEF KeyInv, LockHeld, Changes
<1>6. KeyInHand'
  <2>1. \A q \in Clerks \ {p} : /\ ck[q].at \notin {"keygen", "made", "listed", "unlisted"}
                                /\ ck[q].at = "unlink" => ck[q].key # k
    BY <1>3 DEF KeyInv, LockHeld, KeyInHand
  <2> QED BY <1>1, <1>2, <1>3, <2>1 DEF KeyInv, KeyInHand, Changes
<1>7. ~raced' => BoardsSeen'
  BY <1>1, <1>2 DEF KeyInv, BoardsSeen, Changes
<1> QED BY <1>4, <1>5, <1>6, <1>7 DEF KeyInv

\* The list with the new key is saved.
LEMMA SaveListedKeeps ==
  ASSUME KeyInv, NEW p \in Clerks, SaveListed(p)
  PROVE  KeyInv'
<1>1. Changes(p, "free", NoKey, {})
  BY AnswerChanges DEF KeyInv, SaveListed, Answer
<1>2. UNCHANGED <<keyMem, keyDirs, keyRef, raced>> /\ keyFile' \in {keyMem, keyFile}
  BY DEF SaveListed, Answer
<1>3. keyLock' = NoKey /\ keyLock = p
  BY DEF KeyInv, LockHeld, SaveListed
<1>4. KeyTyped' /\ FilesThere'
  BY <1>1, <1>2 DEF KeyInv, KeyTyped, FilesThere, Changes
<1>5. LockHeld'
  BY <1>1, <1>3 DEF KeyInv, LockHeld, Changes
<1>6. KeyInHand'
  BY <1>1, <1>2 DEF KeyInv, KeyInHand, Changes
<1>7. ~raced' => BoardsSeen'
  BY <1>1, <1>2 DEF KeyInv, BoardsSeen, Changes
<1> QED BY <1>4, <1>5, <1>6, <1>7 DEF KeyInv

\* The boards that refer to a key are collected.
LEMMA CollectKeeps ==
  ASSUME KeyInv, NEW p \in Clerks, CollectRefs(p)
  PROVE  KeyInv'
<1>1. PICK k \in Keys : Arrives(p, [Free EXCEPT !.at = "delete", !.key = k,
                                               !.refs = {keyRef[d] : d \in KBoards}])
  BY DEF CollectRefs
<1> DEFINE r == [Free EXCEPT !.at = "delete", !.key = k, !.refs = {keyRef[d] : d \in KBoards}]
<1>2. {keyRef[d] : d \in KBoards} \subseteq Keys \cup {NoKey}
  BY DEF KeyInv, KeyTyped
<1>3. r \in ClerkType /\ r.at = "delete" /\ r.key = k /\ r.refs = {keyRef[d] : d \in KBoards}
  BY <1>2 DEF Free, ClerkType, ClerkPlaces
<1>4. Changes(p, "delete", k, {keyRef[d] : d \in KBoards})
  BY <1>1, <1>3, ArrivalChanges DEF KeyInv
<1>5. UNCHANGED <<keyMem, keyFile, keyDirs, keyRef, raced, keyLock>>
  BY <1>1 DEF Arrives, CollectRefs
<1>6. \A d \in KBoards : keyRef[d] = k => k \in {keyRef[e] : e \in KBoards}
  OBVIOUS
<1> QED BY <1>4, <1>5, <1>6, OnlyRequest

\* The key is in memory and no board that was seen refers to it.
LEMMA DeleteKeeps ==
  ASSUME KeyInv, NEW p \in Clerks, Delete(p)
  PROVE  KeyInv'
<1> DEFINE k == ck[p].key
<1>1. CASE k \notin keyMem \/ k \in ck[p].refs
  <2>1. Answer(p) /\ UNCHANGED <<keyMem, keyLock, keyFile, keyDirs>>
    BY <1>1 DEF Delete
  <2>2. Changes(p, "free", NoKey, {})
    BY <2>1, AnswerChanges DEF Answer, KeyInv
  <2> QED BY <2>1, <2>2, OnlyRequest DEF Answer
<1>2. CASE k \in keyMem /\ k \notin ck[p].refs
  <2>1. Step(p, "unlisted") /\ keyMem' = keyMem \ {k} /\ keyLock = NoKey /\ keyLock' = p
        /\ UNCHANGED <<keyFile, keyDirs>> /\ ck[p].at = "delete"
    BY <1>2 DEF Delete
  <2>2. Changes(p, "unlisted", k, ck[p].refs) /\ UNCHANGED <<keyRef, raced>>
    BY <2>1, StepChanges DEF KeyInv, ClerkPlaces, Step
  <2>3. k \in keyDirs /\ \A q \in Clerks \ {p} : ck[q].at = "unlink" => ck[q].key # k
    BY <1>2 DEF KeyInv, FilesThere, KeyInHand
  <2>4. KeyTyped' /\ FilesThere'
    BY <2>1, <2>2 DEF KeyInv, KeyTyped, FilesThere, Changes
  <2>5. LockHeld'
    BY <2>1, <2>2, KeyAssumption DEF KeyInv, LockHeld, Changes
  <2>6. KeyInHand'
    BY <2>1, <2>2, <2>3 DEF KeyInv, KeyInHand, Changes
  <2>7. ~raced' => BoardsSeen'
    BY <1>2, <2>1, <2>2 DEF KeyInv, BoardsSeen, Changes
  <2> QED BY <2>4, <2>5, <2>6, <2>7 DEF KeyInv
<1> QED BY <1>1, <1>2

\* The list without the key is saved.
LEMMA SaveUnlistedKeeps ==
  ASSUME KeyInv, NEW p \in Clerks, SaveUnlisted(p)
  PROVE  KeyInv'
<1>1. keyLock = p /\ keyLock' = NoKey /\ ck[p].at = "unlisted" /\ UNCHANGED <<keyMem, keyDirs>>
  BY DEF KeyInv, LockHeld, SaveUnlisted
<1>2. CASE UNCHANGED keyFile /\ Answer(p)
  <2>1. Changes(p, "free", NoKey, {})
    BY <1>2, AnswerChanges DEF Answer, KeyInv
  <2> QED BY <1>1, <1>2, <2>1, OnlyRequest DEF Answer
<1>3. CASE keyFile' = keyMem /\ Step(p, "unlink")
  <2> DEFINE k == ck[p].key
  <2>1. Changes(p, "unlink", k, ck[p].refs) /\ UNCHANGED <<keyRef, raced>>
    BY <1>3, StepChanges DEF KeyInv, ClerkPlaces, Step
  <2>2. /\ k \in keyDirs /\ k \notin keyMem
        /\ \A q \in Clerks \ {p} : /\ ck[q].at \notin {"keygen", "made", "listed", "unlisted"}
                                   /\ ck[q].at = "unlink" => ck[q].key # k
    BY <1>1 DEF KeyInv, LockHeld, KeyInHand
  <2>3. KeyTyped' /\ FilesThere'
    BY <1>1, <1>3, <2>1 DEF KeyInv, KeyTyped, FilesThere, Changes
  <2>4. LockHeld'
    BY <1>1, <2>1 DEF KeyInv, LockHeld, Changes
  <2>5. KeyInHand'
    BY <1>1, <1>3, <2>1, <2>2 DEF KeyInv, KeyInHand, Changes
  <2>6. ~raced' => BoardsSeen'
    BY <1>1, <2>1 DEF KeyInv, BoardsSeen, Changes
  <2> QED BY <2>3, <2>4, <2>5, <2>6 DEF KeyInv
<1> QED BY <1>2, <1>3 DEF SaveUnlisted

\* The step the invariant is about: nothing lists the key whose files go.
LEMMA RemoveKeeps ==
  ASSUME KeyInv, NEW p \in Clerks, RemoveFiles(p)
  PROVE  KeyInv'
<1> DEFINE k == ck[p].key
<1>1. /\ ck[p].at = "unlink" /\ keyDirs' = keyDirs \ {k}
      /\ UNCHANGED <<keyMem, keyFile, keyLock, keyRef, raced>>
  BY DEF RemoveFiles, Answer
<1>2. Changes(p, "free", NoKey, {})
  BY AnswerChanges DEF KeyInv, RemoveFiles, Answer
<1>3. /\ k \notin keyMem \cup keyFile
      /\ \A q \in Clerks \ {p} : ck[q].at \in {"made", "unlisted", "unlink"} => ck[q].key # k
  BY <1>1 DEF KeyInv, KeyInHand
<1>4. KeyTyped' /\ FilesThere'
  BY <1>1, <1>2, <1>3 DEF KeyInv, KeyTyped, FilesThere, Changes
<1>5. LockHeld'
  BY <1>1, <1>2 DEF KeyInv, LockHeld, Changes
<1>6. KeyInHand'
  BY <1>1, <1>2, <1>3 DEF KeyInv, KeyInHand, Changes
<1>7. ~raced' => BoardsSeen'
  BY <1>1, <1>2 DEF KeyInv, BoardsSeen, Changes
<1> QED BY <1>4, <1>5, <1>6, <1>7 DEF KeyInv

\* A board is to be given a key.
LEMMA FindKeeps ==
  ASSUME KeyInv, NEW p \in Clerks, FindKey(p)
  PROVE  KeyInv'
<1>1. PICK k \in keyMem, d \in KBoards :
        Arrives(p, [Free EXCEPT !.at = "found", !.key = k, !.board = d])
  BY DEF FindKey
<1> DEFINE r == [Free EXCEPT !.at = "found", !.key = k, !.board = d]
<1>2. r \in ClerkType /\ r.at = "found" /\ r.key = k /\ k \in Keys
  BY DEF Free, ClerkType, ClerkPlaces, KeyInv, KeyTyped
<1>3. Changes(p, "found", k, r.refs)
  BY <1>1, <1>2, ArrivalChanges DEF KeyInv
<1>4. UNCHANGED <<keyMem, keyFile, keyDirs, keyRef, raced, keyLock>>
  BY <1>1 DEF Arrives, FindKey
<1> QED BY <1>2, <1>3, <1>4, OnlyRequest

\* A board refers to a key.
LEMMA ReferKeeps ==
  ASSUME KeyInv, NEW p \in Clerks, ReferToKey(p)
  PROVE  KeyInv'
<1> DEFINE k == ck[p].key
<1>1. /\ keyRef' = [keyRef EXCEPT ![ck[p].board] = k]
      /\ raced' = (raced \/ k \notin keyMem \/ \E q \in Clerks : ck[q].at = "delete" /\ ck[q].key = k)
      /\ UNCHANGED <<keyMem, keyFile, keyDirs, keyLock>> /\ ck[p].at = "found"
  BY DEF ReferToKey
<1>2. Changes(p, "free", NoKey, {})
  BY AnswerChanges DEF KeyInv, ReferToKey
<1>3. k \in Keys
  BY <1>1 DEF KeyInv, KeyInHand
<1>4. KeyTyped' /\ FilesThere'
  BY <1>1, <1>2, <1>3 DEF KeyInv, KeyTyped, FilesThere, Changes
<1>5. LockHeld'
  BY <1>1, <1>2 DEF KeyInv, LockHeld, Changes
<1>6. KeyInHand'
  BY <1>1, <1>2 DEF KeyInv, KeyInHand, Changes
<1>7. ASSUME ~raced' PROVE BoardsSeen'
  <2>1. ~raced /\ k \in keyMem /\ \A q \in Clerks : ck[q].at = "delete" => ck[q].key # k
    BY <1>1, <1>7
  <2>2. \A d \in KBoards : keyRef'[d] = k \/ keyRef'[d] = keyRef[d]
    BY <1>1 DEF KeyInv, KeyTyped
  <2>3. k \in keyDirs /\ \A q \in Clerks : ck[q].at \in {"unlisted", "unlink"} => ck[q].key # k
    BY <2>1 DEF KeyInv, FilesThere, KeyInHand
  <2> QED BY <1>1, <1>2, <2>1, <2>2, <2>3 DEF KeyInv, BoardsSeen, Changes
<1> QED BY <1>4, <1>5, <1>6, <1>7 DEF KeyInv

\* After a crash there are no requests, and memory is what the file lists.
LEMMA CrashKeeps ==
  ASSUME KeyInv, CrashKeys
  PROVE  KeyInv'
<1>1. \A p \in Clerks : ck'[p].at = "free" /\ ck'[p] \in ClerkType /\ ck'[p].key = NoKey
  BY DEF CrashKeys, Free, ClerkType, ClerkPlaces
<1>2. keyMem' = keyFile /\ UNCHANGED <<keyFile, keyDirs, keyRef, raced>>
  BY DEF CrashKeys
<1>3. ck' \in [Clerks -> ClerkType]
  BY <1>1 DEF CrashKeys
<1>4. KeyTyped' /\ FilesThere'
  BY <1>2, <1>3 DEF KeyInv, KeyTyped, FilesThere
<1>5. LockHeld' /\ KeyInHand'
  BY <1>1 DEF LockHeld, KeyInHand
<1>6. ~raced' => BoardsSeen'
  BY <1>1, <1>2 DEF KeyInv, BoardsSeen
<1> QED BY <1>4, <1>5, <1>6 DEF KeyInv

\* Every step keeps the invariant.
LEMMA KeyNextKeeps == KeyInv /\ [KeyNext]_keyVars => KeyInv'
<1> SUFFICES ASSUME KeyInv, [KeyNext]_keyVars PROVE KeyInv'
  OBVIOUS
<1>1. CASE UNCHANGED keyVars
  BY <1>1 DEF keyVars, KeyInv, KeyTyped, LockHeld, FilesThere, KeyInHand, BoardsSeen
<1>2. CASE KeyNext
  BY <1>2, GenerateKeeps, KeygenKeeps, ListKeeps, SaveListedKeeps, CollectKeeps, DeleteKeeps,
     SaveUnlistedKeeps, RemoveKeeps, FindKeeps, ReferKeeps, CrashKeeps DEF KeyNext
<1> QED BY <1>1, <1>2

\* For every number of keys, boards and requests, with requests that fail and
\* a process that crashes between any two steps: a listed key has its files,
\* and a board loses its key only to the race between keys_delete's look at
\* the references and the deletion (keys.py:49-92, 127-138,
\* handlers/keys.py:56-75, store.py:153-162).
THEOREM KeysAlwaysUsable == KeySpec => []KeysUsable
<1>1. KeyInv => KeysUsable
  BY DEF KeyInv, FilesThere, BoardsSeen, KeysUsable
<1> QED BY <1>1, KeyInitHolds, KeyNextKeeps, PTL DEF KeySpec

-----------------------------------------------------------------------------
(***************************************************************************)
(* The sessions of the assistant (AgentSessions).  First the table, the    *)
(* locks and the counters; then the histories.                             *)
(***************************************************************************)

\* The handler of a turn holds its session's lock.
Held == {"entering", "chatting", "pumping", "joining"}

\* The loop of a turn is under way.
Working == {"loop", "model", "tool", "ran", "rounded", "replied"}

\* The loop of a turn runs a tool.
InTool == {"tool", "ran"}

\* Messages.
Msg == [role : {"user", "answer", "ask", "tool"}, turn : Turns, n : Nat]

\* The turns that wait for the model.
Asking == {t \in Turns : step[t] = "model"}

\* The types.
AgentTyped ==
  /\ table \in Seq(Sessions) /\ created \subseteq Sessions
  /\ history \in [Sessions -> Seq(Msg)] /\ slice \in [Turns -> Seq(Msg)]
  /\ lock \in [Sessions -> Turns \cup {None}]
  /\ at \in [Turns -> {"new", "waiting", "done"} \cup Held]
  /\ of \in [Turns -> Sessions \cup {None}]
  /\ step \in [Turns -> {"idle", "entered", "end"} \cup Working]
  /\ todo \in [Turns -> Nat] /\ round \in [Turns -> Nat]
  /\ permits \in Nat /\ hub \subseteq Streams /\ unaudited \subseteq Turns

\* The table lists sessions that were created, each once, and not too many.
TableOK ==
  /\ Distinct(table) /\ Listed(table) \subseteq created /\ Len(table) <= MaxSessions

\* Where the handler and the loop of a turn are, together: a handler at work
\* holds its session's lock, a chat's loop runs in its handler, and only a turn
\* that trims has a shorter history in its hands.
TurnOK(t) ==
  /\ at[t] # "new" => of[t] \in Sessions
  /\ at[t] \in {"new", "waiting"} => step[t] = "idle"
  /\ at[t] \in Held => lock[of[t]] = t
  /\ at[t] = "entering" <=> step[t] = "entered"
  /\ slice[t] # <<>> => Trimming(t)
  /\ t \in Chats => at[t] \notin {"pumping", "joining"} /\ (at[t] = "chatting" <=> step[t] \in Working)
  /\ t \in Streams => at[t] # "chatting"
  /\ t \in unaudited => step[t] = "ran"
  /\ step[t] \in InTool => todo[t] > 0

\* A lock is held by a turn of its session.
LocksOK == \A s \in Sessions : lock[s] # None => of[lock[s]] = s /\ at[lock[s]] \in Held

\* Permits are those of the turns that ask, the hub has the streams that pump.
TurnCounts ==
  /\ IsFiniteSet(Asking) /\ permits = Cardinality(Asking) /\ permits <= Permits
  /\ IsFiniteSet(hub) /\ Cardinality(hub) <= StreamCap
  /\ hub = {t \in Streams : at[t] \in {"pumping", "joining"}}

\* The inductive invariant of sessions, turns and counters.
AgentInv == AgentTyped /\ TableOK /\ (\A t \in Turns : TurnOK(t)) /\ LocksOK /\ TurnCounts

\* The last question of a history is that of turn t.
LastQuestion(h, t) ==
  \E i \in 1 .. Len(h) :
    /\ h[i] = Message("user", t, 0)
    /\ \A j \in 1 .. Len(h) : j > i => h[j].role # "user"

\* The calls of an ask are answered right behind it and in order.
InPlace(h) ==
  \A i \in 1 .. Len(h) :
    /\ h[i].role = "ask" =>
         \A j \in 1 .. h[i].n : i + j <= Len(h) => h[i + j] = Message("tool", h[i].turn, h[i].n - j + 1)
    /\ h[i].role = "tool" =>
         i > 1 /\ \/ h[i - 1] = Message("ask", h[i].turn, h[i].n)
                  \/ h[i - 1] = Message("tool", h[i].turn, h[i].n + 1)

\* No ask has open calls.
Settled(h) == \A i \in 1 .. Len(h) : h[i].role = "ask" => i + h[i].n <= Len(h)

\* The asks with open calls are of turn t, which has k of them to answer.
OpenCalls(h, t, k) ==
  /\ \A i \in 1 .. Len(h) : h[i].role = "ask" /\ i + h[i].n > Len(h) => h[i].turn = t /\ i + h[i].n = Len(h) + k
  /\ h # <<>> /\ h[Len(h)] \in {Message("ask", t, k), Message("tool", t, k + 1)}

\* If no stream was cut short in a session, its history begins with a question
\* and contains the last one of the turn that holds it, only that turn works in
\* it and has calls open, and what that turn has read to trim it is still right.
SessionOK(s) ==
  s \notin cut =>
    /\ history[s] # <<>> => history[s][1].role = "user"
    /\ \A t \in Turns : of[t] = s /\ at[t] \in Held => LastQuestion(history[s], t)
    /\ \A t \in Turns : of[t] = s /\ step[t] \in Working => at[t] \in Held
    /\ InPlace(history[s])
    /\ (\A t \in Turns : of[t] = s => step[t] \notin InTool) => Settled(history[s])
    /\ \A t \in Turns : of[t] = s /\ step[t] \in InTool => OpenCalls(history[s], t, todo[t])
    /\ \A t \in Turns : of[t] = s /\ slice[t] # <<>> => slice[t] = ToTrim(history[s])

\* The inductive invariant of the histories.
HistoryInv == \A s \in Sessions : SessionOK(s)

-----------------------------------------------------------------------------
(***************************************************************************)
(* The least and the greatest element of a set of numbers.                 *)
(***************************************************************************)

\* A set of numbers has a least element.
LEMMA MinIn ==
  ASSUME NEW S, S \subseteq Nat, S # {}
  PROVE  Min(S) \in S /\ \A y \in S : Min(S) <= y
<1> DEFINE R == OpToRel(<, Nat)
<1>1. IsWellFoundedOn(R, Nat)
  BY NatLessThanWellFounded
<1>2. \A x, y \in Nat : <<x, y>> \in R <=> x < y
  BY DEF OpToRel
<1> HIDE DEF R
<1>3. PICK x \in S : \A y \in S : ~(<<y, x>> \in R)
  BY <1>1, WFMin
<1>4. ASSUME NEW y \in S PROVE x <= y
  <2>1. x \in Nat /\ y \in Nat /\ ~(y < x)
    BY <1>2, <1>3
  <2>2. QED BY <2>1
<1>5. QED BY <1>3, <1>4 DEF Min

\* A set of numbers with a bound has a greatest element.
LEMMA MaxIn ==
  ASSUME NEW n \in Nat, NEW S, S \subseteq 0 .. n, S # {}
  PROVE  Max(S) \in S /\ \A y \in S : Max(S) >= y
<1> DEFINE D == {n - x : x \in S}
<1>1. D \subseteq Nat /\ D # {}
  <2>1. \A x \in S : n - x \in Nat
    OBVIOUS
  <2>2. QED BY <2>1
<1> HIDE DEF D
<1>2. Min(D) \in D /\ \A y \in D : Min(D) <= y
  BY <1>1, MinIn
<1>3. PICK x \in S : Min(D) = n - x
  BY <1>2 DEF D
<1>4. \A y \in S : n - y \in D /\ n - x <= n - y /\ x \in 0 .. n /\ y \in 0 .. n
  BY <1>2, <1>3 DEF D
<1>5. \A y \in S : x >= y
  BY <1>4
<1>6. QED BY <1>3, <1>5 DEF Max

-----------------------------------------------------------------------------
(***************************************************************************)
(* The history of a session.                                               *)
(***************************************************************************)

\* The fields of a message.
LEMMA MsgFields ==
  ASSUME NEW m \in Msg
  PROVE  m.n \in Nat /\ m.turn \in Turns /\ m.role \in {"user", "answer", "ask", "tool"}
  BY DEF Msg

\* What is left of a history is a tail of it; if it began with a question,
\* so does the tail.
LEMMA ShortenTail ==
  ASSUME NEW h \in Seq(Msg), h # <<>>, NEW limit \in Int
  PROVE  \E p \in 1 .. Len(h) : /\ Shorten(h, limit) = SubSeq(h, p, Len(h))
                                /\ h[1].role = "user" => h[p].role = "user"
<1> DEFINE n == Len(h)
<1> DEFINE R == RoundStarts(h)
<1> DEFINE fits == {i \in R : n - i < limit}
<1>1. n \in Nat /\ n >= 1 /\ DOMAIN h = 1 .. n
  OBVIOUS
<1>2. R \subseteq 1 .. n /\ 1 \in R
  <2>1. {i \in DOMAIN h : h[i].role = "user"} \subseteq DOMAIN h
    OBVIOUS
  <2>2. QED BY <1>1, <2>1 DEF RoundStarts
<1>3. h[1].role = "user" => \A i \in R : h[i].role = "user"
  BY <1>1 DEF RoundStarts
<1>4. Shorten(h, limit) = SubSeq(h, IF fits = {} THEN Max(R) ELSE Min(fits), n)
  BY DEF Shorten
<1> HIDE DEF R
<1>5. CASE fits = {}
  <2>1. n \in Nat /\ R \subseteq 0 .. n /\ R # {}
    BY <1>1, <1>2
  <2> HIDE DEF n
  <2>2. Max(R) \in R
    BY <2>1, MaxIn
  <2>3. QED BY <1>2, <1>3, <1>4, <1>5, <2>2 DEF n
<1>6. CASE fits # {}
  <2>1. fits \subseteq Nat
    <3>1. \A i \in R : i \in Nat
      BY <1>2
    <3>2. QED BY <3>1, Zenon
  <2>2. Min(fits) \in R
    <3> HIDE DEF fits
    <3>1. Min(fits) \in fits
      BY <1>6, <2>1, MinIn
    <3>2. QED BY <3>1 DEF fits
  <2>3. QED BY <1>2, <1>3, <1>4, <1>6, <2>2
<1>7. QED BY <1>5, <1>6

\* A tail of a history, entry by entry.
LEMMA TailEntries ==
  ASSUME NEW E, NEW h \in Seq(E), NEW p \in 1 .. Len(h)
  PROVE  /\ SubSeq(h, p, Len(h)) \in Seq(E)
         /\ Len(SubSeq(h, p, Len(h))) = Len(h) - p + 1 /\ Len(h) \in Nat /\ p \in Nat
         /\ \A i \in 1 .. Len(h) - p + 1 : SubSeq(h, p, Len(h))[i] = h[p + i - 1] /\ p + i - 1 \in p .. Len(h)
         /\ \A i \in p .. Len(h) : h[i] = SubSeq(h, p, Len(h))[i - p + 1] /\ i - p + 1 \in 1 .. Len(h) - p + 1
<1> DEFINE n == Len(h)
<1> DEFINE g == SubSeq(h, p, n)
<1>1. n \in Nat /\ p \in Nat /\ p >= 1 /\ p <= n
  OBVIOUS
<1>2. g \in Seq(E)
  <2>1. \A i \in p .. n : h[i] \in E
    BY <1>1
  <2>2. QED BY <1>1, <2>1
<1>3. Len(g) = n - p + 1
  BY <1>1
<1>4. \A i \in 1 .. n - p + 1 : g[i] = h[p + i - 1]
  BY <1>1
<1> HIDE DEF g, n
<1>5. \A i \in 1 .. n - p + 1 : p + i - 1 \in p .. n
  BY <1>1
<1>6. \A i \in p .. n : i - p + 1 \in 1 .. n - p + 1 /\ p + (i - p + 1) - 1 = i
  BY <1>1
<1>7. \A i \in p .. n : h[i] = g[i - p + 1]
  BY <1>4, <1>6
<1>8. QED BY <1>1, <1>2, <1>3, <1>4, <1>5, <1>6, <1>7 DEF g, n

\* A tail that begins with a question holds the last question.
LEMMA TailKeepsQuestion ==
  ASSUME NEW h \in Seq(Msg), NEW p \in 1 .. Len(h), h[p].role = "user", NEW t \in Turns,
         LastQuestion(h, t)
  PROVE  LastQuestion(SubSeq(h, p, Len(h)), t)
<1> DEFINE g == SubSeq(h, p, Len(h))
<1>1. /\ g \in Seq(Msg) /\ Len(g) = Len(h) - p + 1 /\ Len(h) \in Nat /\ p \in Nat
      /\ \A i \in 1 .. Len(h) - p + 1 : g[i] = h[p + i - 1] /\ p + i - 1 \in p .. Len(h)
  BY TailEntries
<1> HIDE DEF g
<1>2. PICK i \in 1 .. Len(h) : h[i] = Message("user", t, 0) /\ \A j \in 1 .. Len(h) : j > i => h[j].role # "user"
  BY DEF LastQuestion
<1>3. p <= i
  BY <1>2
<1>4. i - p + 1 \in 1 .. Len(g) /\ g[i - p + 1] = h[i]
  BY <1>1, <1>3
<1>5. ASSUME NEW j \in 1 .. Len(g), j > i - p + 1 PROVE g[j].role # "user"
  <2>1. g[j] = h[p + j - 1] /\ p + j - 1 \in 1 .. Len(h) /\ p + j - 1 > i
    BY <1>1, <1>5
  <2>2. QED BY <1>2, <2>1
<1>6. LastQuestion(g, t)
  BY <1>2, <1>4, <1>5 DEF LastQuestion
<1>7. QED BY <1>6 DEF g

\* Rounds stay whole in a tail that begins with a question.
LEMMA TailInPlace ==
  ASSUME NEW h \in Seq(Msg), NEW p \in 1 .. Len(h), h[p].role = "user", InPlace(h)
  PROVE  InPlace(SubSeq(h, p, Len(h)))
<1> DEFINE g == SubSeq(h, p, Len(h))
<1>1. /\ g \in Seq(Msg) /\ Len(g) = Len(h) - p + 1 /\ Len(h) \in Nat /\ p \in Nat
      /\ \A i \in 1 .. Len(h) - p + 1 : g[i] = h[p + i - 1] /\ p + i - 1 \in p .. Len(h)
  BY TailEntries
<1> HIDE DEF g
<1>2. SUFFICES ASSUME NEW i \in 1 .. Len(g)
               PROVE  /\ g[i].role = "ask" =>
                           \A j \in 1 .. g[i].n : i + j <= Len(g) => g[i + j] = Message("tool", g[i].turn, g[i].n - j + 1)
                      /\ g[i].role = "tool" =>
                           i > 1 /\ \/ g[i - 1] = Message("ask", g[i].turn, g[i].n)
                                    \/ g[i - 1] = Message("tool", g[i].turn, g[i].n + 1)
  BY DEF InPlace, g
<1> DEFINE q == p + i - 1
<1>3. q \in 1 .. Len(h) /\ g[i] = h[q] /\ h[q].n \in Nat /\ q >= p
  <2>1. q \in 1 .. Len(h) /\ g[i] = h[q] /\ q >= p
    BY <1>1
  <2>2. h[q] \in Msg
    BY <2>1
  <2>3. QED BY <2>1, <2>2, MsgFields
<1>4. ASSUME g[i].role = "ask", NEW j \in 1 .. g[i].n, i + j <= Len(g)
      PROVE  g[i + j] = Message("tool", g[i].turn, g[i].n - j + 1)
  <2>0. g[i].n \in Nat
    BY <1>3, Zenon
  <2>1. j \in Nat /\ j >= 1 /\ i + j \in 1 .. Len(g) /\ p + (i + j) - 1 = q + j
    <3> DEFINE n == g[i].n
               l == Len(g)
    <3>1. n \in Nat /\ j \in 1 .. n /\ i + j <= l /\ l \in Nat /\ i \in 1 .. l /\ p \in Nat
      BY <1>1, <1>4, <2>0
    <3> HIDE DEF n, l
    <3>2. j \in Nat /\ j >= 1 /\ i + j \in 1 .. l /\ p + (i + j) - 1 = q + j
      BY <3>1
    <3>3. QED BY <3>2 DEF l
  <2>1a. g[i + j] = h[q + j] /\ q + j <= Len(h)
    <3>1. i + j \in 1 .. Len(h) - p + 1
      BY <1>1, <2>1
    <3>2. g[i + j] = h[p + (i + j) - 1] /\ p + (i + j) - 1 \in p .. Len(h)
      BY <1>1, <3>1, Zenon
    <3>3. g[i + j] = h[q + j] /\ q + j \in p .. Len(h)
      BY <2>1, <3>2, Zenon
    <3> HIDE DEF q
    <3>4. q + j <= Len(h)
      BY <1>1, <3>3
    <3>5. QED BY <3>3, <3>4
  <2>2. QED BY <1>3, <1>4, <2>1, <2>1a DEF InPlace
<1>5. ASSUME g[i].role = "tool"
      PROVE  i > 1 /\ \/ g[i - 1] = Message("ask", g[i].turn, g[i].n)
                      \/ g[i - 1] = Message("tool", g[i].turn, g[i].n + 1)
  <2>1. q # p
    BY <1>3, <1>5
  <2>2. i > 1 /\ i - 1 \in 1 .. Len(g) /\ g[i - 1] = h[q - 1]
    BY <1>1, <2>1
  <2>3. QED BY <1>3, <1>5, <2>2 DEF InPlace
<1>6. QED BY <1>4, <1>5

\* So do the calls that are still open, and a settled history stays settled.
LEMMA TailOpen ==
  ASSUME NEW h \in Seq(Msg), NEW p \in 1 .. Len(h)
  PROVE  /\ Settled(h) => Settled(SubSeq(h, p, Len(h)))
         /\ \A t \in Turns, k \in Nat : OpenCalls(h, t, k) => OpenCalls(SubSeq(h, p, Len(h)), t, k)
<1> DEFINE g == SubSeq(h, p, Len(h))
<1>1. /\ g \in Seq(Msg) /\ Len(g) = Len(h) - p + 1 /\ Len(h) \in Nat /\ p \in Nat
      /\ \A i \in 1 .. Len(h) - p + 1 : g[i] = h[p + i - 1] /\ p + i - 1 \in p .. Len(h)
  BY TailEntries
<1> HIDE DEF g
<1>2. ASSUME NEW i \in 1 .. Len(g) PROVE g[i] = h[p + i - 1] /\ p + i - 1 \in 1 .. Len(h) /\ g[i].n \in Nat
  <2>1. i \in 1 .. Len(h) - p + 1
    BY <1>1
  <2>2. g[i] = h[p + i - 1] /\ p + i - 1 \in p .. Len(h)
    BY <1>1, <2>1
  <2>3. p + i - 1 \in 1 .. Len(h)
    BY <1>1, <2>2
  <2>4. h[p + i - 1] \in Msg
    BY <2>3
  <2>5. QED BY <2>2, <2>3, <2>4, MsgFields
<1>3. ASSUME Settled(h) PROVE Settled(g)
  <2>1. ASSUME NEW i \in 1 .. Len(g), g[i].role = "ask" PROVE i + g[i].n <= Len(g)
    <3>1. g[i] = h[p + i - 1] /\ p + i - 1 \in 1 .. Len(h) /\ g[i].n \in Nat
      BY <1>2
    <3>2. (p + i - 1) + g[i].n <= Len(h)
      BY <1>3, <2>1, <3>1 DEF Settled
    <3>3. QED BY <1>1, <3>1, <3>2
  <2>2. QED BY <2>1 DEF Settled
<1>4. ASSUME NEW t \in Turns, NEW k \in Nat, OpenCalls(h, t, k) PROVE OpenCalls(g, t, k)
  <2>1. g # <<>> /\ g[Len(g)] = h[Len(h)]
    BY <1>1
  <2>2. ASSUME NEW i \in 1 .. Len(g), g[i].role = "ask", i + g[i].n > Len(g)
        PROVE  g[i].turn = t /\ i + g[i].n = Len(g) + k
    <3>1. g[i] = h[p + i - 1] /\ p + i - 1 \in 1 .. Len(h) /\ g[i].n \in Nat
      BY <1>2
    <3>2. h[p + i - 1].role = "ask" /\ (p + i - 1) + h[p + i - 1].n > Len(h)
      BY <1>1, <2>2, <3>1
    <3>3. h[p + i - 1].turn = t /\ (p + i - 1) + h[p + i - 1].n = Len(h) + k
      BY <1>4, <3>1, <3>2 DEF OpenCalls
    <3>4. g[i].turn = t /\ (p + i - 1) + g[i].n = Len(h) + k
      BY <3>1, <3>3, Zenon
    <3>5. Len(g) = Len(h) - p + 1 /\ Len(h) \in Nat /\ p \in Nat /\ i \in Nat /\ k \in Nat /\ g[i].n \in Nat
      BY <1>1, <3>1
    <3>6. i + g[i].n = Len(g) + k
      <4> DEFINE n == g[i].n
                 l == Len(h)
                 d == Len(g)
      <4>1. (p + i - 1) + n = l + k /\ d = l - p + 1
            /\ l \in Nat /\ p \in Nat /\ i \in Nat /\ k \in Nat /\ n \in Nat
        BY <3>4, <3>5
      <4> HIDE DEF n, l, d
      <4>2. i + n = d + k
        BY <4>1
      <4>3. QED BY <4>2 DEF n, d
    <3>7. QED BY <3>4, <3>6
  <2>3. QED BY <1>4, <2>1, <2>2 DEF OpenCalls
<1>5. QED BY <1>3, <1>4 DEF g

\* The rounds of a history after one more message that fits: it stands behind
\* nothing open, or it answers the first open call.
LEMMA AppendInPlace ==
  ASSUME NEW h \in Seq(Msg), NEW m \in Msg, InPlace(h),
         \/ Settled(h) /\ m.role # "tool"
         \/ \E t \in Turns, k \in Nat : OpenCalls(h, t, k) /\ m = Message("tool", t, k)
  PROVE  InPlace(Append(h, m))
<1> DEFINE g == Append(h, m)
<1>1. /\ Len(g) = Len(h) + 1 /\ Len(h) \in Nat /\ g[Len(h) + 1] = m
      /\ \A i \in 1 .. Len(h) : g[i] = h[i] /\ i \in 1 .. Len(h) + 1
      /\ \A i \in 1 .. Len(h) + 1 : i \in 1 .. Len(h) \/ i = Len(h) + 1
  BY AppendEntries
<1>2. \A i \in 1 .. Len(h) : h[i] \in Msg
  OBVIOUS
<1>3. \A i \in 1 .. Len(h) : h[i].n \in Nat
  BY <1>2, MsgFields
<1>4. m.n \in Nat
  BY MsgFields
<1> HIDE DEF g
<1>5. ASSUME NEW i \in 1 .. Len(g), g[i].role = "ask", NEW j \in 1 .. g[i].n, i + j <= Len(g)
      PROVE  g[i + j] = Message("tool", g[i].turn, g[i].n - j + 1)
  <2>1. i \in 1 .. Len(h) /\ g[i] = h[i] /\ h[i].n \in Nat /\ g[i].n \in Nat
    BY <1>1, <1>3, <1>4, <1>5
  <2>2. j \in Nat /\ j >= 1 /\ j <= h[i].n /\ i \in Nat
    BY <2>1
  <2>3. CASE i + j <= Len(h)
    <3>1. h[i + j] = Message("tool", h[i].turn, h[i].n - j + 1)
      BY <1>5, <2>1, <2>2, <2>3 DEF InPlace
    <3>2. g[i + j] = h[i + j]
      BY <1>1, <2>1, <2>2, <2>3
    <3>3. QED BY <2>1, <3>1, <3>2
  <2>4. CASE i + j = Len(h) + 1
    <3>1. g[i + j] = m /\ i + h[i].n > Len(h)
      BY <1>1, <2>1, <2>2, <2>4
    <3>2. ~Settled(h)
      BY <1>5, <2>1, <3>1 DEF Settled
    <3>3. PICK t \in Turns, k \in Nat : OpenCalls(h, t, k) /\ m = Message("tool", t, k)
      BY <3>2
    <3>4. h[i].turn = t /\ i + h[i].n = Len(h) + k
      BY <1>5, <2>1, <3>1, <3>3 DEF OpenCalls
    <3>5. h[i].n - j + 1 = k
      BY <1>1, <2>1, <2>2, <2>4, <3>4
    <3>6. QED BY <2>1, <3>1, <3>3, <3>4, <3>5
  <2>5. QED BY <1>1, <1>5, <2>2, <2>3, <2>4
<1>6. ASSUME NEW i \in 1 .. Len(g), g[i].role = "tool"
      PROVE  i > 1 /\ \/ g[i - 1] = Message("ask", g[i].turn, g[i].n)
                      \/ g[i - 1] = Message("tool", g[i].turn, g[i].n + 1)
  <2>1. CASE i \in 1 .. Len(h)
    <3>1. h[i].role = "tool" /\ g[i] = h[i]
      BY <1>1, <1>6, <2>1
    <3>2. i > 1 /\ \/ h[i - 1] = Message("ask", h[i].turn, h[i].n)
                   \/ h[i - 1] = Message("tool", h[i].turn, h[i].n + 1)
      BY <2>1, <3>1 DEF InPlace
    <3>3. g[i - 1] = h[i - 1]
      BY <1>1, <2>1, <3>2
    <3>4. QED BY <3>1, <3>2, <3>3
  <2>2. CASE i = Len(h) + 1
    <3>1. g[i] = m /\ m.role = "tool"
      BY <1>1, <1>6, <2>2
    <3>2. PICK t \in Turns, k \in Nat : OpenCalls(h, t, k) /\ m = Message("tool", t, k)
      BY <3>1
    <3>3. h # <<>> /\ h[Len(h)] \in {Message("ask", t, k), Message("tool", t, k + 1)} /\ m.turn = t /\ m.n = k
      BY <3>2 DEF OpenCalls, Message
    <3>4. Len(h) > 0 /\ i > 1 /\ i - 1 = Len(h) /\ g[Len(h)] = h[Len(h)]
      BY <1>1, <2>2, <3>3
    <3>5. QED BY <3>1, <3>3, <3>4
  <2>3. QED BY <1>1, <2>1, <2>2
<1>7. InPlace(g)
  BY <1>5, <1>6 DEF InPlace
<1>8. QED BY <1>7 DEF g

\* A question or an answer leaves a settled history settled.
LEMMA AppendSettled ==
  ASSUME NEW h \in Seq(Msg), NEW m \in Msg, Settled(h), m.role # "ask"
  PROVE  Settled(Append(h, m))
<1> DEFINE g == Append(h, m)
<1>1. /\ Len(g) = Len(h) + 1 /\ Len(h) \in Nat /\ g[Len(h) + 1] = m
      /\ \A i \in 1 .. Len(h) : g[i] = h[i] /\ i \in 1 .. Len(h) + 1
      /\ \A i \in 1 .. Len(h) + 1 : i \in 1 .. Len(h) \/ i = Len(h) + 1
  BY AppendEntries
<1>2. \A i \in 1 .. Len(h) : h[i] \in Msg
  OBVIOUS
<1>3. \A i \in 1 .. Len(h) : h[i].n \in Nat
  BY <1>2, MsgFields
<1> HIDE DEF g
<1>4. ASSUME NEW i \in 1 .. Len(g), g[i].role = "ask" PROVE i + g[i].n <= Len(g)
  <2>1. i \in 1 .. Len(h) /\ g[i] = h[i] /\ h[i].n \in Nat
    BY <1>1, <1>3, <1>4
  <2>2. i + h[i].n <= Len(h)
    BY <1>4, <2>1 DEF Settled
  <2>3. QED BY <1>1, <2>1, <2>2
<1>5. Settled(g)
  BY <1>4 DEF Settled
<1>6. QED BY <1>5 DEF g

\* An ask behind a settled history: its calls are the open ones.
LEMMA AppendAsk ==
  ASSUME NEW h \in Seq(Msg), Settled(h), NEW t \in Turns, NEW k \in Nat
  PROVE  OpenCalls(Append(h, Message("ask", t, k)), t, k)
<1> DEFINE m == Message("ask", t, k)
<1> DEFINE g == Append(h, m)
<1>0. m \in Msg /\ m.turn = t /\ m.n = k
  BY DEF Message, Msg
<1> HIDE DEF m
<1>1. /\ Len(g) = Len(h) + 1 /\ Len(h) \in Nat /\ g[Len(h) + 1] = m /\ g # <<>>
      /\ \A i \in 1 .. Len(h) : g[i] = h[i] /\ i \in 1 .. Len(h) + 1
      /\ \A i \in 1 .. Len(h) + 1 : i \in 1 .. Len(h) \/ i = Len(h) + 1
  BY <1>0, AppendEntries
<1>2. \A i \in 1 .. Len(h) : h[i] \in Msg
  OBVIOUS
<1>3. \A i \in 1 .. Len(h) : h[i].n \in Nat
  BY <1>2, MsgFields
<1> HIDE DEF g
<1>4. ASSUME NEW i \in 1 .. Len(g), g[i].role = "ask", i + g[i].n > Len(g)
      PROVE  g[i].turn = t /\ i + g[i].n = Len(g) + k
  <2>1. CASE i \in 1 .. Len(h)
    <3>1. g[i] = h[i] /\ h[i].n \in Nat /\ i + h[i].n <= Len(h)
      BY <1>1, <1>3, <1>4, <2>1 DEF Settled
    <3>2. QED BY <1>1, <1>4, <3>1
  <2>2. CASE i = Len(h) + 1
    BY <1>0, <1>1, <2>2
  <2>3. QED BY <1>1, <2>1, <2>2
<1>5. OpenCalls(g, t, k)
  BY <1>1, <1>4 DEF OpenCalls, m
<1>6. QED BY <1>5 DEF g, m

\* The answer of the first open call: one call less is open.
LEMMA AppendTool ==
  ASSUME NEW h \in Seq(Msg), NEW t \in Turns, NEW k \in Nat, k > 0, OpenCalls(h, t, k)
  PROVE  /\ k > 1 => OpenCalls(Append(h, Message("tool", t, k)), t, k - 1)
         /\ k = 1 => Settled(Append(h, Message("tool", t, k)))
<1> DEFINE m == Message("tool", t, k)
<1> DEFINE g == Append(h, m)
<1>0. m \in Msg /\ m.turn = t /\ m.n = k /\ m.role = "tool"
  BY DEF Message, Msg
<1> HIDE DEF m
<1>1. /\ Len(g) = Len(h) + 1 /\ Len(h) \in Nat /\ g[Len(h) + 1] = m /\ g # <<>>
      /\ \A i \in 1 .. Len(h) : g[i] = h[i] /\ i \in 1 .. Len(h) + 1
      /\ \A i \in 1 .. Len(h) + 1 : i \in 1 .. Len(h) \/ i = Len(h) + 1
  BY <1>0, AppendEntries
<1>2. \A i \in 1 .. Len(h) : h[i] \in Msg
  OBVIOUS
<1>3. \A i \in 1 .. Len(h) : h[i].n \in Nat
  BY <1>2, MsgFields
<1> HIDE DEF g
<1>4. ASSUME NEW i \in 1 .. Len(g), g[i].role = "ask", i + g[i].n > Len(g)
      PROVE  g[i].turn = t /\ i + g[i].n = Len(g) + (k - 1) /\ k > 1
  <2>1. i \in 1 .. Len(h) /\ g[i] = h[i] /\ h[i].n \in Nat
    BY <1>0, <1>1, <1>3, <1>4
  <2>2. h[i].role = "ask" /\ i + h[i].n > Len(h) + 1
    BY <1>1, <1>4, <2>1
  <2>3. h[i].turn = t /\ i + h[i].n = Len(h) + k
    BY <1>1, <2>1, <2>2 DEF OpenCalls
  <2>4. QED BY <1>1, <2>1, <2>2, <2>3
<1>5. ASSUME k > 1 PROVE OpenCalls(g, t, k - 1)
  <2>1. (k - 1) + 1 = k
    OBVIOUS
  <2>2. g[Len(g)] = Message("tool", t, (k - 1) + 1)
    BY <1>1, <2>1 DEF m
  <2>3. QED BY <1>1, <1>4, <2>2 DEF OpenCalls
<1>6. ASSUME k = 1 PROVE Settled(g)
  <2>1. ASSUME NEW i \in 1 .. Len(g), g[i].role = "ask" PROVE i + g[i].n <= Len(g)
    <3>1. ~(i + g[i].n > Len(g))
      BY <1>4, <1>6, <2>1
    <3>2. g[i].n \in Nat
      BY <1>0, <1>1, <1>3, <2>1
    <3>3. QED BY <1>1, <3>1, <3>2
  <2>2. QED BY <2>1 DEF Settled
<1>7. QED BY <1>5, <1>6 DEF g, m

\* The last question stays the last when something else is said.
LEMMA AppendKeepsQuestion ==
  ASSUME NEW h \in Seq(Msg), NEW m \in Msg, m.role # "user", NEW t \in Turns, LastQuestion(h, t)
  PROVE  LastQuestion(Append(h, m), t)
<1> DEFINE g == Append(h, m)
<1>1. /\ Len(g) = Len(h) + 1 /\ Len(h) \in Nat /\ g[Len(h) + 1] = m
      /\ \A i \in 1 .. Len(h) : g[i] = h[i] /\ i \in 1 .. Len(h) + 1
      /\ \A i \in 1 .. Len(h) + 1 : i \in 1 .. Len(h) \/ i = Len(h) + 1
  BY AppendEntries
<1> HIDE DEF g
<1>2. PICK i \in 1 .. Len(h) : h[i] = Message("user", t, 0) /\ \A j \in 1 .. Len(h) : j > i => h[j].role # "user"
  BY DEF LastQuestion
<1>3. i \in 1 .. Len(g) /\ g[i] = Message("user", t, 0)
  BY <1>1, <1>2
<1>4. \A j \in 1 .. Len(g) : j > i => g[j].role # "user"
  BY <1>1, <1>2
<1>5. LastQuestion(g, t)
  BY <1>3, <1>4 DEF LastQuestion
<1>6. QED BY <1>5 DEF g

\* A new question is the last.
LEMMA AppendQuestion ==
  ASSUME NEW h \in Seq(Msg), NEW t \in Turns
  PROVE  LastQuestion(Append(h, Message("user", t, 0)), t)
<1> DEFINE m == Message("user", t, 0)
<1> DEFINE g == Append(h, m)
<1>0. m \in Msg
  BY DEF Message, Msg
<1> HIDE DEF m
<1>1. Len(g) = Len(h) + 1 /\ Len(h) \in Nat /\ g[Len(h) + 1] = m
  BY <1>0, AppendEntries
<1> HIDE DEF g
<1>2. Len(g) \in 1 .. Len(g) /\ g[Len(g)] = m /\ \A j \in 1 .. Len(g) : ~(j > Len(g))
  BY <1>1
<1>3. LastQuestion(g, t)
  BY <1>2 DEF LastQuestion, m
<1>4. QED BY <1>3 DEF g, m

\* What trimming leaves of a history that begins with a question.
LEMMA ShortenKeeps ==
  ASSUME NEW a \in Seq(Msg), a # <<>>, a[1].role = "user", NEW limit \in Int
  PROVE  /\ Shorten(a, limit) \in Seq(Msg) /\ Shorten(a, limit) # <<>>
         /\ Shorten(a, limit)[1].role = "user"
         /\ \A t \in Turns : LastQuestion(a, t) => LastQuestion(Shorten(a, limit), t)
         /\ InPlace(a) => InPlace(Shorten(a, limit))
         /\ Settled(a) => Settled(Shorten(a, limit))
<1>1. PICK p \in 1 .. Len(a) : /\ Shorten(a, limit) = SubSeq(a, p, Len(a))
                               /\ a[1].role = "user" => a[p].role = "user"
  BY ShortenTail
<1> DEFINE g == SubSeq(a, p, Len(a))
<1>2. a[p].role = "user"
  BY <1>1
<1>3. /\ g \in Seq(Msg) /\ Len(g) = Len(a) - p + 1 /\ Len(a) \in Nat /\ p \in Nat
      /\ \A i \in 1 .. Len(a) - p + 1 : g[i] = a[p + i - 1] /\ p + i - 1 \in p .. Len(a)
  BY TailEntries
<1>4. \A t \in Turns : LastQuestion(a, t) => LastQuestion(g, t)
  BY <1>2, TailKeepsQuestion
<1>5. InPlace(a) => InPlace(g)
  BY <1>2, TailInPlace
<1>6. Settled(a) => Settled(g)
  BY TailOpen
<1> HIDE DEF g
<1>7. Len(g) >= 1 /\ g[1] = a[p] /\ g # <<>>
  BY <1>3
<1>8. QED BY <1>1, <1>2, <1>3, <1>4, <1>5, <1>6, <1>7 DEF g

\* A message behind a history that is not empty, or a question behind an empty
\* one: the history begins with a question.
LEMMA AppendHead ==
  ASSUME NEW h \in Seq(Msg), NEW m \in Msg, h # <<>> => h[1].role = "user",
         h = <<>> => m.role = "user"
  PROVE  /\ Append(h, m) \in Seq(Msg) /\ Append(h, m) # <<>> /\ Append(h, m)[1].role = "user"
         /\ h \o <<m>> = Append(h, m)
<1>1. /\ Append(h, m) \in Seq(Msg) /\ Append(h, m) # <<>>
      /\ Append(h, m)[Len(h) + 1] = m /\ Len(h) \in Nat
      /\ \A i \in 1 .. Len(h) : Append(h, m)[i] = h[i]
  BY AppendEntries
<1>2. CASE h = <<>>
  BY <1>1, <1>2
<1>3. CASE h # <<>>
  <2>1. 1 \in 1 .. Len(h)
    BY <1>3
  <2>2. QED BY <1>1, <1>3, <2>1
<1>4. h \o <<m>> = Append(h, m)
  OBVIOUS
<1>5. QED BY <1>1, <1>2, <1>3, <1>4

-----------------------------------------------------------------------------
(***************************************************************************)
(* The table of sessions.                                                  *)
(***************************************************************************)

\* The last entries of a table.
LEMMA LastListed ==
  ASSUME NEW tab \in Seq(Sessions), NEW p \in 1 .. Len(tab), Distinct(tab)
  PROVE  LET g == SubSeq(tab, p, Len(tab))
         IN  /\ g \in Seq(Sessions) /\ Len(g) = Len(tab) - p + 1
             /\ Distinct(g) /\ Listed(g) \subseteq Listed(tab)
<1> DEFINE g == SubSeq(tab, p, Len(tab))
<1>1. /\ g \in Seq(Sessions) /\ Len(g) = Len(tab) - p + 1 /\ Len(tab) \in Nat /\ p \in Nat
      /\ \A i \in 1 .. Len(tab) - p + 1 : g[i] = tab[p + i - 1] /\ p + i - 1 \in p .. Len(tab)
  BY TailEntries
<1>2. DOMAIN tab = 1 .. Len(tab) /\ DOMAIN g = 1 .. Len(g)
  BY <1>1
<1> HIDE DEF g
<1>3. Distinct(g)
  <2>1. ASSUME NEW i \in 1 .. Len(g), NEW j \in 1 .. Len(g), g[i] = g[j] PROVE i = j
    <3>1. /\ p + i - 1 \in 1 .. Len(tab) /\ p + j - 1 \in 1 .. Len(tab)
          /\ tab[p + i - 1] = tab[p + j - 1]
      BY <1>1, <2>1
    <3>2. p + i - 1 = p + j - 1
      BY <3>1 DEF Distinct
    <3>3. QED BY <1>1, <3>2
  <2>2. QED BY <2>1 DEF Distinct
<1>4. Listed(g) \subseteq Listed(tab)
  <2>1. ASSUME NEW i \in 1 .. Len(g) PROVE g[i] \in Listed(tab)
    <3>1. p + i - 1 \in 1 .. Len(tab) /\ g[i] = tab[p + i - 1]
      BY <1>1
    <3>2. QED BY <1>2, <3>1 DEF Listed
  <2>2. QED BY <1>2, <2>1 DEF Listed
<1>5. QED BY <1>1, <1>3, <1>4 DEF g

\* A session moves to the end of the table.
LEMMA MoveToEnd ==
  ASSUME NEW tab \in Seq(Sessions), Distinct(tab), NEW s \in Listed(tab)
  PROVE  /\ Append(Without(tab, {s}), s) \in Seq(Sessions) /\ Distinct(Append(Without(tab, {s}), s))
         /\ Listed(Append(Without(tab, {s}), s)) = Listed(tab)
         /\ Len(Append(Without(tab, {s}), s)) = Len(tab)
<1> DEFINE w == Without(tab, {s})
<1>1. w \in Seq(Sessions) /\ Listed(w) = Listed(tab) \ {s} /\ Distinct(w)
  BY WithoutFacts
<1>2. s \in Sessions
  BY DEF Listed
<1> HIDE DEF w
<1>3. /\ Append(w, s) \in Seq(Sessions) /\ Len(Append(w, s)) = Len(w) + 1
      /\ Distinct(Append(w, s)) /\ Listed(Append(w, s)) = Listed(w) \cup {s}
  BY <1>1, <1>2, AppendListed
<1>4. Listed(Append(w, s)) = Listed(tab)
  BY <1>1, <1>3
<1>5. Cardinality(Listed(tab)) = Len(tab) /\ Cardinality(Listed(Append(w, s))) = Len(Append(w, s))
  BY <1>3, DistinctCount
<1>6. QED BY <1>3, <1>4, <1>5 DEF w

\* So is the table after _touch.
LEMMA TouchedFacts ==
  ASSUME NEW tab \in Seq(Sessions), Distinct(tab), NEW s
  PROVE  /\ Touched(tab, s) \in Seq(Sessions) /\ Distinct(Touched(tab, s))
         /\ Listed(Touched(tab, s)) = Listed(tab) /\ Len(Touched(tab, s)) = Len(tab)
<1>1. CASE s \in Listed(tab)
  BY <1>1, MoveToEnd DEF Touched
<1>2. CASE s \notin Listed(tab)
  BY <1>2 DEF Touched
<1>3. QED BY <1>1, <1>2

\* The table after the sweep.
LEMMA SweptFacts ==
  ASSUME AgentInv
  PROVE  /\ Swept \in Seq(Sessions) /\ Distinct(Swept) /\ Listed(Swept) \subseteq Listed(table)
         /\ Len(Swept) <= Len(table) /\ Len(Swept) <= MaxSessions /\ Len(Swept) \in Nat
<1>1. table \in Seq(Sessions) /\ Distinct(table) /\ Len(table) <= MaxSessions /\ Len(table) \in Nat
  BY DEF AgentInv, AgentTyped, TableOK
<1>2. /\ Swept \in Seq(Sessions) /\ Len(Swept) <= Len(table) /\ Listed(Swept) = Listed(table) \ aged
      /\ Distinct(Swept)
  BY <1>1, WithoutFacts DEF Swept
<1>3. QED BY <1>1, <1>2, AgentAssumption

-----------------------------------------------------------------------------
(***************************************************************************)
(* Turns, locks and counters.                                              *)
(***************************************************************************)

\* The variables of turns.
turnVars == <<slice, lock, at, of, step, round, todo, permits, hub, unaudited>>

\* The table alone changes.
LEMMA TableMoves ==
  ASSUME AgentInv, UNCHANGED turnVars, UNCHANGED history,
         table' \in Seq(Sessions), created' \subseteq Sessions,
         Distinct(table'), Listed(table') \subseteq created', Len(table') <= MaxSessions
  PROVE  AgentInv'
<1>1. AgentTyped'
  BY DEF AgentInv, AgentTyped, turnVars
<1>2. TableOK'
  BY DEF TableOK
<1>3. (\A t \in Turns : TurnOK(t))' /\ LocksOK' /\ TurnCounts'
  BY DEF AgentInv, TurnOK, Trimming, LocksOK, TurnCounts, Asking, turnVars
<1>4. QED BY <1>1, <1>2, <1>3 DEF AgentInv

\* Turn t alone moves, in its session s; what it does with the lock of s is
\* its business if the lock is free or its own.
LEMMA TurnMoves ==
  ASSUME AgentInv, NEW t \in Turns, AgentTyped', TableOK', TurnOK(t)', TurnCounts',
         \A u \in Turns \ {t} : /\ at'[u] = at[u] /\ step'[u] = step[u] /\ of'[u] = of[u]
                                /\ todo'[u] = todo[u] /\ (u \in unaudited' => u \in unaudited)
                                /\ slice'[u] = slice[u],
         of'[t] = of[t] \/ at[t] \notin Held,
         \A s \in Sessions : lock'[s] = lock[s] \/ (s = of'[t] /\ lock[s] \in {None, t} /\ lock'[s] \in {None, t}),
         \A s \in Sessions : lock'[s] = t => s = of'[t] /\ at'[t] \in Held
  PROVE  AgentInv'
<1>1. ASSUME NEW u \in Turns PROVE TurnOK(u)'
  <2>1. CASE u = t
    BY <2>1
  <2>2. CASE u # t
    <3>1. TurnOK(u) /\ AgentTyped
      BY DEF AgentInv
    <3>2. /\ at'[u] = at[u] /\ step'[u] = step[u] /\ of'[u] = of[u]
          /\ todo'[u] = todo[u] /\ (u \in unaudited' => u \in unaudited)
          /\ slice'[u] = slice[u]
      BY <2>2
    <3>3. ASSUME at[u] \in Held PROVE lock'[of[u]] = u
      <4>1. of[u] \in Sessions /\ lock[of[u]] = u
        BY <3>1, <3>3 DEF TurnOK, Held
      <4>2. u # None
        BY AgentAssumption
      <4>3. QED BY <2>2, <4>1, <4>2
    <3>4. QED BY <3>1, <3>2, <3>3 DEF TurnOK, Trimming
  <2>3. QED BY <2>1, <2>2
<1>2. LocksOK'
  <2>1. SUFFICES ASSUME NEW s \in Sessions, lock'[s] # None
                 PROVE  of'[lock'[s]] = s /\ at'[lock'[s]] \in Held
    BY DEF LocksOK, Held
  <2>2. CASE lock'[s] = t
    BY <2>2
  <2>3. CASE lock'[s] # t
    <3>1. lock'[s] = lock[s] /\ lock[s] \in Turns \ {t}
      BY <2>1, <2>3 DEF AgentInv, AgentTyped
    <3>2. of[lock[s]] = s /\ at[lock[s]] \in Held
      BY <2>1, <3>1 DEF AgentInv, LocksOK
    <3>3. QED BY <3>1, <3>2
  <2>4. QED BY <2>2, <2>3
<1>3. QED BY <1>1, <1>2 DEF AgentInv

\* The permits after a step that does not change who is at the model service.
LEMMA SamePermits ==
  ASSUME AgentInv, permits' = permits, NEW t \in Turns, step[t] # "model", step'[t] # "model",
         \A u \in Turns \ {t} : step'[u] = step[u]
  PROVE  Asking' = Asking /\ IsFiniteSet(Asking') /\ permits' = Cardinality(Asking') /\ permits' <= Permits
<1>1. Asking' = Asking
  BY DEF Asking
<1>2. QED BY <1>1 DEF AgentInv, TurnCounts

\* The hub after a step that does not change who is in the handler of a stream.
LEMMA SameHub ==
  ASSUME AgentInv, hub' = hub, NEW t \in Turns,
         t \in Streams => (at'[t] \in {"pumping", "joining"} <=> at[t] \in {"pumping", "joining"}),
         \A u \in Turns \ {t} : at'[u] = at[u]
  PROVE  /\ IsFiniteSet(hub') /\ Cardinality(hub') <= StreamCap
         /\ hub' = {u \in Streams : at'[u] \in {"pumping", "joining"}}
<1>1. \A u \in Streams : u \in Turns
  BY DEF Turns
<1>2. \A u \in Streams : at'[u] \in {"pumping", "joining"} <=> at[u] \in {"pumping", "joining"}
  BY <1>1
<1>3. {u \in Streams : at'[u] \in {"pumping", "joining"}} = {u \in Streams : at[u] \in {"pumping", "joining"}}
  BY <1>2, Zenon
<1>4. QED BY <1>3 DEF AgentInv, TurnCounts

\* The loop of turn t goes on or ends, whatever it does to the history and to
\* the permits.
LEMMA LoopMoves ==
  ASSUME AgentInv, NEW t \in Turns, step[t] \in Working,
         LoopEnds(t) \/ \E w \in Working : LoopAt(t, w) /\ (w \in InTool => todo'[t] > 0),
         UNCHANGED <<of, hub, slice>>, slice[t] = <<>>, AgentTyped', TableOK',
         IsFiniteSet(Asking'), permits' = Cardinality(Asking'), permits' <= Permits,
         \A u \in Turns \ {t} : todo'[u] = todo[u] /\ (u \in unaudited' => u \in unaudited),
         t \in unaudited' => step'[t] = "ran"
  PROVE  AgentInv' /\ \A u \in Turns \ {t} : step'[u] = step[u] /\ at'[u] = at[u]
<1>0. AgentTyped /\ TurnOK(t) /\ LocksOK /\ TurnCounts
  BY DEF AgentInv
<1>1. of[t] \in Sessions /\ of'[t] = of[t]
  BY <1>0 DEF TurnOK, Working
<1>2. CASE LoopEnds(t)
  <2>1. step'[t] = "end" /\ \A u \in Turns \ {t} : step'[u] = step[u]
    BY <1>0, <1>2 DEF LoopEnds, AgentTyped
  <2>2. CASE t \in Chats
    <3>1. /\ at'[t] = "done" /\ lock'[of[t]] = None /\ \A u \in Turns \ {t} : at'[u] = at[u]
          /\ \A s \in Sessions \ {of[t]} : lock'[s] = lock[s]
      BY <1>0, <1>1, <1>2, <2>2 DEF LoopEnds, AgentTyped
    <3>2. at[t] = "chatting" /\ lock[of[t]] = t
      BY <1>0, <2>2 DEF TurnOK, Held
    <3>3. TurnOK(t)'
      BY <1>1, <2>1, <2>2, <3>1, AgentAssumption DEF TurnOK, Held, Working, InTool
    <3>4. /\ IsFiniteSet(hub') /\ Cardinality(hub') <= StreamCap
          /\ hub' = {u \in Streams : at'[u] \in {"pumping", "joining"}}
      BY <2>2, <3>1, SameHub, AgentAssumption
    <3>5. TurnCounts'
      BY <3>4 DEF TurnCounts
    <3>6. \A s \in Sessions : lock'[s] = t => s = of'[t] /\ at'[t] \in Held
      <4>1. ASSUME NEW s \in Sessions, lock'[s] = t PROVE FALSE
        <5>1. s # of[t]
          BY <3>1, <4>1, AgentAssumption
        <5>2. lock[s] = t
          BY <3>1, <4>1, <5>1
        <5>3. QED BY <1>0, <5>1, <5>2, AgentAssumption DEF LocksOK
      <4>2. QED BY <4>1
    <3>7. \A s \in Sessions : lock'[s] = lock[s] \/ (s = of'[t] /\ lock[s] \in {None, t} /\ lock'[s] \in {None, t})
      BY <1>1, <3>1, <3>2
    <3>8. QED BY <1>1, <2>1, <3>1, <3>3, <3>5, <3>6, <3>7, TurnMoves
  <2>3. CASE t \notin Chats
    <3>1. at' = at /\ lock' = lock
      BY <1>2, <2>3 DEF LoopEnds
    <3>2. TurnOK(t)'
      BY <1>0, <1>1, <2>1, <2>3, <3>1 DEF TurnOK, InTool, Working
    <3>3. TurnCounts'
      BY <1>0, <3>1 DEF TurnCounts
    <3>4. \A s \in Sessions : lock'[s] = t => s = of'[t] /\ at'[t] \in Held
      BY <1>0, <1>1, <3>1, AgentAssumption DEF LocksOK
    <3>5. QED BY <1>1, <2>1, <3>1, <3>2, <3>3, <3>4, TurnMoves
  <2>4. QED BY <2>2, <2>3
<1>3. CASE \E w \in Working : LoopAt(t, w) /\ (w \in InTool => todo'[t] > 0)
  <2>1. PICK w \in Working : LoopAt(t, w) /\ (w \in InTool => todo'[t] > 0)
    BY <1>3
  <2>2. step'[t] = w /\ (\A u \in Turns \ {t} : step'[u] = step[u]) /\ at' = at /\ lock' = lock
    BY <1>0, <2>1 DEF LoopAt, AgentTyped
  <2>3. TurnOK(t)'
    BY <1>0, <1>1, <2>1, <2>2 DEF TurnOK, InTool, Working
  <2>4. TurnCounts'
    BY <1>0, <2>2 DEF TurnCounts
  <2>5. \A s \in Sessions : lock'[s] = t => s = of'[t] /\ at'[t] \in Held
    BY <1>0, <1>1, <2>2, AgentAssumption DEF LocksOK
  <2>6. QED BY <1>1, <2>2, <2>3, <2>4, <2>5, TurnMoves
<1>4. QED BY <1>2, <1>3

-----------------------------------------------------------------------------
\* The history and the table are as they should be after a step that hands
\* out no id.
Stored ==
  /\ history' \in [Sessions -> Seq(Msg)] /\ table' \in Seq(Sessions)
  /\ Distinct(table') /\ Listed(table') \subseteq created /\ Len(table') <= MaxSessions

\* What a turn does to the history and the table.
LEMMA StoredMoves ==
  ASSUME AgentInv, NEW t \in Turns, of[t] \in Sessions, NEW m \in Msg, KeepHistory \/ Put(t, m)
  PROVE  Stored
<1>0. /\ history \in [Sessions -> Seq(Msg)] /\ table \in Seq(Sessions) /\ Distinct(table)
      /\ Listed(table) \subseteq created /\ Len(table) <= MaxSessions
  BY DEF AgentInv, AgentTyped, TableOK
<1>1. CASE KeepHistory
  BY <1>0, <1>1 DEF KeepHistory, Stored
<1>2. CASE Put(t, m)
  <2>1. Append(history[of[t]], m) \in Seq(Msg)
    BY <1>0
  <2>2. history' = [history EXCEPT ![of[t]] = Append(history[of[t]], m)] /\ table' = table
    BY <1>2 DEF Put
  <2>3. QED BY <1>0, <2>1, <2>2 DEF Stored
<1>3. QED BY <1>1, <1>2

\* The types after a step of a turn.
LEMMA TypedMoves ==
  ASSUME AgentInv, Stored, created' = created, slice' \in [Turns -> Seq(Msg)],
         lock' \in [Sessions -> Turns \cup {None}],
         at' \in [Turns -> {"new", "waiting", "done"} \cup Held],
         of' \in [Turns -> Sessions \cup {None}],
         step' \in [Turns -> {"idle", "entered", "end"} \cup Working],
         todo' \in [Turns -> Nat], round' \in [Turns -> Nat],
         permits' \in Nat, hub' \subseteq Streams, unaudited' \subseteq Turns
  PROVE  AgentTyped' /\ TableOK'
  BY DEF AgentInv, AgentTyped, TableOK, Stored

\* The loop's places after it goes on or ends.
LEMMA LoopTyped ==
  ASSUME AgentInv, NEW t \in Turns,
         LoopEnds(t) \/ \E w \in Working : LoopAt(t, w)
  PROVE  /\ lock' \in [Sessions -> Turns \cup {None}]
         /\ at' \in [Turns -> {"new", "waiting", "done"} \cup Held]
         /\ step' \in [Turns -> {"idle", "entered", "end"} \cup Working]
<1>1. /\ lock \in [Sessions -> Turns \cup {None}]
      /\ at \in [Turns -> {"new", "waiting", "done"} \cup Held]
      /\ step \in [Turns -> {"idle", "entered", "end"} \cup Working]
  BY DEF AgentInv, AgentTyped
<1>2. CASE LoopEnds(t)
  BY <1>1, <1>2 DEF LoopEnds
<1>3. CASE \E w \in Working : LoopAt(t, w)
  BY <1>1, <1>3 DEF LoopAt
<1>4. QED BY <1>2, <1>3

\* The permit of a turn that asks, and of one that is answered.
LEMMA PermitTaken ==
  ASSUME AgentInv, NEW t \in Turns, step[t] # "model", LoopAt(t, "model"),
         permits < Permits, permits' = permits + 1
  PROVE  IsFiniteSet(Asking') /\ permits' = Cardinality(Asking') /\ permits' <= Permits /\ permits' \in Nat
<1>1. step \in [Turns -> {"idle", "entered", "end"} \cup Working] /\ permits \in Nat
  BY DEF AgentInv, AgentTyped
<1>2. Asking' = Asking \cup {t} /\ t \notin Asking
  BY <1>1 DEF Asking, LoopAt
<1>3. IsFiniteSet(Asking) /\ permits = Cardinality(Asking)
  BY DEF AgentInv, TurnCounts
<1>4. IsFiniteSet(Asking') /\ Cardinality(Asking') = Cardinality(Asking) + 1
  BY <1>2, <1>3, FS_AddElement
<1>5. Permits \in Nat
  BY AgentAssumption
<1>6. QED BY <1>1, <1>3, <1>4, <1>5

\* A permit is given back.
LEMMA PermitReturned ==
  ASSUME AgentInv, NEW t \in Turns, step[t] = "model", permits' = permits - 1,
         LoopEnds(t) \/ LoopAt(t, "tool") \/ LoopAt(t, "replied")
  PROVE  IsFiniteSet(Asking') /\ permits' = Cardinality(Asking') /\ permits' <= Permits /\ permits' \in Nat
<1>1. step \in [Turns -> {"idle", "entered", "end"} \cup Working] /\ permits \in Nat
  BY DEF AgentInv, AgentTyped
<1>2. Asking' = Asking \ {t} /\ t \in Asking
  BY <1>1 DEF Asking, LoopAt, LoopEnds
<1>3. IsFiniteSet(Asking) /\ permits = Cardinality(Asking) /\ permits <= Permits
  BY DEF AgentInv, TurnCounts
<1>4. IsFiniteSet(Asking') /\ Cardinality(Asking') = Cardinality(Asking) - 1
  BY <1>2, <1>3, FS_RemoveElement
<1>5. Permits \in Nat /\ Cardinality(Asking') \in Nat
  BY <1>4, AgentAssumption, FS_CardinalityType
<1>6. QED BY <1>1, <1>3, <1>4, <1>5

\* A loop that is not trimming has read no shorter history.
LEMMA NoSlice ==
  ASSUME AgentInv, NEW t \in Turns, ~Trimming(t)
  PROVE  slice[t] = <<>>
  BY DEF AgentInv, TurnOK

\* Ask keeps the invariant.
LEMMA AgentAsk ==
  ASSUME AgentInv, NEW t \in Turns, Ask(t)
  PROVE  AgentInv'
<1> DEFINE m == Message("answer", t, 0)
<1>0. /\ AgentTyped /\ TurnOK(t) /\ step[t] = "loop" /\ m \in Msg
      /\ UNCHANGED <<created, slice, of, round, todo, hub, unaudited, cut>>
  BY DEF AgentInv, Ask, Message, Msg
<1>1. of[t] \in Sessions /\ t \notin unaudited /\ slice[t] = <<>>
  BY <1>0, NoSlice DEF TurnOK, Trimming
<1> HIDE DEF m
<1>2. /\ KeepHistory \/ Put(t, m)
      /\ LoopEnds(t) \/ LoopAt(t, "model") \/ LoopAt(t, "replied")
  BY DEF Ask, m
<1>3. LoopEnds(t) \/ \E w \in Working : LoopAt(t, w)
  BY <1>2 DEF Working
<1>4. Stored
  BY <1>0, <1>1, <1>2, StoredMoves
<1>5. IsFiniteSet(Asking') /\ permits' = Cardinality(Asking') /\ permits' <= Permits /\ permits' \in Nat
  <2>1. CASE (LoopEnds(t) \/ LoopAt(t, "replied")) /\ permits' = permits
    <3>1. step'[t] # "model" /\ \A u \in Turns \ {t} : step'[u] = step[u]
      BY <1>0, <2>1 DEF LoopEnds, LoopAt, AgentTyped
    <3>2. permits' \in Nat
      BY <1>0, <2>1 DEF AgentTyped
    <3>3. step[t] # "model"
      BY <1>0
    <3>4. QED BY <2>1, <3>1, <3>2, <3>3, SamePermits
  <2>2. CASE LoopAt(t, "model") /\ permits < Permits /\ permits' = permits + 1
    BY <1>0, <2>2, PermitTaken
  <2>3. QED BY <2>1, <2>2 DEF Ask
<1>6. AgentTyped' /\ TableOK'
  <2>1. /\ of' \in [Turns -> Sessions \cup {None}] /\ todo' \in [Turns -> Nat] /\ round' \in [Turns -> Nat]
        /\ hub' \subseteq Streams /\ unaudited' \subseteq Turns /\ slice' \in [Turns -> Seq(Msg)]
    BY <1>0 DEF AgentTyped
  <2>2. QED BY <1>0, <1>3, <1>4, <1>5, <2>1, LoopTyped, TypedMoves
<1>7. LoopEnds(t) \/ \E w \in Working : LoopAt(t, w) /\ (w \in InTool => todo'[t] > 0)
  BY <1>2 DEF Working, InTool
<1>8. step[t] \in Working /\ (t \in unaudited' => step'[t] = "ran")
  BY <1>0, <1>1 DEF Working
<1>9. QED BY <1>0, <1>1, <1>5, <1>6, <1>7, <1>8, LoopMoves

\* A worker that gives up keeps the invariant.
LEMMA AgentGivesUp ==
  ASSUME AgentInv, NEW t \in Turns, WorkerGivesUp(t)
  PROVE  AgentInv'
<1> DEFINE m == Message("answer", t, 0)
<1>0. /\ AgentTyped /\ TurnOK(t) /\ step[t] = "loop" /\ m \in Msg /\ KeepHistory /\ LoopEnds(t)
      /\ UNCHANGED <<created, slice, of, round, todo, permits, hub, unaudited, cut>>
  BY DEF AgentInv, WorkerGivesUp, Message, Msg
<1>1. of[t] \in Sessions /\ t \notin unaudited /\ slice[t] = <<>>
  BY <1>0, NoSlice DEF TurnOK, Trimming
<1> HIDE DEF m
<1>2. Stored
  BY <1>0, <1>1, StoredMoves
<1>3. /\ step'[t] # "model" /\ step[t] # "model" /\ step[t] \in Working
      /\ \A u \in Turns \ {t} : step'[u] = step[u]
  BY <1>0 DEF LoopEnds, AgentTyped, Working
<1>4. IsFiniteSet(Asking') /\ permits' = Cardinality(Asking') /\ permits' <= Permits
  BY <1>0, <1>3, SamePermits
<1>5. AgentTyped' /\ TableOK'
  <2>1. /\ of' \in [Turns -> Sessions \cup {None}] /\ todo' \in [Turns -> Nat] /\ round' \in [Turns -> Nat]
        /\ hub' \subseteq Streams /\ unaudited' \subseteq Turns /\ permits' \in Nat
        /\ slice' \in [Turns -> Seq(Msg)]
    BY <1>0 DEF AgentTyped
  <2>2. QED BY <1>0, <1>2, <2>1, LoopTyped, TypedMoves
<1>6. QED BY <1>0, <1>1, <1>3, <1>4, <1>5, LoopMoves

\* What the model service may answer.
LEMMA OutcomesTyped ==
  ASSUME NEW o \in CompleteStreamOutcomes
  PROVE  o[1] = "calls" => o[2] \in Nat /\ o[2] > 0
  BY AgentAssumption DEF CompleteStreamOutcomes, CompleteOutcomes

\* A reply of the model service keeps the invariant.
LEMMA AgentReply ==
  ASSUME AgentInv, NEW t \in Turns, NEW o \in CompleteStreamOutcomes, Reply(t, o)
  PROVE  AgentInv'
<1> DEFINE a == Message("answer", t, 0)
<1> DEFINE q == Message("ask", t, o[2])
<1>0. /\ AgentTyped /\ TurnOK(t) /\ step[t] = "model" /\ permits' = permits - 1
      /\ UNCHANGED <<created, slice, of, round, hub, unaudited, cut>>
  BY DEF AgentInv, Reply
<1>1. of[t] \in Sessions /\ t \notin unaudited /\ step[t] \in Working /\ slice[t] = <<>>
  BY <1>0, NoSlice DEF TurnOK, Working, Trimming
<1>2. \/ (KeepHistory \/ Put(t, a)) /\ (LoopEnds(t) \/ LoopAt(t, "replied")) /\ todo' = todo
      \/ /\ Put(t, q) /\ LoopAt(t, "tool") /\ todo' = [todo EXCEPT ![t] = o[2]]
         /\ o[2] \in Nat /\ o[2] > 0
  BY OutcomesTyped DEF Reply
<1>3. a \in Msg /\ (o[2] \in Nat => q \in Msg)
  BY DEF Message, Msg
<1> HIDE DEF a, q
<1>4. Stored
  BY <1>1, <1>2, <1>3, StoredMoves
<1>5. IsFiniteSet(Asking') /\ permits' = Cardinality(Asking') /\ permits' <= Permits /\ permits' \in Nat
  BY <1>0, <1>2, PermitReturned
<1>6. todo' \in [Turns -> Nat] /\ \A u \in Turns \ {t} : todo'[u] = todo[u]
  BY <1>0, <1>2 DEF AgentTyped
<1>7. LoopEnds(t) \/ \E w \in Working : LoopAt(t, w) /\ (w \in InTool => todo'[t] > 0)
  <2>1. CASE LoopEnds(t)
    BY <2>1
  <2>2. CASE LoopAt(t, "replied")
    BY <2>2 DEF Working, InTool
  <2>3. CASE LoopAt(t, "tool") /\ todo' = [todo EXCEPT ![t] = o[2]] /\ o[2] > 0
    <3>1. todo'[t] > 0
      BY <1>0, <2>3 DEF AgentTyped
    <3>2. QED BY <2>3, <3>1 DEF Working
  <2>4. QED BY <1>2, <2>1, <2>2, <2>3
<1>8. AgentTyped' /\ TableOK'
  <2>1. /\ of' \in [Turns -> Sessions \cup {None}] /\ round' \in [Turns -> Nat]
        /\ hub' \subseteq Streams /\ unaudited' \subseteq Turns /\ slice' \in [Turns -> Seq(Msg)]
    BY <1>0 DEF AgentTyped
  <2>2. LoopEnds(t) \/ \E w \in Working : LoopAt(t, w)
    BY <1>7
  <2>3. QED BY <1>0, <1>4, <1>5, <1>6, <2>1, <2>2, LoopTyped, TypedMoves
<1>9. QED BY <1>0, <1>1, <1>5, <1>6, <1>7, <1>8, LoopMoves

\* The answer of a tool: what becomes of the turn and of what is stored.
LEMMA ToolAnswer ==
  ASSUME AgentInv, NEW t \in Turns, step[t] \in InTool, PutToolAnswer(t)
  PROVE  /\ Stored /\ todo' \in [Turns -> Nat]
         /\ \A u \in Turns \ {t} : todo'[u] = todo[u]
         /\ \E w \in {"rounded", "tool"} : LoopAt(t, w) /\ (w \in InTool => todo'[t] > 0)
<1> DEFINE m == Message("tool", t, todo[t])
<1>0. AgentTyped /\ TurnOK(t) /\ todo[t] \in Nat /\ todo[t] > 0
  BY DEF AgentInv, AgentTyped, TurnOK
<1>1. of[t] \in Sessions /\ m \in Msg
  <2>1. of[t] \in Sessions
    BY <1>0 DEF TurnOK, InTool
  <2>2. m \in Msg
    BY <1>0 DEF Message, Msg
  <2>3. QED BY <2>1, <2>2
<1>2. Put(t, m) /\ todo' = [todo EXCEPT ![t] = todo[t] - 1]
  BY DEF PutToolAnswer
<1>3. todo' \in [Turns -> Nat] /\ \A u \in Turns \ {t} : todo'[u] = todo[u]
  BY <1>0, <1>2 DEF AgentTyped
<1>4. \E w \in {"rounded", "tool"} : LoopAt(t, w) /\ (w \in InTool => todo'[t] > 0)
  <2>1. CASE todo[t] = 1
    BY <2>1 DEF PutToolAnswer, InTool
  <2>2. CASE todo[t] # 1
    <3>1. todo'[t] > 0
      BY <1>0, <1>2, <2>2 DEF AgentTyped
    <3>2. QED BY <2>2, <3>1 DEF PutToolAnswer
  <2>3. QED BY <2>1, <2>2
<1> HIDE DEF m
<1>5. Stored
  BY <1>1, <1>2, StoredMoves
<1>6. QED BY <1>3, <1>4, <1>5

\* A step of a turn whose tool ran or is about to: the rest of the invariant.
LEMMA ToolMoves ==
  ASSUME AgentInv, NEW t \in Turns, step[t] \in InTool, Stored,
         LoopEnds(t) \/ \E w \in {"rounded", "tool", "ran"} : LoopAt(t, w) /\ (w \in InTool => todo'[t] > 0),
         todo' \in [Turns -> Nat],
         \A u \in Turns \ {t} : todo'[u] = todo[u] /\ (u \in unaudited' => u \in unaudited),
         unaudited' \subseteq Turns, t \in unaudited' => step'[t] = "ran",
         UNCHANGED <<created, slice, of, round, permits, hub>>
  PROVE  AgentInv'
<1>0. AgentTyped /\ TurnOK(t)
  BY DEF AgentInv
<1>1. /\ step'[t] # "model" /\ step[t] # "model" /\ step[t] \in Working
      /\ \A u \in Turns \ {t} : step'[u] = step[u]
  BY <1>0 DEF LoopEnds, LoopAt, AgentTyped, Working, InTool
<1>2. IsFiniteSet(Asking') /\ permits' = Cardinality(Asking') /\ permits' <= Permits
  BY <1>1, SamePermits
<1>3. LoopEnds(t) \/ \E w \in Working : LoopAt(t, w) /\ (w \in InTool => todo'[t] > 0)
  BY DEF Working
<1>4. AgentTyped' /\ TableOK'
  <2>1. /\ of' \in [Turns -> Sessions \cup {None}] /\ round' \in [Turns -> Nat]
        /\ hub' \subseteq Streams /\ permits' \in Nat /\ slice' \in [Turns -> Seq(Msg)]
    BY <1>0 DEF AgentTyped
  <2>2. LoopEnds(t) \/ \E w \in Working : LoopAt(t, w)
    BY <1>3
  <2>3. QED BY <2>1, <2>2, LoopTyped, TypedMoves
<1>5. slice[t] = <<>>
  BY NoSlice DEF Trimming, InTool
<1>6. QED BY <1>1, <1>2, <1>3, <1>4, <1>5, LoopMoves

\* A tool of a chat keeps the invariant.
LEMMA AgentChatTool ==
  ASSUME AgentInv, NEW t \in Turns, ChatTool(t)
  PROVE  AgentInv'
<1>0. /\ AgentTyped /\ TurnOK(t) /\ step[t] = "tool"
      /\ UNCHANGED <<created, slice, of, round, permits, hub, unaudited, cut>>
  BY DEF AgentInv, ChatTool
<1>1. step[t] \in InTool /\ t \notin unaudited /\ unaudited' \subseteq Turns
  BY <1>0 DEF InTool, TurnOK, AgentTyped
<1>2. /\ Stored /\ todo' \in [Turns -> Nat]
      /\ \A u \in Turns \ {t} : todo'[u] = todo[u]
      /\ \E w \in {"rounded", "tool"} : LoopAt(t, w) /\ (w \in InTool => todo'[t] > 0)
  BY <1>1, ToolAnswer DEF ChatTool
<1>3. \E w \in {"rounded", "tool", "ran"} : LoopAt(t, w) /\ (w \in InTool => todo'[t] > 0)
  BY <1>2
<1>4. QED BY <1>0, <1>1, <1>2, <1>3, ToolMoves

\* A stream that is cut short.
LEMMA CutMoves ==
  ASSUME AgentInv, NEW t \in Turns, step[t] \in InTool, StreamCut(t)
  PROVE  /\ Stored /\ todo' \in [Turns -> Nat]
         /\ \A u \in Turns \ {t} : todo'[u] = todo[u]
         /\ LoopEnds(t)
<1> DEFINE m == Message("answer", t, 0)
<1>0. AgentTyped /\ TurnOK(t) /\ KeepHistory /\ LoopEnds(t) /\ UNCHANGED todo /\ m \in Msg
  BY DEF AgentInv, StreamCut, Message, Msg
<1>1. of[t] \in Sessions
  BY <1>0 DEF TurnOK, InTool
<1> HIDE DEF m
<1>2. Stored
  BY <1>0, <1>1, StoredMoves
<1>3. QED BY <1>0, <1>2 DEF AgentTyped

\* A tool of a stream keeps the invariant.
LEMMA AgentStreamTool ==
  ASSUME AgentInv, NEW t \in Turns, StreamTool(t)
  PROVE  AgentInv'
<1> DEFINE m == Message("answer", t, 0)
<1>0. /\ AgentTyped /\ TurnOK(t) /\ step[t] = "tool" /\ m \in Msg
      /\ UNCHANGED <<created, slice, of, round, permits, hub>>
  BY DEF AgentInv, StreamTool, Message, Msg
<1>1. step[t] \in InTool /\ t \notin unaudited /\ unaudited \subseteq Turns
  BY <1>0 DEF InTool, TurnOK, AgentTyped
<1>2. CASE StreamCut(t) /\ UNCHANGED unaudited
  <2>1. /\ Stored /\ todo' \in [Turns -> Nat]
        /\ \A u \in Turns \ {t} : todo'[u] = todo[u]
        /\ LoopEnds(t)
    BY <1>1, <1>2, CutMoves
  <2>2. QED BY <1>0, <1>1, <1>2, <2>1, ToolMoves
<1>3. CASE RunTool(t) /\ LoopAt(t, "ran") /\ KeepHistory /\ UNCHANGED <<todo, cut>>
  <2>1. of[t] \in Sessions /\ todo[t] > 0
    BY <1>0, <1>1 DEF TurnOK, InTool
  <2> HIDE DEF m
  <2>2. Stored
    BY <1>0, <1>3, <2>1, StoredMoves
  <2>3. unaudited' \subseteq Turns /\ \A u \in Turns \ {t} : u \in unaudited' => u \in unaudited
    BY <1>1, <1>3 DEF RunTool
  <2>4. step'[t] = "ran"
    BY <1>0, <1>3 DEF LoopAt, AgentTyped
  <2>5. todo' \in [Turns -> Nat] /\ \A u \in Turns \ {t} : todo'[u] = todo[u]
    BY <1>0, <1>3 DEF AgentTyped
  <2>6. \E w \in {"rounded", "tool", "ran"} : LoopAt(t, w) /\ (w \in InTool => todo'[t] > 0)
    BY <1>3, <2>1, <2>5
  <2>7. QED BY <1>0, <1>1, <2>2, <2>3, <2>4, <2>5, <2>6, ToolMoves
<1>4. QED BY <1>2, <1>3 DEF StreamTool

\* So does the record of that tool.
LEMMA AgentStreamToolDone ==
  ASSUME AgentInv, NEW t \in Turns, StreamToolDone(t)
  PROVE  AgentInv'
<1>0. /\ AgentTyped /\ TurnOK(t) /\ step[t] = "ran" /\ AuditTool(t)
      /\ UNCHANGED <<created, slice, of, round, permits, hub>>
  BY DEF AgentInv, StreamToolDone
<1>1. step[t] \in InTool /\ unaudited' \subseteq Turns /\ t \notin unaudited'
  BY <1>0 DEF InTool, AgentTyped, AuditTool
<1>2. \A u \in Turns \ {t} : u \in unaudited' => u \in unaudited
  BY <1>0 DEF AuditTool
<1>3. CASE StreamCut(t)
  <2>1. /\ Stored /\ todo' \in [Turns -> Nat]
        /\ \A u \in Turns \ {t} : todo'[u] = todo[u]
        /\ LoopEnds(t)
    BY <1>1, <1>3, CutMoves
  <2>2. QED BY <1>0, <1>1, <1>2, <2>1, ToolMoves
<1>4. CASE PutToolAnswer(t)
  <2>1. /\ Stored /\ todo' \in [Turns -> Nat]
        /\ \A u \in Turns \ {t} : todo'[u] = todo[u]
        /\ \E w \in {"rounded", "tool"} : LoopAt(t, w) /\ (w \in InTool => todo'[t] > 0)
    BY <1>1, <1>4, ToolAnswer
  <2>2. \E w \in {"rounded", "tool", "ran"} : LoopAt(t, w) /\ (w \in InTool => todo'[t] > 0)
    BY <2>1
  <2>3. QED BY <1>0, <1>1, <1>2, <2>1, <2>2, ToolMoves
<1>5. QED BY <1>3, <1>4 DEF StreamToolDone

\* A request that finds its session keeps the invariant.
LEMMA AgentLookup ==
  ASSUME AgentInv, NEW t \in Turns, NEW s \in Sessions, Lookup(t, s)
  PROVE  AgentInv'
<1>0. /\ AgentTyped /\ TableOK /\ TurnOK(t) /\ LocksOK /\ TurnCounts
  BY DEF AgentInv
<1>1. /\ at[t] = "new" /\ of'[t] = s /\ at'[t] = "waiting"
      /\ \A u \in Turns \ {t} : of'[u] = of[u] /\ at'[u] = at[u]
      /\ UNCHANGED <<table, created, aged, history, slice, lock, step, round, todo, permits, hub,
                      unaudited, cut>>
  BY <1>0 DEF Lookup, AgentTyped
<1>2. of' \in [Turns -> Sessions \cup {None}] /\ at' \in [Turns -> {"new", "waiting", "done"} \cup Held]
  BY <1>0 DEF Lookup, AgentTyped
<1>3. AgentTyped' /\ TableOK'
  BY <1>0, <1>1, <1>2 DEF AgentTyped, TableOK
<1>4. TurnOK(t)'
  BY <1>0, <1>1 DEF TurnOK, Held, Working, InTool, Trimming
<1>5. TurnCounts'
  <2>1. /\ IsFiniteSet(hub') /\ Cardinality(hub') <= StreamCap
        /\ hub' = {u \in Streams : at'[u] \in {"pumping", "joining"}}
    BY <1>1, SameHub
  <2>2. Asking' = Asking
    BY <1>1 DEF Asking
  <2>3. QED BY <1>0, <1>1, <2>1, <2>2 DEF TurnCounts
<1>6. \A r \in Sessions : lock'[r] # t
  BY <1>0, <1>1, AgentAssumption DEF LocksOK, Held
<1>7. at[t] \notin Held /\ at'[t] \notin Held
  BY <1>1 DEF Held
<1>8. QED BY <1>1, <1>3, <1>4, <1>5, <1>6, <1>7, TurnMoves

\* The handler of a stream stops waiting.
LEMMA AgentPump ==
  ASSUME AgentInv, NEW t \in Turns, Pump(t)
  PROVE  AgentInv'
<1>0. /\ AgentTyped /\ TableOK /\ TurnOK(t) /\ LocksOK /\ TurnCounts
  BY DEF AgentInv
<1>1. /\ at[t] = "pumping" /\ at'[t] = "joining" /\ \A u \in Turns \ {t} : at'[u] = at[u]
      /\ UNCHANGED <<table, created, aged, history, slice, lock, of, step, round, todo, permits, hub,
                      unaudited, cut>>
  BY <1>0 DEF Pump, AgentTyped
<1>2. at' \in [Turns -> {"new", "waiting", "done"} \cup Held]
  BY <1>0 DEF Pump, AgentTyped, Held
<1>3. AgentTyped' /\ TableOK'
  BY <1>0, <1>1, <1>2 DEF AgentTyped, TableOK
<1>4. TurnOK(t)'
  BY <1>0, <1>1 DEF TurnOK, Held, Trimming
<1>5. TurnCounts'
  <2>1. /\ IsFiniteSet(hub') /\ Cardinality(hub') <= StreamCap
        /\ hub' = {u \in Streams : at'[u] \in {"pumping", "joining"}}
    BY <1>1, SameHub
  <2>2. Asking' = Asking
    BY <1>1 DEF Asking
  <2>3. QED BY <1>0, <1>1, <2>1, <2>2 DEF TurnCounts
<1>6. \A r \in Sessions : lock'[r] = t => r = of'[t] /\ at'[t] \in Held
  BY <1>0, <1>1, AgentAssumption DEF LocksOK, Held
<1>7. QED BY <1>1, <1>3, <1>4, <1>5, <1>6, TurnMoves

\* The handler of a stream ends.
LEMMA AgentStreamEnds ==
  ASSUME AgentInv, NEW t \in Turns, StreamEnds(t)
  PROVE  AgentInv'
<1>0. /\ AgentTyped /\ TableOK /\ TurnOK(t) /\ LocksOK /\ TurnCounts
  BY DEF AgentInv
<1>1. /\ at[t] = "joining" /\ at'[t] = "done" /\ (\A u \in Turns \ {t} : at'[u] = at[u])
      /\ hub' = hub \ {t} /\ of[t] \in Sessions /\ lock[of[t]] = t
      /\ UNCHANGED <<table, created, aged, history, slice, of, step, round, todo, permits, unaudited>>
  BY <1>0 DEF StreamEnds, AgentTyped, TurnOK, Held
<1>2. lock'[of[t]] = None /\ \A r \in Sessions \ {of[t]} : lock'[r] = lock[r]
  BY <1>0, <1>1 DEF StreamEnds, AgentTyped
<1>3. /\ at' \in [Turns -> {"new", "waiting", "done"} \cup Held]
      /\ lock' \in [Sessions -> Turns \cup {None}] /\ hub' \subseteq Streams
  BY <1>0 DEF StreamEnds, AgentTyped
<1>4. AgentTyped' /\ TableOK'
  BY <1>0, <1>1, <1>3 DEF AgentTyped, TableOK
<1>5. t \in Streams /\ t \notin Chats
  BY <1>0, <1>1 DEF TurnOK, Turns
<1>6. TurnOK(t)'
  BY <1>0, <1>1, <1>5 DEF TurnOK, Held, Trimming
<1>7. TurnCounts'
  <2>1. hub' = {u \in Streams : at'[u] \in {"pumping", "joining"}}
    <3>1. \A u \in Streams : u \in Turns
      BY DEF Turns
    <3>2. QED BY <1>0, <1>1, <3>1 DEF TurnCounts
  <2>2. IsFiniteSet(hub') /\ Cardinality(hub') <= StreamCap
    <3>1. t \in hub
      BY <1>0, <1>1, <1>5 DEF TurnCounts
    <3>2. IsFiniteSet(hub') /\ Cardinality(hub') = Cardinality(hub) - 1 /\ Cardinality(hub) \in Nat
      BY <1>0, <1>1, <3>1, FS_RemoveElement, FS_CardinalityType DEF TurnCounts
    <3>3. StreamCap \in Nat /\ Cardinality(hub) <= StreamCap
      BY <1>0, AgentAssumption DEF TurnCounts
    <3>4. QED BY <3>2, <3>3
  <2>3. Asking' = Asking
    BY <1>1 DEF Asking
  <2>4. QED BY <1>0, <1>1, <2>1, <2>2, <2>3 DEF TurnCounts
<1>8. \A r \in Sessions : lock'[r] # t
  <2>1. ASSUME NEW r \in Sessions, lock'[r] = t PROVE FALSE
    <3>1. r # of[t] /\ lock[r] = t
      BY <1>2, <2>1, AgentAssumption
    <3>2. QED BY <1>0, <3>1, AgentAssumption DEF LocksOK
  <2>2. QED BY <2>1
<1>9. QED BY <1>1, <1>2, <1>4, <1>6, <1>7, <1>8, TurnMoves

\* A request that gets the lock keeps the invariant.
LEMMA AgentEnter ==
  ASSUME AgentInv, NEW t \in Turns, Enter(t)
  PROVE  AgentInv'
<1> DEFINE s == of[t]
<1> DEFINE m == Message("user", t, 0)
<1>0. /\ AgentTyped /\ TableOK /\ TurnOK(t) /\ LocksOK /\ TurnCounts
  BY DEF AgentInv
<1>1. /\ at[t] = "waiting" /\ lock[s] = None /\ s \in Sessions /\ step[t] = "idle" /\ t \notin unaudited
      /\ slice[t] = <<>> /\ table' = Swept
      /\ UNCHANGED <<created, slice, of, round, todo, permits, hub, unaudited, cut>>
  BY <1>0, NoSlice DEF Enter, TurnOK, Trimming
<1>2. /\ Swept \in Seq(Sessions) /\ Distinct(Swept) /\ Listed(Swept) \subseteq Listed(table)
      /\ Len(Swept) <= MaxSessions
  BY SweptFacts
<1>3. \A r \in Sessions : lock[r] # t
  BY <1>0, <1>1, AgentAssumption DEF LocksOK, Held
<1>4. at[t] \notin Held
  BY <1>1 DEF Held
<1>5. /\ of' \in [Turns -> Sessions \cup {None}] /\ todo' \in [Turns -> Nat] /\ round' \in [Turns -> Nat]
      /\ hub' \subseteq Streams /\ permits' \in Nat /\ unaudited' \subseteq Turns
      /\ slice' \in [Turns -> Seq(Msg)]
  BY <1>0, <1>1 DEF AgentTyped
<1>6. CASE at' = [at EXCEPT ![t] = "done"] /\ UNCHANGED <<history, lock, step>>
  <2>1. Stored
    BY <1>0, <1>1, <1>2, <1>6 DEF Stored, AgentTyped, TableOK
  <2>2. at' \in [Turns -> {"new", "waiting", "done"} \cup Held] /\ at'[t] = "done" /\ \A u \in Turns \ {t} : at'[u] = at[u]
    BY <1>0, <1>6 DEF AgentTyped
  <2>3. AgentTyped' /\ TableOK'
    <3>1. lock' \in [Sessions -> Turns \cup {None}] /\ step' \in [Turns -> {"idle", "entered", "end"} \cup Working]
      BY <1>0, <1>6 DEF AgentTyped
    <3>2. QED BY <1>1, <1>5, <2>1, <2>2, <3>1, TypedMoves
  <2>4. TurnOK(t)'
    BY <1>0, <1>1, <1>6, <2>2 DEF TurnOK, Held, Working, InTool, Trimming
  <2>5. TurnCounts'
    <3>1. /\ IsFiniteSet(hub') /\ Cardinality(hub') <= StreamCap
          /\ hub' = {u \in Streams : at'[u] \in {"pumping", "joining"}}
      BY <1>1, <1>6, <2>2, SameHub
    <3>2. Asking' = Asking
      BY <1>6 DEF Asking
    <3>3. QED BY <1>0, <1>1, <3>1, <3>2 DEF TurnCounts
  <2>6. QED BY <1>1, <1>3, <1>4, <1>6, <2>2, <2>3, <2>4, <2>5, TurnMoves
<1>7. CASE /\ history' = [history EXCEPT ![s] = Append(history[s], m)]
           /\ at' = [at EXCEPT ![t] = "entering"]
           /\ lock' = [lock EXCEPT ![s] = t]
           /\ step' = [step EXCEPT ![t] = "entered"]
  <2>1. Stored
    <3>1. m \in Msg
      BY DEF Message, Msg
    <3> HIDE DEF m
    <3>2. history[s] \in Seq(Msg)
      BY <1>0, <1>1 DEF AgentTyped
    <3>3. Append(history[s], m) \in Seq(Msg)
      BY <3>1, <3>2
    <3>4. history' \in [Sessions -> Seq(Msg)]
      BY <1>0, <1>1, <1>7, <3>3 DEF AgentTyped
    <3>5. QED BY <1>0, <1>1, <1>2, <3>4 DEF Stored, TableOK
  <2>2. /\ at'[t] = "entering" /\ step'[t] = "entered"
        /\ lock'[s] = t /\ (\A r \in Sessions \ {s} : lock'[r] = lock[r])
        /\ \A u \in Turns \ {t} : at'[u] = at[u] /\ step'[u] = step[u]
    BY <1>0, <1>1, <1>7 DEF AgentTyped
  <2>3. /\ at' \in [Turns -> {"new", "waiting", "done"} \cup Held]
        /\ step' \in [Turns -> {"idle", "entered", "end"} \cup Working]
        /\ lock' \in [Sessions -> Turns \cup {None}]
    BY <1>0, <1>1, <1>7 DEF AgentTyped, Held, Working
  <2>4. AgentTyped' /\ TableOK'
    BY <1>1, <1>5, <2>1, <2>3, TypedMoves
  <2>5. TurnOK(t)'
    BY <1>0, <1>1, <2>2 DEF TurnOK, Held, Working, InTool, Trimming
  <2>6. TurnCounts'
    <3>1. IsFiniteSet(Asking') /\ permits' = Cardinality(Asking') /\ permits' <= Permits
      <4>1. step[t] # "model" /\ step'[t] # "model"
        BY <1>1, <2>2
      <4>2. QED BY <1>1, <2>2, <4>1, SamePermits
    <3>2. /\ IsFiniteSet(hub') /\ Cardinality(hub') <= StreamCap
          /\ hub' = {u \in Streams : at'[u] \in {"pumping", "joining"}}
      BY <1>1, <2>2, SameHub
    <3>3. QED BY <3>1, <3>2 DEF TurnCounts
  <2>7. \A r \in Sessions : lock'[r] = t => r = of'[t] /\ at'[t] \in Held
    BY <1>1, <1>3, <2>2, AgentAssumption DEF Held
  <2>8. \A r \in Sessions : lock'[r] = lock[r] \/ (r = of'[t] /\ lock[r] \in {None, t} /\ lock'[r] \in {None, t})
    BY <1>1, <2>2
  <2>9. QED BY <1>1, <1>4, <2>2, <2>4, <2>5, <2>6, <2>7, <2>8, TurnMoves
<1>8. QED BY <1>6, <1>7 DEF Enter

\* A request has got the lock of its session.
LEMMA AgentLocked ==
  ASSUME AgentInv, NEW t \in Turns, ChatLocked(t) \/ StreamLocked(t)
  PROVE  AgentInv'
  BY AgentEnter DEF ChatLocked, StreamLocked

\* The place of a turn that trims.
LEMMA TrimmingAt ==
  ASSUME AgentInv, NEW t \in Turns, Trimming(t)
  PROVE  /\ of[t] \in Sessions /\ step[t] # "model" /\ t \notin unaudited
         /\ step[t] = "entered" \/ step[t] \in Working
  BY DEF AgentInv, TurnOK, Trimming, Working

\* What is read to be assigned.
LEMMA ToTrimTyped ==
  ASSUME NEW h \in Seq(Msg)
  PROVE  ToTrim(h) \in Seq(Msg)
<1>1. CASE Len(h) > MaxMessages
  <2>1. h # <<>> /\ Len(h) \in Nat /\ Len(h) >= 1
    BY <1>1, AgentAssumption
  <2> DEFINE users == {i \in DOMAIN h : h[i].role = "user"}
  <2> DEFINE later == users \ {Min(users)}
  <2>2. users = {} => DropOldestRound(h) = Tail(h)
    BY DEF DropOldestRound
  <2>3. users # {} /\ later = {} => DropOldestRound(h) = <<>>
    BY DEF DropOldestRound
  <2>4. users # {} /\ later # {} => DropOldestRound(h) = SubSeq(h, Min(later), Len(h))
    BY DEF DropOldestRound
  <2>5. DOMAIN h = 1 .. Len(h) /\ later \subseteq DOMAIN h
    OBVIOUS
  <2>6. later # {} => Min(later) \in 1 .. Len(h)
    <3>1. later \subseteq Nat
      BY <2>1, <2>5
    <3> HIDE DEF later
    <3>2. QED BY <2>5, <3>1, MinIn
  <2> DEFINE p == Min(later)
  <2>7. later # {} => SubSeq(h, p, Len(h)) \in Seq(Msg)
    <3> HIDE DEF p, later
    <3>1. later # {} => p \in 1 .. Len(h)
      BY <2>6 DEF p
    <3>2. QED BY <3>1, TailEntries
  <2>8. Tail(h) \in Seq(Msg) /\ <<>> \in Seq(Msg)
    BY <2>1
  <2> HIDE DEF users, later
  <2>9. DropOldestRound(h) \in Seq(Msg)
    BY <2>2, <2>3, <2>4, <2>7, <2>8 DEF p
  <2>10. QED BY <1>1, <2>9 DEF ToTrim
<1>2. CASE ~(Len(h) > MaxMessages)
  <2>1. <<>> \in Seq(Msg)
    OBVIOUS
  <2>2. QED BY <1>2, <2>1 DEF ToTrim
<1>3. QED BY <1>1, <1>2

\* A turn reads the shorter history, or assigns it.
LEMMA AgentSlices ==
  ASSUME AgentInv, NEW t \in Turns, TrimReads(t) \/ TrimAssigns(t)
  PROVE  AgentInv'
<1>0. /\ AgentTyped /\ TableOK /\ (\A u \in Turns : TurnOK(u)) /\ LocksOK /\ TurnCounts
  BY DEF AgentInv
<1>1. /\ Trimming(t) /\ UNCHANGED <<table, created, lock, at, of, step, round, todo, permits, hub, unaudited>>
      /\ \A u \in Turns \ {t} : slice'[u] = slice[u]
  BY <1>0 DEF TrimReads, TrimAssigns, AgentTyped, TurnOK
<1>2. of[t] \in Sessions
  BY <1>1, TrimmingAt
<1>3. history' \in [Sessions -> Seq(Msg)] /\ slice' \in [Turns -> Seq(Msg)]
  <2>1. history \in [Sessions -> Seq(Msg)] /\ slice \in [Turns -> Seq(Msg)]
    BY <1>0 DEF AgentTyped
  <2>2. CASE TrimReads(t)
    <3>1. ToTrim(history[of[t]]) \in Seq(Msg)
      BY <1>2, <2>1, ToTrimTyped
    <3>2. QED BY <2>1, <2>2, <3>1 DEF TrimReads
  <2>3. CASE TrimAssigns(t)
    <3>1. slice[t] \in Seq(Msg) /\ <<>> \in Seq(Msg)
      BY <2>1
    <3>2. QED BY <2>1, <2>3, <3>1 DEF TrimAssigns
  <2>4. QED BY <2>2, <2>3
<1>4. AgentTyped' /\ TableOK'
  BY <1>0, <1>1, <1>3 DEF AgentTyped, TableOK
<1>5. ASSUME NEW u \in Turns PROVE TurnOK(u)'
  <2>1. TurnOK(u) /\ (u # t => slice'[u] = slice[u]) /\ (u = t => Trimming(u))
    BY <1>0, <1>1
  <2>2. QED BY <1>1, <2>1 DEF TurnOK, Trimming
<1>6. LocksOK' /\ TurnCounts'
  BY <1>0, <1>1 DEF LocksOK, TurnCounts, Asking
<1>7. QED BY <1>4, <1>5, <1>6 DEF AgentInv

\* A question is in and trimmed: the turn goes on or ends.
LEMMA AgentGoesOn ==
  ASSUME AgentInv, NEW t \in Turns, step[t] = "entered", slice[t] = <<>>, GoesOn(t), Stored,
         UNCHANGED <<created, slice, of, round, todo, permits, unaudited>>
  PROVE  AgentInv'
<1> DEFINE s == of[t]
<1>0. /\ AgentTyped /\ TableOK /\ TurnOK(t) /\ LocksOK /\ TurnCounts
  BY DEF AgentInv
<1>1. at[t] = "entering" /\ lock[s] = t /\ s \in Sessions /\ t \notin unaudited
  BY <1>0 DEF TurnOK, Held
<1>2. t \in Streams <=> t \notin Chats
  BY AgentAssumption DEF Turns
<1>3. PICK goesOn \in BOOLEAN :
        /\ goesOn => (t \in Streams => Cardinality(hub) < StreamCap)
        /\ at' = [at EXCEPT ![t] = IF ~goesOn THEN "done" ELSE IF t \in Chats THEN "chatting" ELSE "pumping"]
        /\ lock' = [lock EXCEPT ![s] = IF goesOn THEN t ELSE None]
        /\ step' = [step EXCEPT ![t] = IF goesOn THEN "loop" ELSE "idle"]
        /\ hub' = IF goesOn /\ t \in Streams THEN hub \cup {t} ELSE hub
  <2>1. PICK able \in LoadLlmConf :
          LET goesOn == able /\ (t \in Streams => Cardinality(hub) < StreamCap) IN
          /\ at' = [at EXCEPT ![t] = IF ~goesOn THEN "done" ELSE IF t \in Chats THEN "chatting" ELSE "pumping"]
          /\ lock' = [lock EXCEPT ![s] = IF goesOn THEN t ELSE None]
          /\ step' = [step EXCEPT ![t] = IF goesOn THEN "loop" ELSE "idle"]
          /\ hub' = IF goesOn /\ t \in Streams THEN hub \cup {t} ELSE hub
    BY DEF GoesOn
  <2> DEFINE go == able /\ (t \in Streams => Cardinality(hub) < StreamCap)
  <2>2. go \in BOOLEAN /\ (go => (t \in Streams => Cardinality(hub) < StreamCap))
    OBVIOUS
  <2>3. WITNESS go \in BOOLEAN
  <2>4. QED BY <2>1, <2>2
<1>4. /\ at'[t] = (IF ~goesOn THEN "done" ELSE IF t \in Chats THEN "chatting" ELSE "pumping")
      /\ step'[t] = (IF goesOn THEN "loop" ELSE "idle")
      /\ lock'[s] = (IF goesOn THEN t ELSE None) /\ (\A r \in Sessions \ {s} : lock'[r] = lock[r])
      /\ \A u \in Turns \ {t} : at'[u] = at[u] /\ step'[u] = step[u]
  BY <1>0, <1>1, <1>3 DEF AgentTyped
<1>5. /\ at' \in [Turns -> {"new", "waiting", "done"} \cup Held]
      /\ step' \in [Turns -> {"idle", "entered", "end"} \cup Working]
      /\ lock' \in [Sessions -> Turns \cup {None}] /\ hub' \subseteq Streams
  BY <1>0, <1>1, <1>3 DEF AgentTyped, Held, Working
<1>6. AgentTyped' /\ TableOK'
  <2>1. /\ of' \in [Turns -> Sessions \cup {None}] /\ todo' \in [Turns -> Nat] /\ round' \in [Turns -> Nat]
        /\ permits' \in Nat /\ unaudited' \subseteq Turns /\ slice' \in [Turns -> Seq(Msg)]
    BY <1>0 DEF AgentTyped
  <2>2. QED BY <1>5, <2>1, TypedMoves
<1>7. TurnOK(t)'
  <2>1. of'[t] = s /\ unaudited' = unaudited /\ slice'[t] = <<>>
    OBVIOUS
  <2>2. CASE goesOn
    <3>1. step'[t] = "loop" /\ lock'[s] = t /\ at'[t] = (IF t \in Chats THEN "chatting" ELSE "pumping")
      BY <1>4, <2>2
    <3>2. QED BY <1>1, <1>2, <2>1, <3>1 DEF TurnOK, Held, Working, InTool, Trimming
  <2>3. CASE ~goesOn
    <3>1. at'[t] = "done" /\ step'[t] = "idle"
      BY <1>4, <2>3
    <3>2. QED BY <1>1, <1>2, <2>1, <3>1 DEF TurnOK, Held, Working, InTool, Trimming
  <2>4. QED BY <2>2, <2>3
<1>8. TurnCounts'
  <2>1. IsFiniteSet(Asking') /\ permits' = Cardinality(Asking') /\ permits' <= Permits
    <3>1. step[t] # "model" /\ step'[t] # "model"
      BY <1>4
    <3>2. QED BY <1>4, <3>1, SamePermits
  <2>2. /\ IsFiniteSet(hub') /\ Cardinality(hub') <= StreamCap
        /\ hub' = {u \in Streams : at'[u] \in {"pumping", "joining"}}
    <3>1. CASE goesOn /\ t \in Streams
      <4>1. hub' = hub \cup {t} /\ at'[t] = "pumping" /\ Cardinality(hub) < StreamCap
        BY <1>2, <1>3, <1>4, <3>1
      <4>2. t \notin hub /\ IsFiniteSet(hub)
        BY <1>0, <1>1 DEF TurnCounts
      <4>3. IsFiniteSet(hub') /\ Cardinality(hub') = Cardinality(hub) + 1 /\ Cardinality(hub) \in Nat /\ StreamCap \in Nat
        BY <4>1, <4>2, FS_AddElement, FS_CardinalityType, AgentAssumption
      <4>4. \A u \in Streams : u \in Turns
        BY DEF Turns
      <4>5. hub' = {u \in Streams : at'[u] \in {"pumping", "joining"}}
        BY <1>0, <1>4, <3>1, <4>1, <4>4 DEF TurnCounts
      <4>6. QED BY <4>1, <4>3, <4>5
    <3>2. CASE ~(goesOn /\ t \in Streams)
      <4>1. hub' = hub /\ (t \in Streams => at'[t] = "done") /\ at[t] = "entering"
        BY <1>1, <1>3, <1>4, <3>2
      <4>2. QED BY <1>4, <4>1, SameHub
    <3>3. QED BY <3>1, <3>2
  <2>3. QED BY <2>1, <2>2 DEF TurnCounts
<1>9. \A r \in Sessions : lock'[r] = t => r = of'[t] /\ at'[t] \in Held
  <2>1. \A r \in Sessions : r # s => lock[r] # t
    BY <1>0, AgentAssumption DEF LocksOK
  <2>2. at'[t] \in Held \/ lock'[s] = None
    BY <1>4 DEF Held
  <2>3. QED BY <1>4, <2>1, <2>2, AgentAssumption
<1>10. \A r \in Sessions : lock'[r] = lock[r] \/ (r = of'[t] /\ lock[r] \in {None, t} /\ lock'[r] \in {None, t})
  BY <1>1, <1>4
<1>11. QED BY <1>4, <1>6, <1>7, <1>8, <1>9, <1>10, TurnMoves

\* A history is trimmed: the session is touched.
LEMMA AgentTrimmed ==
  ASSUME AgentInv, NEW t \in Turns, Trimmed(t)
  PROVE  AgentInv'
<1>0. /\ AgentTyped /\ TableOK /\ TurnOK(t) /\ Trimming(t) /\ slice[t] = <<>>
      /\ table' = Touched(table, of[t])
      /\ UNCHANGED <<created, history, slice, of, todo, permits, unaudited, cut>>
  BY DEF AgentInv, Trimmed
<1>1. of[t] \in Sessions /\ step[t] # "model" /\ t \notin unaudited
  BY <1>0, TrimmingAt
<1>2. Stored
  <2>1. table' \in Seq(Sessions) /\ Distinct(table') /\ Listed(table') = Listed(table) /\ Len(table') = Len(table)
    BY <1>0, TouchedFacts DEF AgentTyped, TableOK
  <2>2. QED BY <1>0, <2>1 DEF Stored, AgentTyped, TableOK
<1>3. CASE step[t] = "entered" /\ GoesOn(t) /\ UNCHANGED round
  BY <1>0, <1>2, <1>3, AgentGoesOn
<1>4. CASE /\ step[t] \in Working /\ (LoopEnds(t) \/ LoopAt(t, "loop"))
           /\ round' \in [Turns -> Nat] /\ hub' = hub
  <2>1. LoopEnds(t) \/ \E w \in Working : LoopAt(t, w) /\ (w \in InTool => todo'[t] > 0)
    BY <1>4 DEF Working, InTool
  <2>2. LoopEnds(t) \/ \E w \in Working : LoopAt(t, w)
    BY <2>1
  <2>3. AgentTyped' /\ TableOK'
    <3>1. /\ of' \in [Turns -> Sessions \cup {None}] /\ todo' \in [Turns -> Nat]
          /\ hub' \subseteq Streams /\ unaudited' \subseteq Turns /\ permits' \in Nat
          /\ slice' \in [Turns -> Seq(Msg)]
      BY <1>0, <1>4 DEF AgentTyped
    <3>2. QED BY <1>0, <1>2, <1>4, <2>2, <3>1, LoopTyped, TypedMoves
  <2>4. step'[t] # "model" /\ \A u \in Turns \ {t} : step'[u] = step[u]
    BY <1>0, <1>4 DEF LoopEnds, LoopAt, AgentTyped
  <2>5. IsFiniteSet(Asking') /\ permits' = Cardinality(Asking') /\ permits' <= Permits
    BY <1>0, <1>1, <2>4, SamePermits
  <2>6. QED BY <1>0, <1>1, <1>4, <2>1, <2>3, <2>5, LoopMoves
<1>5. round \in [Turns -> Nat] /\ [round EXCEPT ![t] = round[t] + 1] \in [Turns -> Nat]
  BY <1>0 DEF AgentTyped
<1>6. CASE step[t] = "replied" /\ LoopEnds(t) /\ UNCHANGED <<round, hub>>
  BY <1>4, <1>5, <1>6 DEF Working
<1>7. CASE step[t] = "rounded" /\ LoopAt(t, "loop") /\ round' = [round EXCEPT ![t] = round[t] + 1] /\ UNCHANGED hub
  BY <1>4, <1>5, <1>7 DEF Working
<1>8. QED BY <1>3, <1>6, <1>7 DEF Trimmed

\* The requests about sessions keep the invariant.
LEMMA AgentTable ==
  ASSUME AgentInv,
         \/ SessionsCreate \/ SessionsList
         \/ \E s \in Sessions : SessionsDelete(s) \/ Messages(s) \/ TimePasses(s)
  PROVE  AgentInv'
<1>0. /\ AgentTyped /\ TableOK
      /\ table \in Seq(Sessions) /\ Distinct(table) /\ Listed(table) \subseteq created
      /\ Len(table) <= MaxSessions /\ Len(table) \in Nat /\ created \subseteq Sessions
      /\ MaxSessions \in Nat /\ MaxSessions > 0
  BY AgentAssumption DEF AgentInv, AgentTyped, TableOK
<1>1. /\ Swept \in Seq(Sessions) /\ Distinct(Swept) /\ Listed(Swept) \subseteq Listed(table)
      /\ Len(Swept) <= Len(table) /\ Len(Swept) <= MaxSessions /\ Len(Swept) \in Nat
  BY SweptFacts
<1>2. CASE SessionsCreate
  <2>1. PICK s \in Sessions \ created :
          LET tab == Append(Swept, s)
              over == IF Len(tab) > MaxSessions THEN Len(tab) - MaxSessions ELSE 0
          IN  /\ created' = created \cup {s}
              /\ table' = SubSeq(tab, over + 1, Len(tab))
    BY <1>2 DEF SessionsCreate
  <2> DEFINE tab == Append(Swept, s)
  <2> DEFINE over == IF Len(tab) > MaxSessions THEN Len(tab) - MaxSessions ELSE 0
  <2>2. created' = created \cup {s} /\ table' = SubSeq(tab, over + 1, Len(tab))
    BY <2>1
  <2>3. /\ tab \in Seq(Sessions) /\ Len(tab) = Len(Swept) + 1 /\ Distinct(tab)
        /\ Listed(tab) = Listed(Swept) \cup {s}
    <3>1. s \notin Listed(Swept)
      BY <1>0, <1>1
    <3>2. QED BY <1>1, <3>1, AppendListed
  <2> HIDE DEF tab
  <2>4. over + 1 \in 1 .. Len(tab) /\ Len(tab) - (over + 1) + 1 <= MaxSessions
    BY <1>0, <1>1, <2>3
  <2> DEFINE p == over + 1
  <2> HIDE DEF p
  <2>5. /\ table' \in Seq(Sessions) /\ Len(table') = Len(tab) - p + 1
        /\ Distinct(table') /\ Listed(table') \subseteq Listed(tab)
    <3>1. p \in 1 .. Len(tab) /\ table' = SubSeq(tab, p, Len(tab))
      BY <2>2, <2>4 DEF p
    <3>2. QED BY <2>3, <3>1, LastListed
  <2>6. Len(table') <= MaxSessions
    BY <2>4, <2>5 DEF p
  <2>7. UNCHANGED turnVars /\ UNCHANGED history
    BY <1>2 DEF SessionsCreate, turnVars
  <2>8. created' \subseteq Sessions /\ Listed(table') \subseteq created'
    BY <1>0, <1>1, <2>2, <2>3, <2>5
  <2>9. QED BY <2>5, <2>6, <2>7, <2>8, TableMoves
<1>3. CASE SessionsList
  <2>1. table' = Swept /\ created' = created /\ UNCHANGED turnVars /\ UNCHANGED history
    BY <1>3 DEF SessionsList, turnVars
  <2>2. QED BY <1>0, <1>1, <2>1, TableMoves
<1>4. ASSUME NEW s \in Sessions, SessionsDelete(s) PROVE AgentInv'
  <2>1. table' = Without(table, {s}) /\ created' = created /\ UNCHANGED turnVars /\ UNCHANGED history
    BY <1>4 DEF SessionsDelete, turnVars
  <2>2. /\ table' \in Seq(Sessions) /\ Len(table') <= Len(table) /\ Listed(table') = Listed(table) \ {s}
        /\ Distinct(table')
    BY <1>0, <2>1, WithoutFacts
  <2>3. Len(table') <= MaxSessions
    BY <1>0, <2>2
  <2>4. QED BY <1>0, <2>1, <2>2, <2>3, TableMoves
<1>5. ASSUME NEW s \in Sessions, Messages(s) PROVE AgentInv'
  <2>1. /\ table' = Append(Without(table, {s}), s) /\ s \in Listed(table)
        /\ created' = created /\ UNCHANGED turnVars /\ UNCHANGED history
    BY <1>5 DEF Messages, turnVars
  <2>2. table' \in Seq(Sessions) /\ Len(table') = Len(table) /\ Listed(table') = Listed(table) /\ Distinct(table')
    BY <1>0, <2>1, MoveToEnd
  <2>3. QED BY <1>0, <2>1, <2>2, TableMoves
<1>6. ASSUME NEW s \in Sessions, TimePasses(s) PROVE AgentInv'
  <2>1. table' = table /\ created' = created /\ UNCHANGED turnVars /\ UNCHANGED history
    BY <1>6 DEF TimePasses, turnVars
  <2>2. QED BY <1>0, <2>1, TableMoves
<1>7. QED BY <1>2, <1>3, <1>4, <1>5, <1>6

\* No session and no turn.
LEMMA AgentInitOK == AgentInit => AgentInv
<1> SUFFICES ASSUME AgentInit PROVE AgentInv
  OBVIOUS
<1>1. AgentTyped
  BY DEF AgentInit, AgentTyped, Working, Held
<1>2. TableOK
  BY AgentAssumption DEF AgentInit, TableOK, Distinct, Listed
<1>3. \A t \in Turns : TurnOK(t)
  BY DEF AgentInit, TurnOK, Held, Working, InTool, Trimming
<1>4. LocksOK
  BY DEF AgentInit, LocksOK
<1>5. TurnCounts
  <2>1. Asking = {} /\ hub = {} /\ {t \in Streams : at[t] \in {"pumping", "joining"}} = {}
    BY DEF AgentInit, Asking, Turns
  <2>2. IsFiniteSet({}) /\ Cardinality({}) = 0
    BY FS_EmptySet
  <2>3. 0 <= Permits /\ 0 <= StreamCap /\ permits = 0
    BY AgentAssumption DEF AgentInit
  <2>4. QED BY <2>1, <2>2, <2>3 DEF TurnCounts
<1>6. QED BY <1>1, <1>2, <1>3, <1>4, <1>5 DEF AgentInv

\* Every step keeps the invariant.
LEMMA AgentNextKeeps == AgentInv /\ [AgentNext]_agentVars => AgentInv'
<1> SUFFICES ASSUME AgentInv, [AgentNext]_agentVars PROVE AgentInv'
  OBVIOUS
<1>1. ASSUME NEW t \in Turns, AgentTurn(t) PROVE AgentInv'
  <2>1. \A o : o \in CompleteOutcomes => o \in CompleteStreamOutcomes
    BY DEF CompleteStreamOutcomes
  <2>2. ASSUME NEW s \in Sessions, Chat(t, s) \/ Stream(t, s) PROVE AgentInv'
    BY <2>2, AgentLookup DEF Chat, Stream
  <2>3. ASSUME ChatReply(t) \/ StreamReply(t) PROVE AgentInv'
    BY <2>1, <2>3, AgentReply DEF ChatReply, StreamReply
  <2>4. QED
    BY <1>1, <2>2, <2>3, AgentLocked, AgentGivesUp, AgentAsk, AgentChatTool, AgentStreamTool,
       AgentStreamToolDone, AgentSlices, AgentTrimmed, AgentPump, AgentStreamEnds DEF AgentTurn, Trim
<1>2. CASE UNCHANGED agentVars
  <2>1. /\ UNCHANGED turnVars /\ UNCHANGED <<history, table, created>>
    BY <1>2 DEF agentVars, turnVars
  <2>2. table \in Seq(Sessions) /\ created \subseteq Sessions /\ TableOK
    BY DEF AgentInv, AgentTyped
  <2>3. QED BY <2>1, <2>2, TableMoves DEF TableOK
<1>3. QED BY <1>1, <1>2, AgentTable DEF AgentNext

\* For any number of sessions, turns and permits: the table lists each session
\* once and no more than MAX_SESSIONS, permits and places in the hub are those
\* of the turns that use them and within their limits, a session's lock is held
\* exactly by the turn whose handler is at work, a chat's loop runs only while
\* its handler holds the session, and a write tool that ran is not recorded
\* only until the loop goes on (agent.py:21-27, 360-473, agent_stream.py:47-92,
\* 177-180).
THEOREM AgentAlwaysConsistent == AgentSpec => []AgentConsistent
<1>1. AgentInv => AgentConsistent
  <2> SUFFICES ASSUME AgentInv PROVE AgentConsistent
    OBVIOUS
  <2>0. AgentTyped /\ TableOK /\ (\A t \in Turns : TurnOK(t)) /\ LocksOK /\ TurnCounts
    BY DEF AgentInv
  <2>1. /\ created \subseteq Sessions /\ Listed(table) \subseteq created
        /\ Cardinality(Listed(table)) = Len(table) /\ Len(table) <= MaxSessions
    BY <2>0, DistinctCount DEF AgentTyped, TableOK
  <2>2. /\ permits = Cardinality({t \in Turns : step[t] = "model"}) /\ permits <= Permits
        /\ hub = {t \in Streams : at[t] \in {"pumping", "joining"}} /\ Cardinality(hub) <= StreamCap
    BY <2>0 DEF TurnCounts, Asking
  <2>3. ASSUME NEW t \in Turns
        PROVE  at[t] \in {"entering", "chatting", "pumping", "joining"} <=> \E s \in Sessions : lock[s] = t /\ of[t] = s
    <3>1. ASSUME at[t] \in Held PROVE \E s \in Sessions : lock[s] = t /\ of[t] = s
      BY <2>0, <3>1 DEF TurnOK, Held
    <3>2. ASSUME NEW s \in Sessions, lock[s] = t PROVE at[t] \in Held
      BY <2>0, <3>2, AgentAssumption DEF LocksOK
    <3>3. QED BY <3>1, <3>2 DEF Held
  <2>4. \A t \in Chats : at[t] = "chatting" <=> Active(t)
    BY <2>0 DEF TurnOK, Active, Working, Turns
  <2>5. (\A t \in unaudited : step[t] = "ran") /\ \A t \in Turns : at[t] = "entering" <=> step[t] = "entered"
    BY <2>0 DEF TurnOK, AgentTyped
  <2>6. QED BY <2>1, <2>2, <2>3, <2>4, <2>5 DEF AgentConsistent
<1>2. QED BY <1>1, AgentInitOK, AgentNextKeeps, PTL DEF AgentSpec

-----------------------------------------------------------------------------
(***************************************************************************)
(* Histories.  As long as no stream of a session was cut short, the turn   *)
(* at work in it holds its lock, so that one loop at a time writes to its  *)
(* history; and the last question in a history is that of the holder, so   *)
(* that trimming, which keeps the last round, keeps it.                    *)
(***************************************************************************)

\* What the history of a session is to turn t, if no other turn is at work there.
TurnIn(s, t) ==
  /\ history[s] # <<>> => history[s][1].role = "user"
  /\ at[t] \in Held => LastQuestion(history[s], t)
  /\ step[t] \in Working => at[t] \in Held
  /\ InPlace(history[s])
  /\ step[t] \notin InTool => Settled(history[s])
  /\ step[t] \in InTool => OpenCalls(history[s], t, todo[t])
  /\ slice[t] # <<>> => slice[t] = ToTrim(history[s])

\* A session that turn t does not belong to is not disturbed by it.
LEMMA OtherSession ==
  ASSUME NEW t \in Turns, NEW r \in Sessions, SessionOK(r), r # of'[t],
         of'[t] = of[t] \/ step[t] \notin InTool,
         history'[r] = history[r], r \in cut' <=> r \in cut,
         \A u \in Turns \ {t} : /\ at'[u] = at[u] /\ step'[u] = step[u] /\ of'[u] = of[u]
                                /\ todo'[u] = todo[u] /\ slice'[u] = slice[u]
  PROVE  SessionOK(r)'
<1>1. ASSUME r \notin cut'
      PROVE  /\ history'[r] # <<>> => history'[r][1].role = "user"
             /\ \A u \in Turns : of'[u] = r /\ at'[u] \in Held => LastQuestion(history'[r], u)
             /\ \A u \in Turns : of'[u] = r /\ step'[u] \in Working => at'[u] \in Held
             /\ InPlace(history'[r])
             /\ (\A u \in Turns : of'[u] = r => step'[u] \notin InTool) => Settled(history'[r])
             /\ \A u \in Turns : of'[u] = r /\ step'[u] \in InTool => OpenCalls(history'[r], u, todo'[u])
             /\ \A u \in Turns : of'[u] = r /\ slice'[u] # <<>> => slice'[u] = ToTrim(history'[r])
  <2>1. /\ history[r] # <<>> => history[r][1].role = "user"
        /\ \A u \in Turns : of[u] = r /\ at[u] \in Held => LastQuestion(history[r], u)
        /\ \A u \in Turns : of[u] = r /\ step[u] \in Working => at[u] \in Held
        /\ InPlace(history[r])
        /\ (\A u \in Turns : of[u] = r => step[u] \notin InTool) => Settled(history[r])
        /\ \A u \in Turns : of[u] = r /\ step[u] \in InTool => OpenCalls(history[r], u, todo[u])
        /\ \A u \in Turns : of[u] = r /\ slice[u] # <<>> => slice[u] = ToTrim(history[r])
    BY <1>1 DEF SessionOK
  <2>2. ASSUME \A u \in Turns : of'[u] = r => step'[u] \notin InTool PROVE Settled(history'[r])
    <3>1. ASSUME NEW u \in Turns, of[u] = r PROVE step[u] \notin InTool
      BY <2>2, <3>1
    <3>2. QED BY <2>1, <3>1
  <2>3. ASSUME NEW u \in Turns, of'[u] = r
        PROVE  /\ of[u] = r /\ at'[u] = at[u] /\ step'[u] = step[u]
               /\ todo'[u] = todo[u] /\ slice'[u] = slice[u]
    BY <2>3
  <2>4. QED BY <2>1, <2>2, <2>3
<1>2. QED BY <1>1 DEF SessionOK, Held, Working, InTool, ToTrim, DropOldestRound

\* In a session that was not cut short, no turn but the holder of the lock is
\* between its question and its end, at work or about to trim.
LEMMA SoleWorker ==
  ASSUME AgentInv, NEW s \in Sessions, SessionOK(s), s \notin cut, NEW t \in Turns,
         lock[s] \in {t, None}, NEW u \in Turns, u # t, of[u] = s
  PROVE  at[u] \notin Held /\ step[u] \notin Working /\ slice[u] = <<>>
<1>1. TurnOK(u)
  BY DEF AgentInv
<1>2. at[u] \notin Held
  BY <1>1, AgentAssumption DEF TurnOK
<1>3. step[u] \notin Working
  BY <1>2 DEF SessionOK
<1>4. step[u] # "entered"
  BY <1>1, <1>2 DEF TurnOK, Held
<1>5. QED BY <1>1, <1>2, <1>3, <1>4 DEF TurnOK, Trimming, Working

\* What the history of a session that was not cut short is to the turn that
\* holds it, or to any turn of it if it is free.
LEMMA Holder ==
  ASSUME AgentInv, NEW s \in Sessions, SessionOK(s), s \notin cut, NEW t \in Turns, of[t] = s,
         lock[s] \in {t, None}
  PROVE  TurnIn(s, t)
<1>1. /\ history[s] # <<>> => history[s][1].role = "user"
      /\ at[t] \in Held => LastQuestion(history[s], t)
      /\ step[t] \in Working => at[t] \in Held
      /\ InPlace(history[s])
      /\ step[t] \in InTool => OpenCalls(history[s], t, todo[t])
      /\ slice[t] # <<>> => slice[t] = ToTrim(history[s])
  BY DEF SessionOK
<1>2. ASSUME step[t] \notin InTool PROVE Settled(history[s])
  <2>1. ASSUME NEW u \in Turns, of[u] = s PROVE step[u] \notin InTool
    <3>1. CASE u = t
      BY <1>2, <3>1
    <3>2. CASE u # t
      <4>1. step[u] \notin Working
        BY <2>1, <3>2, SoleWorker
      <4>2. QED BY <4>1 DEF Working, InTool
    <3>3. QED BY <3>1, <3>2
  <2>2. QED BY <2>1 DEF SessionOK
<1>3. QED BY <1>1, <1>2 DEF TurnIn

\* The same for a turn at work there, which holds it.
LEMMA AtWork ==
  ASSUME AgentInv, NEW s \in Sessions, SessionOK(s), s \notin cut, NEW t \in Turns, of[t] = s,
         step[t] = "entered" \/ step[t] \in Working
  PROVE  /\ lock[s] = t /\ at[t] \in Held /\ TurnIn(s, t)
         /\ history[s] # <<>> /\ LastQuestion(history[s], t)
<1>1. TurnOK(t) /\ history[s] \in Seq(Msg)
  BY DEF AgentInv, AgentTyped
<1>2. at[t] \in Held
  BY <1>1 DEF SessionOK, TurnOK, Held
<1>3. lock[s] = t
  BY <1>1, <1>2 DEF TurnOK
<1>4. TurnIn(s, t)
  BY <1>3, Holder
<1>5. LastQuestion(history[s], t)
  BY <1>2, <1>4 DEF TurnIn
<1>6. history[s] # <<>>
  BY <1>1, <1>5 DEF LastQuestion
<1>7. QED BY <1>2, <1>3, <1>4, <1>5, <1>6

\* The session of turn t after a step of t.
LEMMA OwnSession ==
  ASSUME AgentInv, NEW t \in Turns, NEW s \in Sessions, SessionOK(s), of[t] = s, of' = of,
         \A u \in Turns \ {t} : /\ at'[u] = at[u] /\ step'[u] = step[u]
                                /\ todo'[u] = todo[u] /\ slice'[u] = slice[u],
         cut \subseteq cut', s \notin cut' => lock[s] \in {t, None} /\ TurnIn(s, t)'
  PROVE  SessionOK(s)'
<1>1. ASSUME s \notin cut'
      PROVE  /\ history'[s] # <<>> => history'[s][1].role = "user"
             /\ \A u \in Turns : of'[u] = s /\ at'[u] \in Held => LastQuestion(history'[s], u)
             /\ \A u \in Turns : of'[u] = s /\ step'[u] \in Working => at'[u] \in Held
             /\ InPlace(history'[s])
             /\ (\A u \in Turns : of'[u] = s => step'[u] \notin InTool) => Settled(history'[s])
             /\ \A u \in Turns : of'[u] = s /\ step'[u] \in InTool => OpenCalls(history'[s], u, todo'[u])
             /\ \A u \in Turns : of'[u] = s /\ slice'[u] # <<>> => slice'[u] = ToTrim(history'[s])
  <2>1. ASSUME NEW u \in Turns, u # t, of[u] = s
        PROVE  at'[u] \notin Held /\ step'[u] \notin Working /\ step'[u] \notin InTool /\ slice'[u] = <<>>
    <3>1. at[u] \notin Held /\ step[u] \notin Working /\ slice[u] = <<>>
      BY <1>1, <2>1, SoleWorker
    <3>2. QED BY <2>1, <3>1 DEF Working, InTool
  <2>2. /\ history'[s] # <<>> => history'[s][1].role = "user"
        /\ at'[t] \in Held => LastQuestion(history'[s], t)
        /\ step'[t] \in Working => at'[t] \in Held
        /\ InPlace(history'[s])
        /\ step'[t] \notin InTool => Settled(history'[s])
        /\ step'[t] \in InTool => OpenCalls(history'[s], t, todo'[t])
        /\ slice'[t] # <<>> => slice'[t] = ToTrim(history'[s])
    BY <1>1 DEF TurnIn, Held, Working, InTool, ToTrim, DropOldestRound
  <2>3. QED BY <2>1, <2>2
<1>2. QED BY <1>1 DEF SessionOK, Held, Working, InTool, ToTrim, DropOldestRound

\* All sessions after a step of turn t of session s.
LEMMA OneTurn ==
  ASSUME AgentInv, HistoryInv, NEW t \in Turns, NEW s \in Sessions, of[t] = s, of' = of,
         \A u \in Turns \ {t} : /\ at'[u] = at[u] /\ step'[u] = step[u]
                                /\ todo'[u] = todo[u] /\ slice'[u] = slice[u],
         \A r \in Sessions \ {s} : history'[r] = history[r],
         cut \subseteq cut', cut' \subseteq cut \cup {s},
         s \notin cut' => lock[s] \in {t, None} /\ TurnIn(s, t)'
  PROVE  HistoryInv'
<1>1. SessionOK(s)'
  <2>1. SessionOK(s)
    BY DEF HistoryInv
  <2>2. QED BY <2>1, OwnSession
<1>2. ASSUME NEW r \in Sessions, r # s PROVE SessionOK(r)'
  <2>1. SessionOK(r) /\ r # of'[t] /\ of'[t] = of[t] /\ (r \in cut' <=> r \in cut) /\ history'[r] = history[r]
    BY <1>2 DEF HistoryInv
  <2>2. QED BY <2>1, OtherSession
<1>3. \A r \in Sessions : SessionOK(r)'
  BY <1>1, <1>2
<1>4. QED BY <1>3 DEF HistoryInv

\* What a message other than a question does to the history of its session.
LEMMA Written ==
  ASSUME AgentInv, NEW t \in Turns, NEW s \in Sessions, of[t] = s, NEW m \in Msg, m.role # "user", Put(t, m)
  PROVE  /\ history'[s] = Append(history[s], m) /\ history[s] \in Seq(Msg)
         /\ \A r \in Sessions \ {s} : history'[r] = history[r]
         /\ history[s] # <<>> /\ history[s][1].role = "user" => history'[s][1].role = "user"
         /\ LastQuestion(history[s], t) => LastQuestion(history'[s], t)
<1> DEFINE h == history[s]
<1> DEFINE a == Append(h, m)
<1>0. history \in [Sessions -> Seq(Msg)] /\ h \in Seq(Msg)
  BY DEF AgentInv, AgentTyped
<1>1. history'[s] = a /\ \A r \in Sessions \ {s} : history'[r] = history[r]
  BY <1>0 DEF Put
<1> HIDE DEF h
<1>2. h # <<>> /\ h[1].role = "user" => a[1].role = "user"
  BY <1>0, AppendHead
<1>3. LastQuestion(h, t) => LastQuestion(a, t)
  BY <1>0, AppendKeepsQuestion
<1>4. QED BY <1>0, <1>1, <1>2, <1>3 DEF h

\* The histories after a step of the loop of turn t.
LEMMA LoopHistory ==
  ASSUME AgentInv, HistoryInv, NEW t \in Turns, NEW s \in Sessions, of[t] = s, step[t] \in Working,
         of' = of, LoopEnds(t) \/ \E w \in Working : LoopAt(t, w), slice' = slice, slice[t] = <<>>,
         \A u \in Turns \ {t} : todo'[u] = todo[u],
         cut \subseteq cut', cut' \subseteq cut \cup {s},
         \A r \in Sessions \ {s} : history'[r] = history[r],
         s \notin cut' => /\ history'[s][1].role = "user"
                          /\ LastQuestion(history[s], t) => LastQuestion(history'[s], t)
                          /\ InPlace(history'[s])
                          /\ step'[t] \notin InTool => Settled(history'[s])
                          /\ step'[t] \in InTool => OpenCalls(history'[s], t, todo'[t])
  PROVE  HistoryInv'
<1>0. /\ at \in [Turns -> {"new", "waiting", "done"} \cup Held]
      /\ step \in [Turns -> {"idle", "entered", "end"} \cup Working] /\ SessionOK(s)
  BY DEF AgentInv, AgentTyped, HistoryInv
<1>1. \A u \in Turns \ {t} : at'[u] = at[u] /\ step'[u] = step[u]
  BY <1>0 DEF LoopEnds, LoopAt
<1>2. (at'[t] \in Held => at[t] \in Held) /\ (step'[t] \in Working => at' = at)
  BY <1>0 DEF LoopEnds, LoopAt, Held, Working
<1>3. ASSUME s \notin cut' PROVE lock[s] \in {t, None} /\ TurnIn(s, t)'
  <2>1. s \notin cut
    BY <1>3
  <2>2. lock[s] = t /\ at[t] \in Held /\ LastQuestion(history[s], t)
    BY <1>0, <2>1, AtWork
  <2>3. /\ LastQuestion(history'[s], t)
        /\ step'[t] \in Working => at'[t] \in Held
        /\ slice'[t] = <<>>
    BY <1>2, <1>3, <2>2
  <2>4. TurnIn(s, t)'
    BY <1>3, <2>3 DEF TurnIn, Held, Working, InTool, ToTrim, DropOldestRound
  <2>5. QED BY <2>2, <2>4
<1>4. QED BY <1>1, <1>3, OneTurn

\* The loop leaves the history alone.
LEMMA HistoryKept ==
  ASSUME AgentInv, HistoryInv, NEW t \in Turns, NEW s \in Sessions, of[t] = s, step[t] \in Working,
         of' = of, history' = history, LoopEnds(t) \/ \E w \in Working : LoopAt(t, w),
         slice' = slice, slice[t] = <<>>, todo' = todo, cut \subseteq cut', cut' \subseteq cut \cup {s},
         s \notin cut' => (step'[t] \in InTool <=> step[t] \in InTool)
  PROVE  HistoryInv'
<1>1. SessionOK(s)
  BY DEF HistoryInv
<1>2. ASSUME s \notin cut'
      PROVE  /\ history'[s][1].role = "user"
             /\ LastQuestion(history[s], t) => LastQuestion(history'[s], t)
             /\ InPlace(history'[s])
             /\ step'[t] \notin InTool => Settled(history'[s])
             /\ step'[t] \in InTool => OpenCalls(history'[s], t, todo'[t])
  <2>1. s \notin cut
    BY <1>2
  <2>2. TurnIn(s, t) /\ history[s] # <<>>
    BY <1>1, <2>1, AtWork
  <2>3. QED BY <1>2, <2>2 DEF TurnIn
<1>3. QED BY <1>2, LoopHistory

\* The loop says something that is not a call.
LEMMA HistoryAnswer ==
  ASSUME AgentInv, HistoryInv, NEW t \in Turns, NEW s \in Sessions, of[t] = s,
         step[t] \in {"loop", "model"}, of' = of, LoopAt(t, "replied"), todo' = todo, cut' = cut,
         slice' = slice, slice[t] = <<>>, Put(t, Message("answer", t, 0))
  PROVE  HistoryInv'
<1> DEFINE m == Message("answer", t, 0)
<1>1. m \in Msg /\ m.role = "answer" /\ Put(t, m) /\ SessionOK(s) /\ step[t] \in Working
      /\ step[t] \notin InTool
  BY DEF Message, Msg, HistoryInv, Working, InTool
<1> HIDE DEF m
<1>2. step'[t] = "replied" /\ \E w \in Working : LoopAt(t, w)
  BY DEF LoopAt, AgentInv, AgentTyped, Working
<1>3. m.role # "user" /\ m.role # "tool" /\ m.role # "ask"
  BY <1>1
<1>4. /\ history'[s] = Append(history[s], m) /\ history[s] \in Seq(Msg)
      /\ \A r \in Sessions \ {s} : history'[r] = history[r]
      /\ history[s] # <<>> /\ history[s][1].role = "user" => history'[s][1].role = "user"
      /\ LastQuestion(history[s], t) => LastQuestion(history'[s], t)
  BY <1>1, <1>3, Written
<1>5. ASSUME s \notin cut
      PROVE  /\ history'[s][1].role = "user"
             /\ LastQuestion(history[s], t) => LastQuestion(history'[s], t)
             /\ InPlace(history'[s])
             /\ step'[t] \notin InTool => Settled(history'[s])
             /\ step'[t] \in InTool => OpenCalls(history'[s], t, todo'[t])
  <2>1. TurnIn(s, t) /\ history[s] # <<>>
    BY <1>1, <1>5, AtWork
  <2>2. history[s][1].role = "user" /\ InPlace(history[s]) /\ Settled(history[s])
    BY <1>1, <2>1 DEF TurnIn
  <2>3. InPlace(Append(history[s], m))
    BY <1>1, <1>3, <1>4, <2>2, AppendInPlace
  <2>4. Settled(Append(history[s], m))
    BY <1>1, <1>3, <1>4, <2>2, AppendSettled
  <2>5. QED BY <1>2, <1>4, <2>1, <2>2, <2>3, <2>4 DEF InTool
<1>6. QED BY <1>1, <1>2, <1>4, <1>5, LoopHistory

\* The model asks for tool calls.
LEMMA HistoryCalls ==
  ASSUME AgentInv, HistoryInv, NEW t \in Turns, NEW s \in Sessions, of[t] = s, step[t] = "model",
         of' = of, LoopAt(t, "tool"), NEW k \in Nat, todo' = [todo EXCEPT ![t] = k], cut' = cut,
         slice' = slice, slice[t] = <<>>, Put(t, Message("ask", t, k))
  PROVE  HistoryInv'
<1> DEFINE m == Message("ask", t, k)
<1>1. m \in Msg /\ m.role = "ask" /\ Put(t, m) /\ SessionOK(s) /\ step[t] \in Working
      /\ step[t] \notin InTool
  BY DEF Message, Msg, HistoryInv, Working, InTool
<1>2. history[s] \in Seq(Msg) /\ todo'[t] = k /\ (\A u \in Turns \ {t} : todo'[u] = todo[u])
      /\ step'[t] = "tool"
  BY DEF AgentInv, AgentTyped, LoopAt
<1>3. Settled(history[s]) => OpenCalls(Append(history[s], m), t, k)
  BY <1>2, AppendAsk
<1> HIDE DEF m
<1>4. m.role # "user" /\ m.role # "tool" /\ \E w \in Working : LoopAt(t, w)
  BY <1>1 DEF Working
<1>5. /\ history'[s] = Append(history[s], m)
      /\ \A r \in Sessions \ {s} : history'[r] = history[r]
      /\ history[s] # <<>> /\ history[s][1].role = "user" => history'[s][1].role = "user"
      /\ LastQuestion(history[s], t) => LastQuestion(history'[s], t)
  BY <1>1, <1>4, Written
<1>6. ASSUME s \notin cut
      PROVE  /\ history'[s][1].role = "user"
             /\ LastQuestion(history[s], t) => LastQuestion(history'[s], t)
             /\ InPlace(history'[s])
             /\ step'[t] \notin InTool => Settled(history'[s])
             /\ step'[t] \in InTool => OpenCalls(history'[s], t, todo'[t])
  <2>1. TurnIn(s, t) /\ history[s] # <<>>
    BY <1>1, <1>6, AtWork
  <2>2. history[s][1].role = "user" /\ InPlace(history[s]) /\ Settled(history[s])
    BY <1>1, <2>1 DEF TurnIn
  <2>3. InPlace(Append(history[s], m))
    BY <1>1, <1>2, <1>4, <2>2, AppendInPlace
  <2>4. QED BY <1>2, <1>3, <1>5, <2>1, <2>2, <2>3 DEF InTool
<1>7. QED BY <1>1, <1>2, <1>4, <1>5, <1>6, LoopHistory

\* The answer of a tool.
LEMMA HistoryTool ==
  ASSUME AgentInv, HistoryInv, NEW t \in Turns, NEW s \in Sessions, of[t] = s, step[t] \in InTool,
         of' = of, cut' = cut, slice' = slice, slice[t] = <<>>, PutToolAnswer(t)
  PROVE  HistoryInv'
<1> DEFINE k == todo[t]
<1> DEFINE m == Message("tool", t, k)
<1>0. todo \in [Turns -> Nat] /\ k \in Nat /\ k > 0 /\ history[s] \in Seq(Msg) /\ SessionOK(s) /\ step[t] \in Working
  BY DEF AgentInv, AgentTyped, TurnOK, HistoryInv, Working, InTool
<1>1. m \in Msg /\ m.role = "tool" /\ Put(t, m)
  <2>1. m \in Msg /\ m.role = "tool"
    BY <1>0 DEF Message, Msg
  <2>2. QED BY <2>1 DEF PutToolAnswer
<1>2. /\ todo'[t] = k - 1 /\ \A u \in Turns \ {t} : todo'[u] = todo[u]
  BY <1>0 DEF PutToolAnswer
<1>3. /\ k = 1 => step'[t] = "rounded"
      /\ k # 1 => step'[t] = "tool"
      /\ LoopAt(t, "rounded") \/ LoopAt(t, "tool")
  BY <1>0 DEF PutToolAnswer, LoopAt, AgentInv, AgentTyped
<1>4. /\ OpenCalls(history[s], t, k) /\ k > 1 => OpenCalls(Append(history[s], m), t, k - 1)
      /\ OpenCalls(history[s], t, k) /\ k = 1 => Settled(Append(history[s], m))
  BY <1>0, AppendTool
<1>5. InPlace(history[s]) /\ OpenCalls(history[s], t, k) => InPlace(Append(history[s], m))
  BY <1>0, <1>1, AppendInPlace
<1>6. s \notin cut => TurnIn(s, t) /\ history[s] # <<>>
  BY <1>0, AtWork
<1>7. s \notin cut => /\ history[s] # <<>> /\ history[s][1].role = "user"
                      /\ InPlace(history[s]) /\ OpenCalls(history[s], t, k)
  BY <1>6 DEF TurnIn
<1> HIDE DEF k, m
<1>8. /\ history'[s] = Append(history[s], m)
      /\ \A r \in Sessions \ {s} : history'[r] = history[r]
      /\ history[s] # <<>> /\ history[s][1].role = "user" => history'[s][1].role = "user"
      /\ LastQuestion(history[s], t) => LastQuestion(history'[s], t)
  BY <1>1, Written
<1>9. ASSUME s \notin cut
      PROVE  /\ history'[s][1].role = "user"
             /\ LastQuestion(history[s], t) => LastQuestion(history'[s], t)
             /\ InPlace(history'[s])
             /\ step'[t] \notin InTool => Settled(history'[s])
             /\ step'[t] \in InTool => OpenCalls(history'[s], t, todo'[t])
  <2>1. CASE k = 1
    BY <1>3, <1>4, <1>5, <1>7, <1>8, <1>9, <2>1 DEF InTool
  <2>2. CASE k # 1
    <3>1. k > 1
      BY <1>0, <2>2
    <3>2. QED BY <1>2, <1>3, <1>4, <1>5, <1>7, <1>8, <1>9, <2>2, <3>1 DEF InTool
  <2>3. QED BY <2>1, <2>2
<1>10. \E w \in Working : LoopAt(t, w)
  BY <1>3 DEF Working
<1>11. QED BY <1>0, <1>2, <1>8, <1>9, <1>10, LoopHistory

\* A request that gets the lock and asks its question.
LEMMA HistoryEnter ==
  ASSUME AgentInv, HistoryInv, NEW t \in Turns, Enter(t)
  PROVE  HistoryInv'
<1>4. PICK s : of[t] = s
  OBVIOUS
<1> DEFINE m == Message("user", t, 0)
<1>0. AgentTyped /\ TurnOK(t)
  BY DEF AgentInv
<1>1. /\ at[t] = "waiting" /\ lock[s] = None /\ s \in Sessions /\ step[t] = "idle" /\ SessionOK(s)
      /\ slice[t] = <<>> /\ UNCHANGED <<created, slice, of, round, todo, permits, unaudited, cut>>
  BY <1>0, <1>4, NoSlice DEF Enter, TurnOK, HistoryInv, Trimming
<1>2. ASSUME s \notin cut
      PROVE  /\ InPlace(history[s]) /\ Settled(history[s])
             /\ history[s] # <<>> => history[s][1].role = "user"
  <2>1. TurnIn(s, t)
    BY <1>1, <1>2, <1>4, Holder
  <2>2. QED BY <1>1, <2>1 DEF TurnIn, InTool
<1>3. CASE at' = [at EXCEPT ![t] = "done"] /\ UNCHANGED <<history, lock, step>>
  <2>1. at'[t] = "done" /\ \A u \in Turns \ {t} : at'[u] = at[u]
    BY <1>0, <1>3 DEF AgentTyped
  <2>2. s \notin cut' => TurnIn(s, t)'
    BY <1>1, <1>2, <1>3, <2>1 DEF TurnIn, Held, Working, InTool, ToTrim, DropOldestRound
  <2>3. QED BY <1>1, <1>3, <1>4, <2>1, <2>2, OneTurn
<1>5. CASE /\ history' = [history EXCEPT ![s] = Append(history[s], m)]
           /\ at' = [at EXCEPT ![t] = "entering"]
           /\ step' = [step EXCEPT ![t] = "entered"]
  <2> DEFINE h == history[s]
  <2> DEFINE a == Append(h, m)
  <2>1. /\ at'[t] = "entering" /\ step'[t] = "entered"
        /\ \A u \in Turns \ {t} : at'[u] = at[u] /\ step'[u] = step[u]
    BY <1>0, <1>5 DEF AgentTyped
  <2>2. h \in Seq(Msg) /\ m \in Msg /\ m.role = "user"
    BY <1>0, <1>1 DEF AgentTyped, Message, Msg
  <2>3. history'[s] = a /\ \A r \in Sessions \ {s} : history'[r] = history[r]
    BY <1>0, <1>1, <1>5 DEF AgentTyped
  <2>4. LastQuestion(a, t)
    BY <2>2, AppendQuestion
  <2> HIDE DEF m, h
  <2>5. ASSUME s \notin cut PROVE a[1].role = "user" /\ InPlace(a) /\ Settled(a)
    <3>1. InPlace(h) /\ Settled(h) /\ (h # <<>> => h[1].role = "user") /\ m.role # "tool" /\ m.role # "ask"
      BY <1>2, <2>2, <2>5 DEF h
    <3>2. a[1].role = "user"
      BY <2>2, <3>1, AppendHead
    <3>3. InPlace(a)
      BY <2>2, <3>1, AppendInPlace
    <3>4. Settled(a)
      BY <2>2, <3>1, AppendSettled
    <3>5. QED BY <3>2, <3>3, <3>4
  <2> HIDE DEF a
  <2>6. s \notin cut' => TurnIn(s, t)'
    BY <1>1, <2>1, <2>3, <2>4, <2>5 DEF TurnIn, Held, Working, InTool, ToTrim, DropOldestRound
  <2>7. QED BY <1>1, <1>4, <2>1, <2>3, <2>6, OneTurn
<1>6. QED BY <1>3, <1>4, <1>5 DEF Enter

\* What is left when the oldest round is dropped from a history that begins
\* with a question begins with a question.
LEMMA ToTrimTail ==
  ASSUME NEW h \in Seq(Msg), h # <<>>, h[1].role = "user", ToTrim(h) # <<>>
  PROVE  \E p \in 1 .. Len(h) : ToTrim(h) = SubSeq(h, p, Len(h)) /\ h[p].role = "user"
<1> DEFINE users == {i \in DOMAIN h : h[i].role = "user"}
<1> DEFINE later == users \ {Min(users)}
<1>1. DOMAIN h = 1 .. Len(h) /\ 1 \in users /\ later \subseteq users /\ users \subseteq Nat
  OBVIOUS
<1>2. ToTrim(h) = DropOldestRound(h)
  BY DEF ToTrim
<1>3. later # {} /\ ToTrim(h) = SubSeq(h, Min(later), Len(h))
  BY <1>1, <1>2 DEF DropOldestRound
<1>4. Min(later) \in later
  <2>1. later \subseteq Nat
    BY <1>1
  <2> HIDE DEF later
  <2>2. QED BY <1>3, <2>1, MinIn
<1>5. Min(later) \in 1 .. Len(h) /\ h[Min(later)].role = "user"
  BY <1>1, <1>4
<1>6. QED BY <1>3, <1>5

\* The shorter history, for the turn that trims.
LEMMA ToTrimKeeps ==
  ASSUME NEW h \in Seq(Msg), h # <<>>, h[1].role = "user", ToTrim(h) # <<>>
  PROVE  /\ ToTrim(h)[1].role = "user"
         /\ \A t \in Turns : LastQuestion(h, t) => LastQuestion(ToTrim(h), t)
         /\ InPlace(h) => InPlace(ToTrim(h))
         /\ Settled(h) => Settled(ToTrim(h))
<1>1. PICK p \in 1 .. Len(h) : ToTrim(h) = SubSeq(h, p, Len(h)) /\ h[p].role = "user"
  BY ToTrimTail
<1> DEFINE g == SubSeq(h, p, Len(h))
<1>2. /\ g \in Seq(Msg) /\ Len(g) = Len(h) - p + 1 /\ Len(h) \in Nat /\ p \in Nat
      /\ \A i \in 1 .. Len(h) - p + 1 : g[i] = h[p + i - 1] /\ p + i - 1 \in p .. Len(h)
  BY TailEntries
<1>3. \A t \in Turns : LastQuestion(h, t) => LastQuestion(g, t)
  BY <1>1, TailKeepsQuestion
<1>4. InPlace(h) => InPlace(g)
  BY <1>1, TailInPlace
<1>5. Settled(h) => Settled(g)
  BY TailOpen
<1> HIDE DEF g
<1>6. g[1] = h[p]
  BY <1>2
<1>7. QED BY <1>1, <1>3, <1>4, <1>5, <1>6 DEF g

\* A turn reads the shorter history, or assigns it: what it assigns is still
\* what it would read, as no other turn is at work in the session.
LEMMA HistorySlices ==
  ASSUME AgentInv, HistoryInv, NEW t \in Turns, TrimReads(t) \/ TrimAssigns(t)
  PROVE  HistoryInv'
<1>1. PICK s : of[t] = s
  OBVIOUS
<1>0. AgentTyped /\ TurnOK(t)
  BY DEF AgentInv
<1>2. Trimming(t) /\ UNCHANGED <<lock, at, of, step, todo, cut>>
  BY <1>0 DEF TrimReads, TrimAssigns, TurnOK
<1>3. /\ s \in Sessions /\ SessionOK(s) /\ step[t] \notin InTool
      /\ step[t] = "entered" \/ step[t] \in Working
  BY <1>1, <1>2, TrimmingAt DEF HistoryInv, Trimming, InTool
<1>4. /\ \A u \in Turns \ {t} : slice'[u] = slice[u]
      /\ \A r \in Sessions \ {s} : history'[r] = history[r]
  BY <1>0, <1>1 DEF TrimReads, TrimAssigns, AgentTyped
<1>5. ASSUME s \notin cut' PROVE lock[s] \in {t, None} /\ TurnIn(s, t)'
  <2> DEFINE h == history[s]
  <2>1. lock[s] = t /\ at[t] \in Held /\ TurnIn(s, t) /\ h # <<>> /\ LastQuestion(h, t) /\ h \in Seq(Msg)
    BY <1>0, <1>1, <1>2, <1>3, <1>5, AtWork DEF AgentTyped
  <2>2. /\ h[1].role = "user" /\ InPlace(h) /\ Settled(h)
        /\ slice[t] # <<>> => slice[t] = ToTrim(h)
    BY <1>3, <2>1 DEF TurnIn
  <2>3. CASE TrimReads(t)
    <3>1. history'[s] = h /\ slice'[t] = ToTrim(history'[s])
      BY <1>0, <1>1, <2>3 DEF TrimReads, AgentTyped
    <3>2. TurnIn(s, t)'
      BY <1>2, <1>3, <2>1, <2>2, <3>1 DEF TurnIn, Held, Working, InTool, ToTrim, DropOldestRound
    <3>3. QED BY <2>1, <3>2
  <2>4. CASE TrimAssigns(t)
    <3>1. history'[s] = ToTrim(h) /\ ToTrim(h) # <<>> /\ slice'[t] = <<>>
      BY <1>0, <1>1, <1>3, <2>2, <2>4 DEF TrimAssigns, AgentTyped
    <3> HIDE DEF h
    <3>2. /\ ToTrim(h)[1].role = "user" /\ LastQuestion(ToTrim(h), t)
          /\ InPlace(ToTrim(h)) /\ Settled(ToTrim(h))
      BY <2>1, <2>2, <3>1, ToTrimKeeps
    <3> DEFINE g == ToTrim(h)
    <3> HIDE DEF g
    <3>3. history'[s] = g /\ g[1].role = "user" /\ LastQuestion(g, t) /\ InPlace(g) /\ Settled(g)
      BY <3>1, <3>2 DEF g
    <3>4. TurnIn(s, t)'
      BY <1>2, <1>3, <2>1, <3>1, <3>3 DEF TurnIn, Held, Working, InTool, ToTrim, DropOldestRound
    <3>5. QED BY <2>1, <3>4
  <2>5. QED BY <2>3, <2>4
<1>6. QED BY <1>1, <1>2, <1>3, <1>4, <1>5, OneTurn

\* Trimming is done: the turn goes on or ends.
LEMMA HistoryTrimmed ==
  ASSUME AgentInv, HistoryInv, NEW t \in Turns, Trimmed(t)
  PROVE  HistoryInv'
<1>1. PICK s : of[t] = s
  OBVIOUS
<1>0. AgentTyped /\ TurnOK(t)
  BY DEF AgentInv
<1>2. Trimming(t) /\ slice[t] = <<>> /\ UNCHANGED <<history, slice, of, todo, cut>>
  BY DEF Trimmed
<1>3. s \in Sessions /\ SessionOK(s) /\ step[t] \notin InTool
  BY <1>1, <1>2, TrimmingAt DEF HistoryInv, Trimming, InTool
<1>4. CASE step[t] = "entered" /\ GoesOn(t)
  <2>1. \A u \in Turns \ {t} : at'[u] = at[u] /\ step'[u] = step[u]
    BY <1>0, <1>4 DEF GoesOn, AgentTyped
  <2>2. /\ step'[t] \in {"loop", "idle"}
        /\ step'[t] = "loop" => at'[t] \in {"chatting", "pumping"}
    BY <1>0, <1>4 DEF GoesOn, AgentTyped
  <2>3. ASSUME s \notin cut' PROVE lock[s] \in {t, None} /\ TurnIn(s, t)'
    <3>1. lock[s] = t /\ TurnIn(s, t) /\ LastQuestion(history[s], t)
      BY <1>1, <1>2, <1>3, <1>4, <2>3, AtWork
    <3>2. TurnIn(s, t)'
      BY <1>2, <1>3, <2>2, <3>1 DEF TurnIn, Held, Working, InTool, ToTrim, DropOldestRound
    <3>3. QED BY <3>1, <3>2
  <2>4. QED BY <1>1, <1>2, <1>3, <2>1, <2>3, OneTurn
<1>5. CASE step[t] \in Working /\ (LoopEnds(t) \/ LoopAt(t, "loop"))
  <2>1. LoopEnds(t) \/ \E w \in Working : LoopAt(t, w)
    BY <1>5 DEF Working
  <2>2. step'[t] \notin InTool
    BY <1>0, <1>5 DEF LoopEnds, LoopAt, AgentTyped, InTool
  <2>3. QED BY <1>1, <1>2, <1>3, <1>5, <2>1, <2>2, HistoryKept
<1>6. QED BY <1>4, <1>5 DEF Trimmed, Working

\* The handler of turn t moves, and nothing is said.
LEMMA HistoryHandler ==
  ASSUME AgentInv, HistoryInv, NEW t \in Turns, Pump(t) \/ StreamEnds(t)
  PROVE  HistoryInv'
<1>4. PICK s : of[t] = s
  OBVIOUS
<1>0. AgentTyped /\ TurnOK(t)
  BY DEF AgentInv
<1>1. /\ at[t] \in Held /\ history' = history /\ of' = of /\ step' = step /\ todo' = todo /\ slice' = slice
      /\ cut \subseteq cut' /\ cut' \subseteq cut \cup {s}
  BY <1>4 DEF Pump, StreamEnds, Held
<1>2. /\ \A u \in Turns \ {t} : at'[u] = at[u]
      /\ s \notin cut' => (step'[t] \in Working => at'[t] \in Held)
  <2>1. CASE Pump(t)
    BY <1>0, <2>1 DEF Pump, AgentTyped, Held
  <2>2. CASE StreamEnds(t)
    <3>1. \A u \in Turns \ {t} : at'[u] = at[u]
      BY <1>0, <2>2 DEF StreamEnds, AgentTyped
    <3>2. s \notin cut' => step'[t] = "end"
      BY <1>4, <2>2 DEF StreamEnds
    <3>3. QED BY <3>1, <3>2 DEF Working
  <2>3. QED BY <2>1, <2>2
<1>3. s \in Sessions /\ lock[s] = t /\ SessionOK(s)
  BY <1>0, <1>1, <1>4 DEF TurnOK, Held, HistoryInv
<1>5. ASSUME s \notin cut' PROVE lock[s] \in {t, None} /\ TurnIn(s, t)'
  <2>1. TurnIn(s, t)
    BY <1>1, <1>3, <1>4, <1>5, Holder
  <2>2. LastQuestion(history[s], t)
    BY <1>1, <2>1 DEF TurnIn
  <2>3. TurnIn(s, t)'
    BY <1>1, <1>2, <1>5, <2>1, <2>2 DEF TurnIn, Held, Working, InTool, ToTrim, DropOldestRound
  <2>4. QED BY <1>3, <2>3
<1>6. QED BY <1>1, <1>2, <1>3, <1>4, <1>5, OneTurn

\* A request finds its session: nothing has been said yet.
LEMMA HistoryLookup ==
  ASSUME AgentInv, HistoryInv, NEW t \in Turns, NEW s \in Sessions, Lookup(t, s)
  PROVE  HistoryInv'
<1>0. AgentTyped /\ TurnOK(t)
  BY DEF AgentInv
<1>1. /\ at[t] = "new" /\ of'[t] = s /\ at'[t] = "waiting" /\ step[t] = "idle" /\ slice[t] = <<>>
      /\ \A u \in Turns \ {t} : of'[u] = of[u] /\ at'[u] = at[u]
      /\ history' = history /\ step' = step /\ todo' = todo /\ cut' = cut /\ slice' = slice
  BY <1>0, NoSlice DEF Lookup, AgentTyped, TurnOK, Trimming
<1>2. at'[t] \notin Held /\ step'[t] \notin Working /\ step'[t] \notin InTool /\ step[t] \notin InTool
  BY <1>1 DEF Held, Working, InTool
<1>3. ASSUME NEW r \in Sessions PROVE SessionOK(r)'
  <2>1. ASSUME r \notin cut'
        PROVE  /\ history'[r] # <<>> => history'[r][1].role = "user"
               /\ \A u \in Turns : of'[u] = r /\ at'[u] \in Held => LastQuestion(history'[r], u)
               /\ \A u \in Turns : of'[u] = r /\ step'[u] \in Working => at'[u] \in Held
               /\ InPlace(history'[r])
               /\ (\A u \in Turns : of'[u] = r => step'[u] \notin InTool) => Settled(history'[r])
               /\ \A u \in Turns : of'[u] = r /\ step'[u] \in InTool => OpenCalls(history'[r], u, todo'[u])
               /\ \A u \in Turns : of'[u] = r /\ slice'[u] # <<>> => slice'[u] = ToTrim(history'[r])
    <3>1. /\ history[r] # <<>> => history[r][1].role = "user"
          /\ \A u \in Turns : of[u] = r /\ at[u] \in Held => LastQuestion(history[r], u)
          /\ \A u \in Turns : of[u] = r /\ step[u] \in Working => at[u] \in Held
          /\ InPlace(history[r])
          /\ (\A u \in Turns : of[u] = r => step[u] \notin InTool) => Settled(history[r])
          /\ \A u \in Turns : of[u] = r /\ step[u] \in InTool => OpenCalls(history[r], u, todo[u])
          /\ \A u \in Turns : of[u] = r /\ slice[u] # <<>> => slice[u] = ToTrim(history[r])
      BY <1>1, <2>1 DEF HistoryInv, SessionOK
    <3>2. ASSUME \A u \in Turns : of'[u] = r => step'[u] \notin InTool PROVE Settled(history'[r])
      <4>1. ASSUME NEW u \in Turns, of[u] = r PROVE step[u] \notin InTool
        BY <1>1, <1>2, <3>2, <4>1
      <4>2. QED BY <1>1, <3>1, <4>1
    <3>3. ASSUME NEW u \in Turns, of'[u] = r
          PROVE  u = t \/ (of[u] = r /\ at'[u] = at[u])
      BY <1>1, <3>3
    <3>4. QED BY <1>1, <1>2, <3>1, <3>2, <3>3
  <2>2. QED BY <2>1 DEF SessionOK, Held, Working, InTool, ToTrim, DropOldestRound
<1>4. QED BY <1>3 DEF HistoryInv

\* Nothing the histories depend on changes.
LEMMA HistoryStill ==
  ASSUME HistoryInv, UNCHANGED <<history, slice, at, of, step, todo, cut>>
  PROVE  HistoryInv'
<1>1. ASSUME NEW s \in Sessions PROVE SessionOK(s)'
  <2>1. SessionOK(s)
    BY DEF HistoryInv
  <2>2. QED BY <2>1 DEF SessionOK, Held, Working, InTool, ToTrim, DropOldestRound
<1>2. QED BY <1>1 DEF HistoryInv

\* A step of a loop.
LEMMA HistoryLoop ==
  ASSUME AgentInv, HistoryInv, NEW t \in Turns,
         \/ Ask(t) \/ WorkerGivesUp(t) \/ ChatTool(t) \/ StreamTool(t) \/ StreamToolDone(t)
         \/ \E o \in CompleteStreamOutcomes : Reply(t, o)
  PROVE  HistoryInv'
<1> DEFINE s == of[t]
<1>0. AgentTyped /\ TurnOK(t)
  BY DEF AgentInv
<1>1. step[t] \in Working /\ of' = of /\ slice' = slice /\ ~Trimming(t)
  BY DEF Ask, WorkerGivesUp, ChatTool, StreamTool, StreamToolDone, Reply, Working, Trimming
<1>2. s \in Sessions /\ slice[t] = <<>>
  BY <1>0, <1>1, NoSlice DEF TurnOK, Working
<1>3. of[t] = s
  OBVIOUS
<1> HIDE DEF s
<1>4. LoopEnds(t) => step'[t] = "end"
  BY <1>0 DEF LoopEnds, AgentTyped
<1>5. ASSUME NEW w \in Working, LoopAt(t, w) PROVE step'[t] = w
  BY <1>0, <1>5 DEF LoopAt, AgentTyped
<1>6. CASE Ask(t)
  <2>1. step[t] = "loop" /\ todo' = todo /\ cut' = cut
    BY <1>6 DEF Ask
  <2>2. CASE Put(t, Message("answer", t, 0)) /\ LoopAt(t, "replied")
    BY <1>1, <1>2, <1>3, <2>1, <2>2, HistoryAnswer
  <2>3. CASE KeepHistory /\ (LoopEnds(t) \/ LoopAt(t, "model"))
    <3>1. LoopEnds(t) \/ \E w \in Working : LoopAt(t, w)
      BY <2>3 DEF Working
    <3>2. step'[t] \notin InTool /\ step[t] \notin InTool
      BY <1>4, <1>5, <2>1, <2>3 DEF InTool, Working
    <3>3. history' = history
      BY <2>3 DEF KeepHistory
    <3>4. QED BY <1>1, <1>2, <1>3, <2>1, <3>1, <3>2, <3>3, HistoryKept
  <2>4. QED BY <1>6, <2>2, <2>3 DEF Ask
<1>7. CASE WorkerGivesUp(t)
  <2>1. step[t] = "loop" /\ todo' = todo /\ cut' = cut /\ history' = history /\ LoopEnds(t)
    BY <1>7 DEF WorkerGivesUp, KeepHistory
  <2>2. step'[t] \notin InTool /\ step[t] \notin InTool
    BY <1>4, <2>1 DEF InTool
  <2>3. QED BY <1>1, <1>2, <1>3, <2>1, <2>2, HistoryKept
<1>8. CASE ChatTool(t)
  <2>1. step[t] \in InTool /\ cut' = cut /\ PutToolAnswer(t)
    BY <1>8 DEF ChatTool, InTool
  <2>2. QED BY <1>1, <1>2, <1>3, <2>1, HistoryTool
<1>9. ASSUME StreamCut(t) PROVE HistoryInv'
  <2>1. todo' = todo /\ cut' = cut \cup {s} /\ history' = history /\ LoopEnds(t)
    BY <1>3, <1>9 DEF StreamCut, KeepHistory
  <2>2. s \in cut' /\ cut \subseteq cut'
    BY <2>1
  <2>3. QED BY <1>1, <1>2, <1>3, <2>1, <2>2, HistoryKept
<1>10. CASE StreamTool(t)
  <2>1. CASE StreamCut(t)
    BY <1>9, <2>1
  <2>2. CASE LoopAt(t, "ran") /\ KeepHistory /\ todo' = todo /\ cut' = cut
    <3>1. history' = history /\ \E w \in Working : LoopAt(t, w)
      BY <2>2 DEF Working, KeepHistory
    <3>2. step'[t] \in InTool /\ step[t] \in InTool
      BY <1>5, <1>10, <2>2 DEF InTool, Working, StreamTool
    <3>3. QED BY <1>1, <1>2, <1>3, <2>2, <3>1, <3>2, HistoryKept
  <2>3. QED BY <1>10, <2>1, <2>2 DEF StreamTool
<1>11. CASE StreamToolDone(t)
  <2>1. CASE StreamCut(t)
    BY <1>9, <2>1
  <2>2. CASE PutToolAnswer(t) /\ cut' = cut
    <3>1. step[t] \in InTool
      BY <1>11 DEF StreamToolDone, InTool
    <3>2. QED BY <1>1, <1>2, <1>3, <2>2, <3>1, HistoryTool
  <2>3. QED BY <1>11, <2>1, <2>2 DEF StreamToolDone
<1>12. ASSUME NEW o \in CompleteStreamOutcomes, Reply(t, o) PROVE HistoryInv'
  <2>1. step[t] = "model" /\ cut' = cut
    BY <1>12 DEF Reply
  <2>2. CASE KeepHistory /\ LoopEnds(t) /\ todo' = todo
    <3>1. step'[t] \notin InTool /\ step[t] \notin InTool /\ history' = history
      BY <1>4, <2>1, <2>2 DEF InTool, KeepHistory
    <3>2. QED BY <1>1, <1>2, <1>3, <2>1, <2>2, <3>1, HistoryKept
  <2>3. CASE Put(t, Message("answer", t, 0)) /\ LoopAt(t, "replied") /\ todo' = todo
    BY <1>1, <1>2, <1>3, <2>1, <2>3, HistoryAnswer
  <2>4. CASE /\ o[1] = "calls" /\ Put(t, Message("ask", t, o[2]))
             /\ todo' = [todo EXCEPT ![t] = o[2]] /\ LoopAt(t, "tool")
    <3> DEFINE k == o[2]
    <3>1. /\ k \in Nat /\ Put(t, Message("ask", t, k)) /\ todo' = [todo EXCEPT ![t] = k]
      BY <2>4, OutcomesTyped
    <3> HIDE DEF k
    <3>2. QED BY <1>1, <1>2, <1>3, <2>1, <2>4, <3>1, HistoryCalls
  <2>5. QED BY <1>12, <2>2, <2>3, <2>4 DEF Reply
<1>13. QED BY <1>6, <1>7, <1>8, <1>10, <1>11, <1>12

\* No history.
LEMMA HistoryInitOK == AgentInit => HistoryInv
<1> SUFFICES ASSUME AgentInit, NEW s \in Sessions PROVE SessionOK(s)
  BY DEF HistoryInv
<1>1. history[s] = <<>> /\ \A t \in Turns : step[t] = "idle" /\ at[t] = "new" /\ slice[t] = <<>>
  BY DEF AgentInit
<1>2. \A t \in Turns : step[t] \notin Working /\ step[t] \notin InTool /\ at[t] \notin Held
  BY <1>1 DEF Working, InTool, Held
<1>3. InPlace(history[s]) /\ Settled(history[s])
  BY <1>1 DEF InPlace, Settled
<1>4. QED BY <1>1, <1>2, <1>3 DEF SessionOK

\* Every step keeps the histories.
LEMMA HistoryNextKeeps == AgentInv /\ HistoryInv /\ [AgentNext]_agentVars => HistoryInv'
<1> SUFFICES ASSUME AgentInv, HistoryInv, [AgentNext]_agentVars PROVE HistoryInv'
  OBVIOUS
<1>1. ASSUME NEW t \in Turns, AgentTurn(t) PROVE HistoryInv'
  <2>1. \A o : o \in CompleteOutcomes => o \in CompleteStreamOutcomes
    BY DEF CompleteStreamOutcomes
  <2>2. ASSUME NEW s \in Sessions, Chat(t, s) \/ Stream(t, s) PROVE HistoryInv'
    BY <2>2, HistoryLookup DEF Chat, Stream
  <2>3. ASSUME ChatReply(t) \/ StreamReply(t) PROVE HistoryInv'
    <3>1. \E o \in CompleteStreamOutcomes : Reply(t, o)
      BY <2>1, <2>3 DEF ChatReply, StreamReply
    <3>2. QED BY <3>1, HistoryLoop
  <2>4. QED
    BY <1>1, <2>2, <2>3, HistoryEnter, HistoryLoop, HistorySlices, HistoryTrimmed, HistoryHandler
    DEF AgentTurn, ChatLocked, StreamLocked, Trim
<1>2. ASSUME \/ SessionsCreate \/ SessionsList \/ UNCHANGED agentVars
             \/ \E s \in Sessions : SessionsDelete(s) \/ Messages(s) \/ TimePasses(s)
      PROVE  HistoryInv'
  <2>1. UNCHANGED <<history, slice, at, of, step, todo, cut>>
    BY <1>2 DEF SessionsCreate, SessionsList, SessionsDelete, Messages, TimePasses, agentVars
  <2>2. QED BY <2>1, HistoryStill
<1>3. QED BY <1>1, <1>2 DEF AgentNext

\* What the invariants say of the histories.
LEMMA HistoryImplies == AgentInv /\ HistoryInv => HistoryWellFormed
<1> SUFFICES ASSUME AgentInv, HistoryInv PROVE HistoryWellFormed
  OBVIOUS
<1>0. AgentTyped /\ LocksOK /\ (\A t \in Turns : TurnOK(t)) /\ (\A s \in Sessions : SessionOK(s))
  BY DEF AgentInv, HistoryInv
<1>1. ASSUME NEW s \in Sessions, s \notin cut
      PROVE  (history[s] # <<>> => Head(history[s]).role = "user") /\ RoundsIntact(history[s])
  <2> DEFINE h == history[s]
  <2>1. h \in Seq(Msg) /\ (h # <<>> => h[1].role = "user") /\ InPlace(h)
    BY <1>0, <1>1 DEF AgentTyped, SessionOK
  <2>2. h # <<>> => Head(h) = h[1]
    BY <2>1
  <2>3. DOMAIN h = 1 .. Len(h) /\ \A i \in 1 .. Len(h) : h[i] \in Msg
    BY <2>1
  <2>4. ASSUME NEW i \in 1 .. Len(h), h[i].role = "ask", i + h[i].n > Len(h)
        PROVE  step[h[i].turn] \in {"tool", "ran"} /\ i + h[i].n = Len(h) + todo[h[i].turn]
    <3>1. h[i].n \in Nat /\ Len(h) \in Nat
      BY <2>1, <2>3, MsgFields
    <3>2. ~Settled(h)
      BY <2>4, <3>1 DEF Settled
    <3>3. PICK t \in Turns : of[t] = s /\ step[t] \in InTool
      BY <1>0, <1>1, <3>2 DEF SessionOK
    <3>4. OpenCalls(h, t, todo[t])
      BY <1>0, <1>1, <3>3 DEF SessionOK
    <3> HIDE DEF h
    <3>5. h[i].turn = t /\ i + h[i].n = Len(h) + todo[t]
      BY <2>4, <3>4 DEF OpenCalls
    <3>6. QED BY <3>3, <3>5 DEF InTool
  <2> HIDE DEF h
  <2>5. RoundsIntact(h)
    BY <2>1, <2>3, <2>4 DEF RoundsIntact, InPlace
  <2>6. QED BY <2>1, <2>2, <2>5 DEF h
<1>2. QuestionKept
  <2>1. SUFFICES ASSUME NEW t \in Turns, step[t] = "loop", lock[of[t]] = t, of[t] \notin cut
                 PROVE  LET sent == TrimHistory(history[of[t]]) IN
                        /\ Message("user", t, 0) \in {sent[i] : i \in DOMAIN sent}
                        /\ Head(sent).role = "user"
    BY DEF QuestionKept
  <2> DEFINE h == history[of[t]]
  <2> DEFINE sent == TrimHistory(h)
  <2>2. of[t] \in Sessions
    BY <1>0, <2>1 DEF TurnOK
  <2>3. at[t] \in Held
    BY <1>0, <2>1, <2>2, AgentAssumption DEF LocksOK
  <2>4. h \in Seq(Msg) /\ h # <<>> /\ h[1].role = "user" /\ LastQuestion(h, t)
    <3>1. h \in Seq(Msg) /\ LastQuestion(h, t) /\ (h # <<>> => h[1].role = "user")
      BY <1>0, <2>1, <2>2, <2>3 DEF AgentTyped, SessionOK
    <3> HIDE DEF h
    <3>2. h # <<>>
      BY <3>1 DEF LastQuestion
    <3>3. QED BY <3>1, <3>2 DEF h
  <2>5. Budget - 1 \in Int /\ TrimHistory(h) = Shorten(h, Budget - 1)
    BY AgentAssumption DEF TrimHistory
  <2> DEFINE limit == Budget - 1
  <2> HIDE DEF h, limit
  <2>6. sent \in Seq(Msg) /\ sent # <<>> /\ sent[1].role = "user" /\ LastQuestion(sent, t)
    <3>1. limit \in Int /\ sent = Shorten(h, limit)
      BY <2>5 DEF limit
    <3>2. QED BY <2>4, <3>1, ShortenKeeps
  <2> HIDE DEF sent
  <2>7. Head(sent) = sent[1] /\ DOMAIN sent = 1 .. Len(sent)
    BY <2>6
  <2>8. \E i \in 1 .. Len(sent) : sent[i] = Message("user", t, 0)
    BY <2>6 DEF LastQuestion
  <2>9. Message("user", t, 0) \in {sent[i] : i \in DOMAIN sent} /\ Head(sent).role = "user"
    BY <2>6, <2>7, <2>8
  <2>10. QED BY <2>9 DEF sent, h
<1>3. ASSUME NEW t \in Turns, slice[t] # <<>>, of[t] \notin cut
      PROVE  slice[t] = ToTrim(history[of[t]])
  <2>1. of[t] \in Sessions
    BY <1>0, <1>3, TrimmingAt DEF TurnOK
  <2>2. QED BY <1>0, <1>3, <2>1 DEF SessionOK
<1>4. QED BY <1>1, <1>2, <1>3 DEF HistoryWellFormed

\* For any number of sessions, turns and messages and any budget, in a session
\* in which no stream was cut short: what is sent to the model begins with a
\* question and contains that of the turn that asks, the answers of every ask
\* stand right behind it, and although a history is read and assigned in two
\* steps, what is assigned is what would be read then (agent.py:211-251,
\* 435-458, agent_stream.py:165-184).
THEOREM HistoryAlwaysKept == AgentSpec => []HistoryWellFormed
  BY AgentInitOK, AgentNextKeeps, HistoryInitOK, HistoryNextKeeps, HistoryImplies, PTL DEF AgentSpec
=============================================================================
