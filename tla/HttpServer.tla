----------------------------- MODULE HttpServer -----------------------------
(***************************************************************************)
(* BoundedThreadingHTTPServer of portal/server.py and the shutdown order   *)
(* of main in portal/portal.py.                                            *)
(*                                                                         *)
(* The accepting thread (serve_forever) admits a request when one of as    *)
(* many slots as there are workers is free, and puts it into the work      *)
(* queue.  A worker that finds the queue empty for 0.1 s looks at          *)
(* _workers_closing.  At shutdown accepting stops, server_close sets       *)
(* _workers_closing and drain waits for the admitted requests and joins    *)
(* the workers.  A handler may take for ever (a stream).  Sockets,         *)
(* responses and metrics are left out.                                     *)
(***************************************************************************)
EXTENDS Integers, Sequences, FiniteSets

CONSTANTS
  Requests,   \* connections
  NoRequest,  \* a worker that has not handled a request yet
  Workers     \* worker threads; max_workers of them

ASSUME ServerAssumption ==
  /\ IsFiniteSet(Requests) /\ NoRequest \notin Requests
  /\ IsFiniteSet(Workers) /\ Workers # {}

VARIABLES
  state,     \* where each request is: see RequestStates
  slots,     \* the value of _worker_slots
  active,    \* _active_requests
  work,      \* _work
  worker,    \* where each worker is: see WorkerStates
  job,       \* the last request of each worker
  accepting, \* serve_forever runs
  closing,   \* _workers_closing
  drain      \* where drain is

reqVars == <<state, slots, active, work>>
workerVars == <<worker, job>>
endVars == <<accepting, closing, drain>>
vars == <<reqVars, workerVars, endVars>>

MaxWorkers == Cardinality(Workers)

(* uncounted: out of _active_requests, its slot not given back yet.        *)
RequestStates == {"new", "queued", "handled", "uncounted", "done", "refused"}

(* get: in _work.get; empty: get has raised Empty; busy: in the handler;   *)
(* counting and releasing: in the finally of process_request_thread.       *)
WorkerStates == {"get", "empty", "busy", "counting", "releasing", "returned"}

Init ==
  /\ state = [r \in Requests |-> "new"]
  /\ slots = MaxWorkers
  /\ active = 0
  /\ work = <<>>
  /\ worker = [w \in Workers |-> "get"]
  /\ job = [w \in Workers |-> NoRequest]
  /\ accepting = TRUE
  /\ closing = FALSE
  /\ drain = "no"

-----------------------------------------------------------------------------
(* process_request, under the admission lock. *)
Admit(r) ==
  /\ accepting /\ state[r] = "new"
  /\ ~closing /\ slots > 0
  /\ Len(work) < MaxWorkers
  /\ slots' = slots - 1
  /\ active' = active + 1
  /\ work' = Append(work, r)
  /\ state' = [state EXCEPT ![r] = "queued"]
  /\ UNCHANGED <<workerVars, endVars>>

(* No slot is free (503), the server is closing (503), or settimeout or    *)
(* put_nowait raises and the slot and the count are given back.            *)
Refuse(r) ==
  /\ accepting /\ state[r] = "new"
  /\ state' = [state EXCEPT ![r] = "refused"]
  /\ UNCHANGED <<slots, active, work, workerVars, endVars>>

-----------------------------------------------------------------------------
(* _worker_loop *)
Go(w, p) == worker' = [worker EXCEPT ![w] = p]

Get(w) ==
  /\ worker[w] = "get" /\ work # <<>>
  /\ job' = [job EXCEPT ![w] = Head(work)]
  /\ work' = Tail(work)
  /\ state' = [state EXCEPT ![Head(work)] = "handled"]
  /\ Go(w, "busy")
  /\ UNCHANGED <<slots, active, endVars>>

(* The queue has been empty for 0.1 s. *)
GetTimesOut(w) ==
  /\ worker[w] = "get" /\ work = <<>>
  /\ Go(w, "empty")
  /\ UNCHANGED <<reqVars, job, endVars>>

(* Fault: the worker leaves when the queue is empty for a while.           *)
LeaveWhenEmpty(w) ==
  /\ worker[w] = "empty"
  /\ Go(w, "returned")
  /\ UNCHANGED <<reqVars, job, endVars>>

LookAtClosing(w) ==
  /\ worker[w] = "empty"
  /\ Go(w, IF closing THEN "returned" ELSE "get")
  /\ UNCHANGED <<reqVars, job, endVars>>

(* The handler returns or raises. *)
HandlerEnds(w) ==
  /\ worker[w] = "busy"
  /\ Go(w, "counting")
  /\ UNCHANGED <<reqVars, job, endVars>>

CountDown(w) ==
  /\ worker[w] = "counting"
  /\ active' = active - 1
  /\ state' = [state EXCEPT ![job[w]] = "uncounted"]
  /\ Go(w, "releasing")
  /\ UNCHANGED <<slots, work, job, endVars>>

(* Fault: the slot is given back only when the handler did not raise.      *)
ReleaseSlotOnSuccess(w) ==
  /\ worker[w] = "releasing"
  /\ slots' \in {slots, slots + 1}
  /\ state' = [state EXCEPT ![job[w]] = "done"]
  /\ Go(w, "get")
  /\ UNCHANGED <<active, work, job, endVars>>

ReleaseSlot(w) ==
  /\ worker[w] = "releasing"
  /\ slots' = slots + 1
  /\ state' = [state EXCEPT ![job[w]] = "done"]
  /\ Go(w, "get")
  /\ UNCHANGED <<active, work, job, endVars>>

-----------------------------------------------------------------------------
(* main, after SIGTERM or an interrupt: serve_forever returns, then        *)
(* server_close, then drain.                                               *)
StopAccepting ==
  /\ accepting
  /\ accepting' = FALSE
  /\ UNCHANGED <<reqVars, workerVars, closing, drain>>

ServerClose ==
  /\ ~accepting /\ ~closing
  /\ closing' = TRUE
  /\ drain' = "waiting"
  /\ UNCHANGED <<reqVars, workerVars, accepting>>

(* Fault: drain looks at the queue instead of the count of requests.       *)
DrainWaitsForQueue ==
  /\ drain = "waiting" /\ work = <<>>
  /\ drain' = "true"
  /\ UNCHANGED <<reqVars, workerVars, accepting, closing>>

DrainWaits ==
  /\ drain = "waiting" /\ active = 0
  /\ drain' = "joining"
  /\ UNCHANGED <<reqVars, workerVars, accepting, closing>>

DrainJoins ==
  /\ drain = "joining"
  /\ \A w \in Workers : worker[w] = "returned"
  /\ drain' = "true"
  /\ UNCHANGED <<reqVars, workerVars, accepting, closing>>

DrainTimesOut ==
  /\ drain \in {"waiting", "joining"}
  /\ drain' = "false"
  /\ UNCHANGED <<reqVars, workerVars, accepting, closing>>

Next ==
  \/ \E r \in Requests : Admit(r) \/ Refuse(r)
  \/ \E w \in Workers : \/ Get(w) \/ GetTimesOut(w) \/ LookAtClosing(w)
                        \/ HandlerEnds(w) \/ CountDown(w) \/ ReleaseSlot(w)
  \/ StopAccepting \/ ServerClose
  \/ DrainWaits \/ DrainJoins \/ DrainTimesOut

Spec == Init /\ [][Next]_vars

(* Workers run on, but a handler may never end.                            *)
Fairness ==
  \A w \in Workers : /\ WF_vars(Get(w)) /\ WF_vars(LookAtClosing(w))
                     /\ WF_vars(CountDown(w)) /\ WF_vars(ReleaseSlot(w))

FairSpec == Spec /\ Fairness

-----------------------------------------------------------------------------
(* The type invariant. *)
TypeOK ==
  /\ state \in [Requests -> RequestStates]
  /\ slots \in 0 .. MaxWorkers
  /\ active \in 0 .. MaxWorkers
  /\ work \in Seq(Requests)
  /\ worker \in [Workers -> WorkerStates]
  /\ job \in [Workers -> Requests \cup {NoRequest}]
  /\ accepting \in BOOLEAN /\ closing \in BOOLEAN
  /\ drain \in {"no", "waiting", "joining", "true", "false"}

(* Each slot that is not free belongs to one request, from its admission   *)
(* to the end of the worker's finally, and the counter that drain waits    *)
(* for lags behind by the requests between the two updates: no path leaks  *)
(* a slot and BoundedSemaphore.release never raises.                       *)
SlotsExact ==
  /\ MaxWorkers - slots =
       Cardinality({r \in Requests : state[r] \in {"queued", "handled", "uncounted"}})
  /\ active = Cardinality({r \in Requests : state[r] \in {"queued", "handled"}})

(* An admitted request never waits for another request's handler: as long  *)
(* as the server is open, there is an idle worker for each queued request. *)
WorkerForEach ==
  ~closing => Len(work) <= Cardinality({w \in Workers : worker[w] \in {"get", "empty"}})

(* When drain has returned True every admitted request has been handled    *)
(* to the end, and no worker is left to touch what main closes next.       *)
DrainIsComplete ==
  drain = "true" => /\ \A r \in Requests : state[r] \in {"new", "done", "refused"}
                    /\ \A w \in Workers : worker[w] = "returned"

(* The types, the slots, a worker for each admitted request, and what a    *)
(* drain that returned True promises (server.py, portal.py main).          *)
ServerConsistent == TypeOK /\ SlotsExact /\ WorkerForEach /\ DrainIsComplete

(* An admitted request reaches its handler although other handlers may     *)
(* never end, unless the server is shut down meanwhile.  A request is      *)
(* queued once: from some point on, none waits in a server that serves.    *)
AdmittedIsHandled ==
  <>[](\A r \in Requests : state[r] = "queued" => closing)

(* The workers leave only when no admitted request is left for them.       *)
NobodyStranded ==
  (\A w \in Workers : worker[w] = "returned") => work = <<>>
=============================================================================
