------------------------------- MODULE Monitor -------------------------------
(***************************************************************************)
(* host/task/sampler.py, host/service/monitor.py and                       *)
(* host/api/handlers/monitor.py, for one board: a sampler collects from    *)
(* the board on a thread of its own and keeps a bounded series; requests   *)
(* and event streams start it, `disable' and the board's deletion stop it. *)
(* A handler looks the board up first and asks the service later, and the  *)
(* agent's tool does not look at all, so a sampler may be started for a    *)
(* board that has been deleted, any number of times.                       *)
(*                                                                         *)
(* A sample is its time stamp.  Stamps are numbered up to MaxTime and      *)
(* stay there (bound of the model).                                        *)
(***************************************************************************)
EXTENDS SseHub, Sequences

CONSTANTS Samplers,    \* 1..n, in the order they are made
          SThreads,    \* slots for sampler threads
          Watchers,    \* requests and event streams
          NoSampler,
          MaxPoints,   \* max_points
          StopAfter,   \* _STOP_AFTER, in collections
          MaxTime

ASSUME MonitorAssumption ==
  /\ {"monitor", "agent"} \subseteq Kinds
  /\ {MaxPoints, StopAfter, MaxTime} \subseteq Nat \ {0}
  /\ NoSampler \notin Samplers

VARIABLES
  clock,
  smp,        \* the samplers
  thr,        \* the threads
  curSmp,     \* MonitorService._samplers of the board
  monClosed,  \* MonitorService._closed
  board,      \* known, deleted from the registry, or forgotten by the services
  watch       \* the requests

monVars == <<clock, smp, thr, curSmp, monClosed, board, watch, conns, byKind>>

\* silent: time since the last good sample, or since the first start.
NewSampler == [used |-> FALSE, stop |-> FALSE, okEver |-> FALSE, silent |-> 0, buf |-> <<>>]
NoThread == [of |-> NoSampler, at |-> "dead", ts |-> 0, reach |-> FALSE]
NewThread(s) == [of |-> s, at |-> "check", ts |-> 0, reach |-> FALSE]
NewWatch == [at |-> "new", prev |-> 0, last |-> 0]

MonInit ==
  /\ clock = 0
  /\ smp = [s \in Samplers |-> NewSampler]
  /\ thr = [t \in SThreads |-> NoThread]
  /\ curSmp = NoSampler /\ monClosed = FALSE /\ board = "known"
  /\ watch = [w \in Watchers |-> NewWatch]
  /\ HubInit

Live(s) == \E t \in SThreads : thr[t].of = s /\ thr[t].at # "dead"

-----------------------------------------------------------------------------
(* Starting and stopping.                                                  *)

\* Slip: the flag is cleared before the thread is looked at.
StartClearsFirst(s) ==
  IF Live(s)
  THEN smp' = [smp EXCEPT ![s].stop = FALSE] /\ UNCHANGED thr
  ELSE \E t \in SThreads :
         /\ thr[t].at = "dead"
         /\ thr' = [thr EXCEPT ![t] = NewThread(s)]
         /\ smp' = [smp EXCEPT ![s] = [@ EXCEPT !.used = TRUE, !.stop = FALSE]]

\* Slip: a second thread is started beside the first.
StartAnother(s) ==
  \E t \in SThreads :
    /\ thr[t].at = "dead"
    /\ thr' = [thr EXCEPT ![t] = NewThread(s)]
    /\ smp' = [smp EXCEPT ![s] = [@ EXCEPT !.used = TRUE, !.stop = FALSE]]

\* DeviceSampler.start: nothing happens while a thread is alive, be it one
\* that was told to stop.  _last_ok is kept from the last time.
Start(s) ==
  IF Live(s)
  THEN UNCHANGED <<thr, smp>>
  ELSE \E t \in SThreads :
         /\ thr[t].at = "dead"
         /\ thr' = [thr EXCEPT ![t] = NewThread(s)]
         /\ smp' = [smp EXCEPT ![s] = [smp[s] EXCEPT !.used = TRUE, !.stop = FALSE,
                                         !.silent = IF smp[s].okEver THEN smp[s].silent ELSE 0]]

\* MonitorService.get_or_start.
GetOrStart ==
  \E s \in Samplers :
    /\ ~monClosed
    /\ IF curSmp # NoSampler THEN s = curSmp
       ELSE ~smp[s].used /\ \A y \in Samplers : ~smp[y].used => s <= y
    /\ Start(s)
    /\ curSmp' = s

\* DeviceSampler.stop waits five seconds for the thread; a collection may
\* take longer.
Stop(s) == smp' = IF s = NoSampler THEN smp ELSE [smp EXCEPT ![s].stop = TRUE]

Disable ==
  /\ curSmp # NoSampler /\ ~smp[curSmp].stop
  /\ Stop(curSmp)
  /\ UNCHANGED <<clock, thr, curSmp, monClosed, board, watch, hubVars>>

\* The board is deleted from the registry, then its services forget it.
DeleteBoard ==
  /\ board = "known"
  /\ board' = "deleted"
  /\ UNCHANGED <<clock, smp, thr, curSmp, monClosed, watch, hubVars>>

RemoveDevice ==
  /\ board = "deleted"
  /\ board' = "forgotten"
  /\ Stop(curSmp) /\ curSmp' = NoSampler
  /\ UNCHANGED <<clock, thr, monClosed, watch, hubVars>>

CloseMonitor ==
  /\ ~monClosed
  /\ monClosed' = TRUE
  /\ Stop(curSmp) /\ curSmp' = NoSampler
  /\ UNCHANGED <<clock, thr, board, watch, hubVars>>

-----------------------------------------------------------------------------
(* The thread: _run.                                                       *)

SamplerEnds(t) ==
  /\ thr[t].at = "check" /\ smp[thr[t].of].stop
  /\ thr' = [thr EXCEPT ![t] = NoThread]
  /\ UNCHANGED <<clock, smp, curSmp, monClosed, board, watch, hubVars>>

\* collect_now stamps the sample and makes the transport, which needs a board
\* that is known (reach), before it asks the board.
SamplerAsks(t) ==
  LET now == IF clock < MaxTime THEN clock + 1 ELSE clock IN
  /\ thr[t].at = "check" /\ ~smp[thr[t].of].stop
  /\ clock' = now
  /\ thr' = [thr EXCEPT ![t] = [thr[t] EXCEPT !.at = "collect", !.ts = now, !.reach = (board = "known")]]
  /\ UNCHANGED <<smp, curSmp, monClosed, board, watch, hubVars>>

Keep(buf, ts) ==
  LET long == Append(buf, ts) IN IF Len(long) > MaxPoints THEN Tail(long) ELSE long

\* A good sample, over a transport that was made; the board may have been
\* deleted since.
SamplerGets(t) ==
  LET s == thr[t].of IN
  /\ thr[t].at = "collect" /\ thr[t].reach
  /\ smp' = [smp EXCEPT ![s] = [smp[s] EXCEPT !.okEver = TRUE, !.silent = 0,
                                              !.buf = Keep(smp[s].buf, thr[t].ts)]]
  /\ thr' = [thr EXCEPT ![t] = [thr[t] EXCEPT !.at = "check", !.ts = 0, !.reach = FALSE]]
  /\ UNCHANGED <<clock, curSmp, monClosed, board, watch, hubVars>>

\* Slip: the thread goes on for ever.
SamplerFailsOn(t) ==
  LET s == thr[t].of IN
  /\ thr[t].at = "collect"
  /\ smp' = [smp EXCEPT ![s].buf = Keep(@, thr[t].ts)]
  /\ thr' = [thr EXCEPT ![t] = [@ EXCEPT !.at = "check", !.ts = 0, !.reach = FALSE]]
  /\ UNCHANGED <<clock, curSmp, monClosed, board, watch, hubVars>>

\* A gap is recorded; after StopAfter without a good sample the thread ends.
SamplerFails(t) ==
  LET s == thr[t].of
      silent == IF smp[s].silent < StopAfter THEN smp[s].silent + 1 ELSE StopAfter
  IN  /\ thr[t].at = "collect"
      /\ smp' = [smp EXCEPT ![s] = [smp[s] EXCEPT !.silent = silent,
                                                  !.buf = Keep(smp[s].buf, thr[t].ts)]]
      /\ thr' = [thr EXCEPT ![t] = IF silent = StopAfter THEN NoThread
                                   ELSE [thr[t] EXCEPT !.at = "check", !.ts = 0, !.reach = FALSE]]
      /\ UNCHANGED <<clock, curSmp, monClosed, board, watch, hubVars>>

\* A stopped sampler gets older.
SamplerAges(s) ==
  /\ smp[s].used /\ ~Live(s) /\ smp[s].silent < StopAfter
  /\ smp' = [smp EXCEPT ![s].silent = StopAfter]
  /\ UNCHANGED <<clock, thr, curSmp, monClosed, board, watch, hubVars>>

-----------------------------------------------------------------------------
(* Requests and event streams.                                             *)

Watch(w, r) ==
  /\ watch' = [watch EXCEPT ![w] = r]
  /\ UNCHANGED <<clock, monClosed, board>>

\* _check_device.
WatchChecks(w) ==
  /\ watch[w].at = "new"
  /\ Watch(w, [watch[w] EXCEPT !.at = IF board # "known" THEN "done" ELSE "checked"])
  /\ UNCHANGED <<smp, thr, curSmp, hubVars>>

\* _enable and _now: the service starts the sampler; closed, it raises.
Enable(w) ==
  /\ watch[w].at = "checked"
  /\ Watch(w, [watch[w] EXCEPT !.at = "done"])
  /\ GetOrStart \/ (monClosed /\ UNCHANGED <<smp, thr, curSmp>>)
  /\ UNCHANGED hubVars

\* The agent's monitor tool, of any board at any time; closed, the service
\* raises and nothing changes.
AgentMonitors ==
  /\ GetOrStart
  /\ UNCHANGED <<clock, monClosed, board, watch, hubVars>>

\* _stream: first a place in the hub, given back when the service raises.
WatchJoins(w) ==
  /\ watch[w].at = "checked"
  /\ \/ /\ HubAdd(w, "monitor")
        /\ Watch(w, [watch[w] EXCEPT !.at = "joined"])
     \/ /\ ~HubFits("monitor")
        /\ Watch(w, [watch[w] EXCEPT !.at = "done"])
        /\ UNCHANGED hubVars
  /\ UNCHANGED <<smp, thr, curSmp>>

WatchStarts(w) ==
  /\ watch[w].at = "joined"
  /\ \/ GetOrStart /\ Watch(w, [watch[w] EXCEPT !.at = "open"]) /\ UNCHANGED hubVars
     \/ monClosed /\ Watch(w, [watch[w] EXCEPT !.at = "done"]) /\ HubRemove(w) /\ UNCHANGED <<smp, thr, curSmp>>

\* A frame is sent when the newest sample is another one than the last time.
WatchLooks(w) ==
  LET buf == IF curSmp = NoSampler THEN <<>> ELSE smp[curSmp].buf IN
  /\ watch[w].at = "open"
  /\ buf # <<>> /\ buf[Len(buf)] # watch[w].last
  /\ Watch(w, [watch[w] EXCEPT !.prev = watch[w].last, !.last = buf[Len(buf)]])
  /\ UNCHANGED <<smp, thr, curSmp, hubVars>>

\* The browser is gone, a write failed or the stream is too old.
WatchCloses(w) ==
  /\ watch[w].at = "open"
  /\ Watch(w, [watch[w] EXCEPT !.at = "done"])
  /\ HubRemove(w)
  /\ UNCHANGED <<smp, thr, curSmp>>

OtherPage ==
  /\ HubOther(NoSampler, "agent")
  /\ UNCHANGED <<clock, smp, thr, curSmp, monClosed, board, watch>>

-----------------------------------------------------------------------------
SamplerStep(t) == SamplerEnds(t) \/ SamplerAsks(t) \/ SamplerGets(t) \/ SamplerFails(t)

MonNext ==
  \/ Disable \/ DeleteBoard \/ RemoveDevice \/ CloseMonitor \/ AgentMonitors \/ OtherPage
  \/ \E t \in SThreads : SamplerStep(t)
  \/ \E s \in Samplers : SamplerAges(s)
  \/ \E w \in Watchers : \/ WatchChecks(w) \/ Enable(w) \/ WatchJoins(w) \/ WatchStarts(w)
                         \/ WatchLooks(w) \/ WatchCloses(w)

\* A collection has a time limit and the thread goes on by itself.
MonFairness == \A t \in SThreads : WF_monVars(SamplerStep(t))

MonSpec == MonInit /\ [][MonNext]_monVars /\ MonFairness

-----------------------------------------------------------------------------
(* Properties.                                                             *)

Before(a, b) == a < b \/ (a = b /\ b = MaxTime)

\* The series of a sampler and the frames of a stream are in the order of
\* their time stamps, whatever stops, starts and late collections came in
\* between; a closed service keeps no sampler; the hub counts its streams
\* (sampler.py:91-102, 150-155, handlers/monitor.py:130-177).
SamplesInOrder ==
  /\ \A s \in Samplers : \A i \in 1..(Len(smp[s].buf) - 1) : Before(smp[s].buf[i], smp[s].buf[i + 1])
  /\ \A w \in Watchers : watch[w].last # 0 => Before(watch[w].prev, watch[w].last)
  /\ monClosed => curSmp = NoSampler
  /\ HubExact

\* A sampler that was told to stop, and one whose board is gone, has no
\* thread some time later: whoever starts a sampler for a board that was
\* deleted, and however often, each of these threads ends, also one whose
\* collection was under way and succeeds (sampler.py:91-111, 130-148).
SamplersEnd == \A s \in Samplers : (smp[s].stop \/ board # "known") ~> ~Live(s)

\* Not true (instance of Services.cfg): a sampler that was started is not one that
\* has been told to stop and ends with its collection.
StartedMeansRunning ==
  [][\A w \in Watchers : (watch[w].at = "joined" /\ watch'[w].at = "open") => ~smp'[curSmp'].stop]_monVars
=============================================================================
