---------------------------- MODULE AuditRecorder ----------------------------
(***************************************************************************)
(* The audit recorder: host/audit/recorder.py.                             *)
(*                                                                         *)
(* Request threads record events: an accepted event enters the ring and    *)
(* the pending count, then the bounded queue, or, when the queue is full,  *)
(* is written at once by the request thread itself.  One writer thread     *)
(* empties the queue and retries a failed write for ever.  close() refuses *)
(* new events, waits for the pending ones and reports whether all of them  *)
(* are on disk.                                                            *)
(*                                                                         *)
(* An event is its number, recorded once, with the day of its time, which  *)
(* says the shard it is written to.  A shard is the sequence of what the   *)
(* writes appended: a whole line, or the head of a line that a failed      *)
(* write or a crash left without its end (and its newline).  What is       *)
(* appended next continues that line, so neither can be parsed.  A query   *)
(* with a window reads the shards of its days, one without reads today's   *)
(* only.  _prune removes only shards older than the retention, which no    *)
(* day of the model is.  Times within a day, metrics other than            *)
(* unpersisted, and the log lines, are left out.                           *)
(***************************************************************************)
EXTENDS Integers, Sequences, FiniteSets, Functions

CONSTANTS
  Events,        \* numbers of the events to record
  None,          \* no event
  Dead,          \* the place of a writer that has ended
  QueueSize,     \* capacity of the queue
  MaxRing,       \* capacity of the ring
  MaxFailures,   \* bound on failing writes
  MaxCrashes,    \* bound on crashes of the process
  MaxDays,       \* bound on the days that pass
  MayTear        \* os.write may fail, or the process die, after part of a line

ASSUME RecorderAssumption ==
  /\ Events \subseteq Nat /\ None \notin Events /\ Dead \notin Events \cup {None}
  /\ QueueSize \in Nat \ {0}
  /\ MaxRing \in Nat \ {0}
  /\ MaxFailures \in Nat
  /\ MaxCrashes \in Nat
  /\ MaxDays \in Nat \ {0}
  /\ MayTear \in BOOLEAN

VARIABLES
  stage,        \* where each event is: see Stages
  result,       \* what record() returned for each event
  ring,         \* _ring
  queue,        \* _queue
  pending,      \* _pending
  accepting,    \* _accepting
  stop,         \* _stop
  writer,       \* the event the writer thread has taken, None or Dead
  writeLock,    \* the event whose write holds _write_lock, or None
  begun,        \* the current write has appended the head of its line
  unpersisted,  \* the metric of that name
  closing,      \* where close() is: see Closings
  file,         \* what has been appended to the shard of each day
  failures,     \* failing writes so far
  crashes,      \* crashes so far
  today,        \* the day it is
  day           \* the day of each event's time (ts), which names its shard

recordVars == <<stage, result, ring, queue, pending>>
writeVars == <<writer, writeLock, begun, file, failures, unpersisted>>
closeVars == <<accepting, stop, closing>>
worldVars == <<crashes, today, day>>
vars == <<recordVars, writeVars, closeVars, worldVars>>

Days == 1..MaxDays

(* counted: accepted, not yet put into the queue; overflow: to be written  *)
(* by the request thread; settled: written or given up, still pending;     *)
(* lost: in memory only when the process died.                             *)
Stages == {"new", "refused", "counted", "queued", "taken", "overflow",
           "settled", "finished", "lost"}

(* waiting: for _pending to become 0; joining: the writer is being joined. *)
Closings == {"open", "waiting", "joining", "unclean", "clean"}

InFlight == {"counted", "queued", "taken", "overflow", "settled"}

Init ==
  /\ stage = [e \in Events |-> "new"]
  /\ result = [e \in Events |-> "none"]
  /\ ring = <<>>
  /\ queue = <<>>
  /\ pending = 0
  /\ accepting = TRUE
  /\ stop = FALSE
  /\ writer = None
  /\ writeLock = None
  /\ begun = FALSE
  /\ unpersisted = 0
  /\ closing = "open"
  /\ file = [d \in Days |-> <<>>]
  /\ failures = 0
  /\ crashes = 0
  /\ today = 1
  /\ day \in [Events -> Days]

-----------------------------------------------------------------------------
(* record *)

(* Events have the numbers (_seq) they get in the order of their calls,    *)
(* whose times are not in the future.                                      *)
InTurn(e) == day[e] <= today /\ \A d \in Events : d < e => stage[d] # "new"

(* The event is not valid, or the recorder is closing.                     *)
Refuse(e) ==
  /\ stage[e] = "new" /\ InTurn(e)
  /\ stage' = [stage EXCEPT ![e] = "refused"]
  /\ result' = [result EXCEPT ![e] = "false"]
  /\ UNCHANGED <<ring, queue, pending, writeVars, closeVars, worldVars>>

(* Fault: acceptance is not checked under the lock that close takes.       *)
AcceptLate(e) ==
  /\ stage[e] = "new" /\ InTurn(e)
  /\ stage' = [stage EXCEPT ![e] = "counted"]
  /\ ring' = IF Len(ring) < MaxRing THEN Append(ring, e)
             ELSE Append(Tail(ring), e)
  /\ pending' = pending + 1
  /\ UNCHANGED <<result, queue, writeVars, closeVars, worldVars>>

(* The part under _state_lock.  The time was read before it, midnight may  *)
(* have passed since.                                                      *)
Accept(e) ==
  /\ stage[e] = "new" /\ InTurn(e)
  /\ accepting
  /\ stage' = [stage EXCEPT ![e] = "counted"]
  /\ ring' = IF Len(ring) < MaxRing THEN Append(ring, e)
             ELSE Append(Tail(ring), e)
  /\ pending' = pending + 1
  /\ UNCHANGED <<result, queue, writeVars, closeVars, worldVars>>

Enqueue(e) ==
  /\ stage[e] = "counted"
  /\ Len(queue) < QueueSize
  /\ stage' = [stage EXCEPT ![e] = "queued"]
  /\ queue' = Append(queue, e)
  /\ result' = [result EXCEPT ![e] = "true"]
  /\ UNCHANGED <<ring, pending, writeVars, closeVars, worldVars>>

(* put_nowait raises queue.Full. *)
Overflow(e) ==
  /\ stage[e] = "counted"
  /\ Len(queue) = QueueSize
  /\ stage' = [stage EXCEPT ![e] = "overflow"]
  /\ UNCHANGED <<result, ring, queue, pending, writeVars, closeVars, worldVars>>

-----------------------------------------------------------------------------
(* _writer_loop and _write_once *)

Take ==
  /\ writer = None
  /\ queue # <<>>
  /\ writer' = Head(queue)
  /\ queue' = Tail(queue)
  /\ stage' = [stage EXCEPT ![Head(queue)] = "taken"]
  /\ UNCHANGED <<result, ring, pending, writeLock, begun, file, failures,
                 unpersisted, closeVars, worldVars>>

(* The writer with its event, or a request thread with its overflow, gets  *)
(* _write_lock.                                                            *)
Lock(e) ==
  /\ stage[e] \in {"taken", "overflow"}
  /\ writeLock = None
  /\ writeLock' = e
  /\ begun' = FALSE
  /\ UNCHANGED <<recordVars, writer, file, failures, unpersisted, closeVars, worldVars>>

(* os.write returns after part of the line; _write_all goes on.            *)
ShortWrite ==
  /\ writeLock # None
  /\ ~begun
  /\ begun' = TRUE
  /\ file' = [file EXCEPT ![day[writeLock]] = Append(@, [event |-> writeLock, whole |-> FALSE])]
  /\ UNCHANGED <<recordVars, writer, writeLock, failures, unpersisted, closeVars, worldVars>>

(* Fault: every attempt starts the file anew (no O_APPEND).                *)
Truncated(e) == [file EXCEPT ![day[e]] = <<[event |-> e, whole |-> TRUE]>>]

(* The shard without the line that is being written to it.                 *)
Before(shard) == IF begun THEN SubSeq(shard, 1, Len(shard) - 1) ELSE shard

(* The shards with the line of event e completed.                          *)
Completed(e) ==
  [file EXCEPT ![day[e]] = Append(Before(@), [event |-> e, whole |-> TRUE])]

(* _write_once returns. *)
Written(e) ==
  /\ writeLock = e
  /\ file' = Completed(e)
  /\ writeLock' = None
  /\ begun' = FALSE
  /\ result' = IF stage[e] = "overflow" THEN [result EXCEPT ![e] = "true"] ELSE result
  /\ stage' = [stage EXCEPT ![e] = "settled"]
  /\ UNCHANGED <<ring, queue, pending, writer, failures, unpersisted, closeVars, worldVars>>

(* Fault: the writer gives up after one attempt.                           *)
GiveUp(e) ==
  /\ writeLock = e
  /\ failures < MaxFailures
  /\ begun => MayTear
  /\ failures' = failures + 1
  /\ writeLock' = None
  /\ begun' = FALSE
  /\ stage' = [stage EXCEPT ![e] = "settled"]
  /\ UNCHANGED <<result, ring, queue, pending, writer, file, unpersisted, closeVars, worldVars>>

(* _write_once raises: the writer thread will try again, a request thread  *)
(* counts the event as unpersisted and returns False.                      *)
WriteFails(e) ==
  /\ writeLock = e
  /\ failures < MaxFailures
  /\ begun => MayTear
  /\ failures' = failures + 1
  /\ writeLock' = None
  /\ begun' = FALSE
  /\ \/ /\ stage[e] = "taken"
        /\ UNCHANGED <<stage, result, unpersisted>>
     \/ /\ stage[e] = "overflow"
        /\ stage' = [stage EXCEPT ![e] = "settled"]
        /\ result' = [result EXCEPT ![e] = "false"]
        /\ unpersisted' = unpersisted + 1
  /\ UNCHANGED <<ring, queue, pending, writer, file, closeVars, worldVars>>

(* Fault: the fallback path does not take the event off the count.         *)
FinishWriterOnly(e) ==
  /\ stage[e] = "settled"
  /\ stage' = [stage EXCEPT ![e] = "finished"]
  /\ pending' = IF writer = e THEN pending - 1 ELSE pending
  /\ writer' = IF writer = e THEN None ELSE writer
  /\ UNCHANGED <<result, ring, queue, writeLock, begun, file, failures,
                 unpersisted, closeVars, worldVars>>

(* _finish_pending, by the writer or by the request thread.                *)
FinishPending(e) ==
  /\ stage[e] = "settled"
  /\ stage' = [stage EXCEPT ![e] = "finished"]
  /\ pending' = pending - 1
  /\ writer' = IF writer = e THEN None ELSE writer
  /\ UNCHANGED <<result, ring, queue, writeLock, begun, file, failures,
                 unpersisted, closeVars, worldVars>>

(* The loop of the writer ends.                                            *)
WriterExits ==
  /\ writer = None
  /\ stop /\ pending = 0
  /\ writer' = Dead
  /\ UNCHANGED <<recordVars, writeLock, begun, file, failures, unpersisted,
                 closeVars, worldVars>>

-----------------------------------------------------------------------------
(* close, which may be called again after it has returned False.           *)
CloseBegins ==
  /\ closing \in {"open", "unclean"}
  /\ accepting' = FALSE
  /\ closing' = "waiting"
  /\ UNCHANGED <<recordVars, writeVars, stop, worldVars>>

CloseDrained ==
  /\ closing = "waiting"
  /\ pending = 0
  /\ stop' = TRUE
  /\ closing' = "joining"
  /\ UNCHANGED <<recordVars, writeVars, accepting, worldVars>>

(* The deadline passes, in the wait or in the join.                        *)
CloseTimesOut ==
  /\ closing \in {"waiting", "joining"}
  /\ closing' = "unclean"
  /\ UNCHANGED <<recordVars, writeVars, accepting, stop, worldVars>>

CloseReturns ==
  /\ closing = "joining"
  /\ writer = Dead
  /\ closing' = IF unpersisted = 0 THEN "clean" ELSE "unclean"
  /\ UNCHANGED <<recordVars, writeVars, accepting, stop, worldVars>>

(* The process dies and a new one opens the same directory.  A line whose  *)
(* write was under way may be left torn.                                   *)
Crash ==
  /\ crashes < MaxCrashes
  /\ crashes' = crashes + 1
  /\ stage' = [e \in Events |->
                 IF \/ stage[e] \in InFlight
                    \/ stage[e] = "finished" /\ result[e] = "false"
                 THEN "lost" ELSE stage[e]]
  /\ file' = IF begun /\ ~MayTear THEN [file EXCEPT ![day[writeLock]] = Before(@)] ELSE file
  /\ ring' = <<>>
  /\ queue' = <<>>
  /\ pending' = 0
  /\ accepting' = TRUE
  /\ stop' = FALSE
  /\ writer' = None
  /\ writeLock' = None
  /\ begun' = FALSE
  /\ unpersisted' = 0
  /\ closing' = "open"
  /\ UNCHANGED <<result, day, failures, today>>

(* The date changes. *)
Midnight ==
  /\ today < MaxDays
  /\ today' = today + 1
  /\ UNCHANGED <<recordVars, writeVars, closeVars, crashes, day>>

Next ==
  \/ \E e \in Events : \/ Refuse(e) \/ Accept(e) \/ Enqueue(e) \/ Overflow(e)
                       \/ Lock(e) \/ Written(e) \/ WriteFails(e) \/ FinishPending(e)
  \/ Take \/ ShortWrite \/ WriterExits
  \/ CloseBegins \/ CloseDrained \/ CloseTimesOut \/ CloseReturns
  \/ Crash \/ Midnight

Spec == Init /\ [][Next]_vars

(* Every thread runs on: request threads finish record, the writer keeps   *)
(* going, and whoever waits for _write_lock gets it.                       *)
Fairness ==
  /\ WF_vars(Take) /\ WF_vars(WriterExits)
  /\ \A e \in Events : /\ WF_vars(Enqueue(e)) /\ WF_vars(Overflow(e))
                       /\ SF_vars(Lock(e)) /\ WF_vars(Written(e))
                       /\ WF_vars(FinishPending(e))

FairSpec == Spec /\ Fairness

-----------------------------------------------------------------------------
(* query *)

(* A line of a shard can be parsed: it is whole and starts on a new line.  *)
Parses(shard, i) == shard[i].whole /\ (i = 1 \/ shard[i - 1].whole)

(* _read_file: the event of each line, None where it cannot be parsed.     *)
ReadFile(d) ==
  [i \in 1..Len(file[d]) |-> IF Parses(file[d], i) THEN file[d][i].event ELSE None]

(* The answer so far and one event more: each once, none from outside the  *)
(* window, and no more than the ring can hold.                             *)
Yield(given, e, window) ==
  IF e = None \/ Len(given) = MaxRing \/ e \in Range(given) \/ day[e] \notin window
  THEN given ELSE Append(given, e)

(* The answer so far and then the events of src, the newest first.         *)
YieldAll(given, src, window) ==
  LET after[k \in 0..Len(src)] ==
        IF k = 0 THEN given ELSE Yield(after[k - 1], src[Len(src) - k + 1], window)
  IN  after[Len(src)]

(* The answer so far and then the shards of the dates, one by one.         *)
YieldShards(given, dates, window) ==
  LET after[k \in 0..Len(dates)] ==
        IF k = 0 THEN given ELSE YieldAll(after[k - 1], ReadFile(dates[k]), window)
  IN  after[Len(dates)]

(* Fault: the shards are read only when the ring has nothing.              *)
IterEventsEither(window, dates) ==
  IF ring # <<>> THEN YieldAll(<<>>, ring, window) ELSE YieldShards(<<>>, dates, window)

(* _iter_events: the ring and then the shards.                             *)
IterEvents(window, dates) == YieldShards(YieldAll(<<>>, ring, window), dates, window)

(* _dates_in_window, of a window from one day to another.                  *)
DatesInWindow(from, to) == [i \in 1..to - from + 1 |-> from + i - 1]

(* The answer to a query with a window, and to one without.                *)
Within(from, to) == IterEvents(from..to, DatesInWindow(from, to))
Recent == IterEvents(Days, <<today>>)

-----------------------------------------------------------------------------
(* The type invariant.  An event holds the write lock only while it is to  *)
(* be written.                                                             *)
TypeOK ==
  /\ stage \in [Events -> Stages]
  /\ result \in [Events -> {"none", "true", "false"}]
  /\ ring \in Seq(Events) /\ Len(ring) <= MaxRing
  /\ queue \in Seq(Events) /\ Len(queue) <= QueueSize
  /\ pending \in Nat
  /\ accepting \in BOOLEAN /\ stop \in BOOLEAN /\ begun \in BOOLEAN
  /\ writer \in Events \cup {None, Dead}
  /\ writeLock \in Events \cup {None}
  /\ writeLock # None => stage[writeLock] \in {"taken", "overflow"}
  /\ unpersisted \in Nat
  /\ closing \in Closings
  /\ file \in [Days -> Seq([event : Events, whole : BOOLEAN])]
  /\ today \in Days /\ day \in [Events -> Days]

(* The event can be read back: a line of its day's shard can be parsed.    *)
OnDisk(e) ==
  \E i \in DOMAIN file[day[e]] : Parses(file[day[e]], i) /\ file[day[e]][i].event = e

(* _pending counts the events between acceptance and the end of their      *)
(* write, wherever they are: close cannot overlook one.                    *)
PendingExact == pending = Cardinality({e \in Events : stage[e] \in InFlight})

(* When close() has returned True, every event the recorder accepted is on *)
(* disk, whichever thread wrote it.                                        *)
CleanCloseKeepsAll ==
  closing = "clean" => \A e \in Events : stage[e] = "finished" => OnDisk(e)

(* Nothing is accepted any more, and no thread will write, after close()   *)
(* has returned True.                                                      *)
CleanCloseIsFinal ==
  closing = "clean" => /\ \A e \in Events : stage[e] \notin InFlight
                       /\ queue = <<>> /\ writeLock = None /\ writer = Dead

(* The types, the count that close() waits for, and what a clean close     *)
(* promises: all that was accepted is on disk and nothing follows          *)
(* (recorder.py:117-146, 186-271).                                         *)
CleanClose == TypeOK /\ PendingExact /\ CleanCloseKeepsAll /\ CleanCloseIsFinal

(* The events for which record() returned True.                            *)
Recorded == {e \in Events : result[e] = "true" /\ stage[e] # "lost"}

(* An answer gives no event twice, and misses one of those that are wanted *)
(* only when it is full of others.                                         *)
Complete(given, wanted) ==
  /\ IsInjective(given)
  /\ \A e \in wanted : e \in Range(given) \/ Len(given) = MaxRing

(* A query gives each event once.  An event for which record() returned    *)
(* True and that is in the ring or written, on whatever day and also before *)
(* a crash, is missing from the answer for a window of days it falls in    *)
(* only when that is full of others.  The answer without a window promises *)
(* so much of the events of the ring and of all of today's, also of those  *)
(* that the ring dropped while their write was pending                     *)
(* (recorder.py:275-290, 330-375, 378-393).                                *)
QueryAnswers ==
  LET found == {e \in Recorded : e \in Range(ring) \/ stage[e] \in {"settled", "finished"}}
  IN  /\ \A from, to \in Days :
           from <= to => Complete(Within(from, to), {e \in found : day[e] \in from..to})
      /\ Complete(Recent, {e \in Recorded : day[e] = today \/ e \in Range(ring)})

(* Once on disk, an event stays readable: no later write, failure or crash *)
(* spoils it.                                                              *)
DiskKept == [][\A e \in Events : OnDisk(e) => OnDisk(e)']_vars

(* In the end no event is pending, and every event for which record()      *)
(* returned True is on disk, if the process lives: the writer retries      *)
(* until the disk takes it, also when close() has timed out meanwhile.     *)
QueuedReachesDisk ==
  <>[](\A e \in Events : stage[e] \notin InFlight /\ (e \in Recorded => OnDisk(e)))

(* An event that record() accepted can be queried, from the ring or from   *)
(* its shard.                                                              *)
AcceptedVisible ==
  \A e \in Events :
    result[e] = "true" /\ stage[e] # "lost" =>
      OnDisk(e) \/ \E i \in DOMAIN ring : ring[i] = e
=============================================================================
