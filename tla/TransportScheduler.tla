------------------------- MODULE TransportScheduler -------------------------
(***************************************************************************)
(* Bounded, fair admission of SSH subprocess channels:                     *)
(* host/transport/scheduler.py.                                            *)
(*                                                                         *)
(* A call is one use of the scheduler by a request thread: it queues a     *)
(* waiter in acquire(), sleeps on the condition variable until a grant, a  *)
(* removal of its device or its deadline, and then owns a Lease until it   *)
(* releases it.  All scheduler state is protected by one condition lock.   *)
(* Every method that may free capacity or add a waiter runs _grant_locked  *)
(* before it lets the lock go; its while loop is modelled one iteration    *)
(* per step, with the lock held (lock # Free), so no other method can run  *)
(* before the loop ends and no iteration can be left out.                  *)
(*                                                                         *)
(* A dictionary without an entry for a device is a function with value 0   *)
(* (counters) or <<>> (queues).  Statistics (peaks, wait times, totals)    *)
(* are left out: no decision of the scheduler reads them.                  *)
(***************************************************************************)
EXTENDS Integers, Sequences, FiniteSets

CONSTANTS
  Calls,                  \* uses of the scheduler, one per request thread
  Devices,                \* device identifiers
  Free,                   \* the condition lock is not held
  Other,                  \* the lock is held by a method other than acquire
  NoRequest,              \* the request of a call that is not in progress
  GlobalLimit,            \* leases in total
  DeviceLimit,            \* leases per device
  BackgroundDeviceLimit,  \* background leases per device
  GlobalWaitLimit,        \* queued waiters in total
  DeviceWaitLimit,        \* queued waiters per device
  ForegroundBurst         \* FOREGROUND_BURST

ASSUME LimitsAssumption ==
  /\ GlobalLimit \in Nat \ {0}
  /\ DeviceLimit \in Nat \ {0}
  /\ BackgroundDeviceLimit \in 0..DeviceLimit
  /\ GlobalWaitLimit \in Nat \ {0}
  /\ DeviceWaitLimit \in Nat \ {0}
  /\ ForegroundBurst \in Nat \ {0}

ASSUME IdentityAssumption ==
  /\ IsFiniteSet(Calls)
  /\ IsFiniteSet(Devices)
  /\ Free \notin Calls
  /\ Other \notin Calls
  /\ Free # Other
  /\ NoRequest \notin [device : Devices, workload : {"foreground", "background"}]

Foreground == "foreground"
Background == "background"
Workloads == {Foreground, Background}

VARIABLES
  pc,                  \* where each call is: see Phases
  req,                 \* the device and workload of each call's waiter and lease
  outcome,             \* the waiter's granted and error fields: see Outcomes
  asleep,              \* calls blocked in Condition.wait
  lock,                \* holder of the condition lock while _grant_locked runs
  notify,              \* the lock holder will call notify_all before it lets go
  active,              \* _active
  activeByDevice,      \* _active_by_device
  backgroundByDevice,  \* _background_by_device
  waiting,             \* _waiting
  waitingByDevice,     \* _waiting_by_device
  queues,              \* _queues: workload, then device, to waiters in order
  roundRobin,          \* _round_robin: workload to devices in turn
  streak,              \* _foreground_streak, up to ForegroundBurst
  bypassed             \* history: foreground grants that went past a grantable
                       \* background waiter since the last background grant,
                       \* up to ForegroundBurst + 1

callVars == <<pc, req, outcome>>
lockVars == <<asleep, lock, notify>>
activeVars == <<active, activeByDevice, backgroundByDevice>>
waitVars == <<waiting, waitingByDevice, queues, roundRobin>>
turnVars == <<streak, bypassed>>
vars == <<callVars, lockVars, activeVars, waitVars, turnVars>>

(* idle: no lease and no waiter; waiting: inside acquire's wait loop;      *)
(* leased: owns an unreleased Lease; returning: Lease._released is set and *)
(* _release has not run yet.                                               *)
Phases == {"idle", "waiting", "leased", "returning"}

(* none: neither granted nor failed; removed: error = ERR_DEVICE_REMOVED.  *)
Outcomes == {"none", "granted", "removed"}

Requests == [device : Devices, workload : Workloads]

-----------------------------------------------------------------------------
(* Sets of calls that the counters are supposed to count.                  *)

(* The call's waiter is queued: neither granted, failed nor timed out.     *)
Queued(c) == pc[c] = "waiting" /\ outcome[c] = "none"

(* The call holds capacity, from the grant until _release has run.         *)
Holds(c) == \/ pc[c] = "waiting" /\ outcome[c] = "granted"
            \/ pc[c] \in {"leased", "returning"}

Waiters == {c \in Calls : Queued(c)}
Holders == {c \in Calls : Holds(c)}
WaitersOf(d) == {c \in Waiters : req[c].device = d}
HoldersOf(d) == {c \in Holders : req[c].device = d}
BackgroundHoldersOf(d) == {c \in HoldersOf(d) : req[c].workload = Background}

-----------------------------------------------------------------------------
Init ==
  /\ pc = [c \in Calls |-> "idle"]
  /\ req = [c \in Calls |-> NoRequest]
  /\ outcome = [c \in Calls |-> "none"]
  /\ asleep = {}
  /\ lock = Free
  /\ notify = FALSE
  /\ active = 0
  /\ activeByDevice = [d \in Devices |-> 0]
  /\ backgroundByDevice = [d \in Devices |-> 0]
  /\ waiting = 0
  /\ waitingByDevice = [d \in Devices |-> 0]
  /\ queues = [k \in Workloads |-> [d \in Devices |-> <<>>]]
  /\ roundRobin = [k \in Workloads |-> <<>>]
  /\ streak = 0
  /\ bypassed = 0

(* Fault: the background limit is off by one.                              *)
CanGrantOneTooMany(d, k) ==
  /\ active < GlobalLimit
  /\ activeByDevice[d] < DeviceLimit
  /\ k = Background => backgroundByDevice[d] <= BackgroundDeviceLimit

(* _can_grant_locked *)
CanGrant(d, k) ==
  /\ active < GlobalLimit
  /\ activeByDevice[d] < DeviceLimit
  /\ k = Background => backgroundByDevice[d] < BackgroundDeviceLimit

(* acquire raises ERR_GLOBAL_QUEUE_FULL or ERR_DEVICE_QUEUE_FULL.          *)
QueueFull(d) ==
  \/ waiting >= GlobalWaitLimit
  \/ waitingByDevice[d] >= DeviceWaitLimit

(* x is an element of the sequence s.                                      *)
InSeq(s, x) == \E i \in DOMAIN s : s[i] = x

(* Fault: the waiter that times out pops the head of its queue.            *)
WithoutHead(s, x) == Tail(s)

(* The sequence without its (only) occurrence of x.                        *)
Without(s, x) ==
  LET i == CHOOSE j \in DOMAIN s : s[j] = x
  IN  SubSeq(s, 1, i - 1) \o SubSeq(s, i + 1, Len(s))

(* What _pop_eligible_locked leaves of a round-robin queue when its i-th   *)
(* device is served: the devices it skipped go behind the others, and the  *)
(* served device goes last if it still has waiters.                        *)
Rotate(s, i, again) ==
  SubSeq(s, i + 1, Len(s)) \o SubSeq(s, 1, i - 1)
    \o (IF again THEN <<s[i]>> ELSE <<>>)

(* Fault: only the device whose turn it is is looked at.                   *)
EligibleHead(k) ==
  {i \in DOMAIN roundRobin[k] : i = 1 /\ CanGrant(roundRobin[k][i], k)}

(* The positions at which _pop_eligible_locked may stop, and the one at    *)
(* which it does.                                                          *)
Eligible(k) == {i \in DOMAIN roundRobin[k] : CanGrant(roundRobin[k][i], k)}
IsTurn(k, i) == i \in Eligible(k) /\ \A j \in Eligible(k) : i <= j

(* Fault: the foreground always goes first.                                *)
ServesForegroundFirst(k) ==
  /\ Eligible(k) # {}
  /\ k = Foreground \/ Eligible(Foreground) = {}

(* The workload the next iteration of _grant_locked serves, if any: the    *)
(* background first after a burst of foreground grants, else the           *)
(* foreground first.                                                       *)
Serves(k) ==
  /\ Eligible(k) # {}
  /\ \/ k = Background /\ streak >= ForegroundBurst
     \/ k = Foreground /\ (streak < ForegroundBurst \/ Eligible(Background) = {})
     \/ k = Background /\ Eligible(Foreground) = {}

-----------------------------------------------------------------------------
(* acquire, up to and including the call of _grant_locked.                 *)
Acquire(c, d, k) ==
  /\ lock = Free
  /\ pc[c] = "idle"
  /\ ~QueueFull(d)
  /\ pc' = [pc EXCEPT ![c] = "waiting"]
  /\ req' = [req EXCEPT ![c] = [device |-> d, workload |-> k]]
  /\ roundRobin' = IF queues[k][d] = <<>>
                   THEN [roundRobin EXCEPT ![k] = Append(@, d)]
                   ELSE roundRobin
  /\ queues' = [queues EXCEPT ![k][d] = Append(@, c)]
  /\ waiting' = waiting + 1
  /\ waitingByDevice' = [waitingByDevice EXCEPT ![d] = @ + 1]
  /\ lock' = c
  /\ notify' = FALSE
  /\ UNCHANGED <<outcome, asleep, activeVars, turnVars>>

(* The head waiter of the device at position i of workload k's round robin *)
(* becomes a holder: _pop_eligible_locked and the bookkeeping after it.    *)
Admit(k, i) ==
  LET d == roundRobin[k][i]
      c == Head(queues[k][d])
  IN  /\ queues' = [queues EXCEPT ![k][d] = Tail(@)]
      /\ roundRobin' = [roundRobin EXCEPT
                          ![k] = Rotate(@, i, Len(queues[k][d]) > 1)]
      /\ waiting' = waiting - 1
      /\ waitingByDevice' = [waitingByDevice EXCEPT ![d] = @ - 1]
      /\ active' = active + 1
      /\ activeByDevice' = [activeByDevice EXCEPT ![d] = @ + 1]
      /\ backgroundByDevice' =
           IF k = Background
           THEN [backgroundByDevice EXCEPT ![d] = @ + 1]
           ELSE backgroundByDevice
      /\ outcome' = [outcome EXCEPT ![c] = "granted"]

(* One iteration of the loop of _grant_locked, serving workload k.         *)
Grant(k) ==
  /\ lock # Free
  /\ Serves(k)
  /\ \E i \in DOMAIN roundRobin[k] : IsTurn(k, i) /\ Admit(k, i)
  /\ streak' = IF k = Background THEN 0
               ELSE IF streak < ForegroundBurst THEN streak + 1 ELSE streak
  /\ bypassed' = IF k = Background THEN 0
                 ELSE IF Eligible(Background) # {} /\ bypassed <= ForegroundBurst
                 THEN bypassed + 1 ELSE bypassed
  /\ notify' = TRUE
  /\ UNCHANGED <<pc, req, asleep, lock>>

(* Fault: notify in place of notify_all.                                   *)
EndGrantNotifyOne ==
  /\ lock # Free
  /\ \A k \in Workloads : Eligible(k) = {}
  /\ \E woken \in SUBSET asleep :
       /\ Cardinality(woken) = IF notify /\ asleep # {} THEN 1 ELSE 0
       /\ asleep' = (asleep \ woken) \cup {c \in Calls : c = lock /\ Queued(c)}
  /\ lock' = Free
  /\ notify' = FALSE
  /\ UNCHANGED <<callVars, activeVars, waitVars, turnVars>>

(* The loop of _grant_locked ends, the method that called it returns or,   *)
(* in acquire, goes to Condition.wait, and the lock is free again.         *)
EndGrant ==
  /\ lock # Free
  /\ \A k \in Workloads : Eligible(k) = {}
  /\ asleep' = (IF notify THEN {} ELSE asleep)
                 \cup {c \in Calls : c = lock /\ Queued(c)}
  /\ lock' = Free
  /\ notify' = FALSE
  /\ UNCHANGED <<callVars, activeVars, waitVars, turnVars>>

(* A call woken by notify_all finds nothing for it and waits again.        *)
WaitAgain(c) ==
  /\ lock = Free
  /\ Queued(c)
  /\ c \notin asleep
  /\ asleep' = asleep \cup {c}
  /\ UNCHANGED <<callVars, lock, notify, activeVars, waitVars, turnVars>>

(* The deadline passes: _remove_waiter_locked, _grant_locked, and acquire  *)
(* raises ERR_WAIT_TIMEOUT.                                                *)
TimeOut(c) ==
  /\ lock = Free
  /\ Queued(c)
  /\ LET d == req[c].device
         k == req[c].workload
     IN  /\ queues' = [queues EXCEPT ![k][d] = Without(@, c)]
         /\ roundRobin' = IF Len(queues[k][d]) = 1
                          THEN [roundRobin EXCEPT ![k] = Without(@, d)]
                          ELSE roundRobin
         /\ waiting' = waiting - 1
         /\ waitingByDevice' = [waitingByDevice EXCEPT ![d] = @ - 1]
  /\ pc' = [pc EXCEPT ![c] = "idle"]
  /\ req' = [req EXCEPT ![c] = NoRequest]
  /\ asleep' = asleep \ {c}
  /\ lock' = Other
  /\ notify' = FALSE
  /\ UNCHANGED <<outcome, activeVars, turnVars>>

(* acquire leaves its wait loop: it raises the error remove_device left,   *)
(* or returns the Lease.                                                   *)
Return(c) ==
  /\ lock = Free
  /\ pc[c] = "waiting"
  /\ c \notin asleep
  /\ \/ /\ outcome[c] = "granted"
        /\ pc' = [pc EXCEPT ![c] = "leased"]
        /\ UNCHANGED req
     \/ /\ outcome[c] = "removed"
        /\ pc' = [pc EXCEPT ![c] = "idle"]
        /\ req' = [req EXCEPT ![c] = NoRequest]
  /\ outcome' = [outcome EXCEPT ![c] = "none"]
  /\ UNCHANGED <<lockVars, activeVars, waitVars, turnVars>>

(* Lease.release sets _released; a second caller stops here.               *)
BeginRelease(c) ==
  /\ pc[c] = "leased"
  /\ pc' = [pc EXCEPT ![c] = "returning"]
  /\ UNCHANGED <<req, outcome, lockVars, activeVars, waitVars, turnVars>>

(* Fault: the background counter is not given back.                        *)
ReleaseForgetsBackground(c) ==
  /\ lock = Free
  /\ pc[c] = "returning"
  /\ active' = active - 1
  /\ activeByDevice' = [activeByDevice EXCEPT ![req[c].device] = @ - 1]
  /\ pc' = [pc EXCEPT ![c] = "idle"]
  /\ req' = [req EXCEPT ![c] = NoRequest]
  /\ lock' = Other
  /\ notify' = TRUE
  /\ UNCHANGED <<outcome, asleep, backgroundByDevice, waitVars, turnVars>>

(* _release, up to and including the call of _grant_locked.                *)
Release(c) ==
  /\ lock = Free
  /\ pc[c] = "returning"
  /\ LET d == req[c].device
     IN  /\ active' = active - 1
         /\ activeByDevice' = [activeByDevice EXCEPT ![d] = @ - 1]
         /\ backgroundByDevice' =
              IF req[c].workload = Background
              THEN [backgroundByDevice EXCEPT ![d] = @ - 1]
              ELSE backgroundByDevice
  /\ pc' = [pc EXCEPT ![c] = "idle"]
  /\ req' = [req EXCEPT ![c] = NoRequest]
  /\ lock' = Other
  /\ notify' = TRUE
  /\ UNCHANGED <<outcome, asleep, waitVars, turnVars>>

(* Fault: calls that already hold a lease of the device get the error too. *)
RemoveDeviceFailsAll(d) ==
  /\ lock = Free
  /\ outcome' = [c \in Calls |->
                   IF pc[c] # "idle" /\ req[c].device = d
                   THEN "removed" ELSE outcome[c]]
  /\ waiting' = waiting - waitingByDevice[d]
  /\ waitingByDevice' = [waitingByDevice EXCEPT ![d] = 0]
  /\ queues' = [k \in Workloads |-> [queues[k] EXCEPT ![d] = <<>>]]
  /\ roundRobin' = [k \in Workloads |->
                      IF queues[k][d] = <<>> THEN roundRobin[k]
                      ELSE Without(roundRobin[k], d)]
  /\ lock' = Other
  /\ notify' = TRUE
  /\ UNCHANGED <<pc, req, asleep, activeVars, turnVars>>

(* remove_device, up to and including the call of _grant_locked.           *)
RemoveDevice(d) ==
  /\ lock = Free
  /\ outcome' = [c \in Calls |->
                   IF \E k \in Workloads : InSeq(queues[k][d], c)
                   THEN "removed" ELSE outcome[c]]
  /\ waiting' = waiting - Len(queues[Foreground][d]) - Len(queues[Background][d])
  /\ waitingByDevice' = [waitingByDevice EXCEPT
                           ![d] = IF \A k \in Workloads : queues[k][d] = <<>>
                                  THEN @ ELSE 0]
  /\ queues' = [k \in Workloads |-> [queues[k] EXCEPT ![d] = <<>>]]
  /\ roundRobin' = [k \in Workloads |->
                      IF queues[k][d] = <<>> THEN roundRobin[k]
                      ELSE Without(roundRobin[k], d)]
  /\ lock' = Other
  /\ notify' = TRUE
  /\ UNCHANGED <<pc, req, asleep, activeVars, turnVars>>

Next ==
  \/ \E c \in Calls :
       \/ \E d \in Devices, k \in Workloads : Acquire(c, d, k)
       \/ WaitAgain(c)
       \/ TimeOut(c)
       \/ Return(c)
       \/ BeginRelease(c)
       \/ Release(c)
  \/ \E k \in Workloads : Grant(k)
  \/ EndGrant
  \/ \E d \in Devices : RemoveDevice(d)

Spec == Init /\ [][Next]_vars

(* A thread that repeatedly finds the condition lock free gets it, the     *)
(* lock's holder runs on, and the owner of a lease gives it back.  The     *)
(* last is a condition on the callers: a transfer and a stream of output   *)
(* have no time limit of their own.  No call is ever forced to time out:   *)
(* the deadline is the caller's choice and may be far away.                *)
Fairness ==
  /\ \A k \in Workloads : WF_vars(Grant(k))
  /\ WF_vars(EndGrant)
  /\ \A c \in Calls : /\ SF_vars(Return(c))
                      /\ WF_vars(BeginRelease(c))
                      /\ SF_vars(Release(c))

FairSpec == Spec /\ Fairness

-----------------------------------------------------------------------------
TypeCalls ==
  /\ pc \in [Calls -> Phases]
  /\ req \in [Calls -> Requests \cup {NoRequest}]
  /\ \A c \in Calls : pc[c] # "idle" => req[c] \in Requests
  /\ outcome \in [Calls -> Outcomes]
  /\ \A c \in Calls : outcome[c] # "none" => pc[c] = "waiting"

TypeLock ==
  /\ asleep \in SUBSET Calls
  /\ lock \in Calls \cup {Free, Other}
  /\ notify \in BOOLEAN

TypeCounters ==
  /\ active \in Int
  /\ activeByDevice \in [Devices -> Int]
  /\ backgroundByDevice \in [Devices -> Int]
  /\ waiting \in Int
  /\ waitingByDevice \in [Devices -> Int]

TypeQueues ==
  /\ queues \in [Workloads -> [Devices -> Seq(Calls)]]
  /\ roundRobin \in [Workloads -> Seq(Devices)]

TypeTurns ==
  /\ streak \in 0..ForegroundBurst
  /\ bypassed \in Nat

(* The type invariant.  A call has a request while it is in progress, and  *)
(* only a call inside acquire has a settled waiter.                        *)
TypeOK == TypeCalls /\ TypeLock /\ TypeCounters /\ TypeQueues /\ TypeTurns

(* Every counter of the scheduler equals the number of calls it stands     *)
(* for, through grants, time-outs, removals and releases in any order: in  *)
(* particular neither "accounting underflow" RuntimeError of _release can  *)
(* be raised, and no waiter or lease is counted twice or forgotten.        *)
Accounting ==
  /\ active = Cardinality(Holders)
  /\ waiting = Cardinality(Waiters)
  /\ \A d \in Devices :
       /\ activeByDevice[d] = Cardinality(HoldersOf(d))
       /\ backgroundByDevice[d] = Cardinality(BackgroundHoldersOf(d))
       /\ waitingByDevice[d] = Cardinality(WaitersOf(d))

(* The calls that really hold capacity, and the calls that really queue,   *)
(* never exceed the five limits of the constructor.                        *)
AdmissionBounded ==
  /\ Cardinality(Holders) <= GlobalLimit
  /\ Cardinality(Waiters) <= GlobalWaitLimit
  /\ \A d \in Devices :
       /\ Cardinality(HoldersOf(d)) <= DeviceLimit
       /\ Cardinality(BackgroundHoldersOf(d)) <= BackgroundDeviceLimit
       /\ Cardinality(WaitersOf(d)) <= DeviceWaitLimit

(* No element occurs twice in the sequence s.                              *)
Distinct(s) == \A i, j \in DOMAIN s : s[i] = s[j] => i = j

(* A queued call is in the queue of its device and workload, once, and     *)
(* nothing else is in a queue; so _remove_waiter_locked always finds its   *)
(* waiter.                                                                 *)
QueueExact ==
  \A k \in Workloads, d \in Devices :
    /\ Distinct(queues[k][d])
    /\ \A c \in Calls :
         InSeq(queues[k][d], c) <=> Queued(c) /\ req[c] = [device |-> d, workload |-> k]

(* A device takes part in the round robin of a workload, once, exactly     *)
(* while it has waiters of that workload: none is left out (its waiters    *)
(* would starve), and _pop_eligible_locked never meets an empty queue.     *)
RoundRobinExact ==
  \A k \in Workloads :
    /\ Distinct(roundRobin[k])
    /\ \A d \in Devices : InSeq(roundRobin[k], d) <=> queues[k][d] # <<>>

(* Waiters and their devices are where _grant_locked looks for them, from  *)
(* acquire until they are granted, removed or timed out.                   *)
WaitersExact == QueueExact /\ RoundRobinExact

(* The whole state fits together: types, counters and queues.              *)
StateExact == TypeOK /\ Accounting /\ WaitersExact

(* Whenever the condition lock is free, no waiter is left queued that the  *)
(* limits would let in: no release, removal or time-out forgets to pass    *)
(* the capacity it freed on.                                               *)
WorkConserving ==
  lock = Free =>
    \A c \in Calls : Queued(c) => ~CanGrant(req[c].device, req[c].workload)

(* No lost wakeup: a call that was granted or whose device was removed is  *)
(* not left asleep in Condition.wait once the lock is free.                *)
NoLostWakeup ==
  lock = Free => \A c \in asleep : Queued(c)

(* At most ForegroundBurst foreground grants in a row go past a background *)
(* waiter that could have been granted.                                    *)
BoundedBypass == bypassed <= ForegroundBurst

(* Nobody waits for what is there: capacity that became free is passed on, *)
(* not over the heads of background waiters for longer than a burst, and   *)
(* whoever got it, or lost its device, is woken (_grant_locked, _release   *)
(* and remove_device of scheduler.py).                                     *)
NobodyForgotten == WorkConserving /\ NoLostWakeup /\ BoundedBypass

(* A queued call does not wait forever: it is granted, or its device is    *)
(* removed, or it gives up.                                                *)
NoStarvation == \A c \in Calls : Queued(c) ~> ~Queued(c)

(* The same of background calls, whatever the foreground does.  A grant to *)
(* background work of another device ends the foreground burst, so this    *)
(* does not hold with more than one lease in total.                        *)
BackgroundServed ==
  \A c \in Calls :
    (Queued(c) /\ req[c].workload = Background) ~> ~Queued(c)

(* Foreground capacity the limits reserve is usable: a foreground call     *)
(* that could be granted at once is not refused as "queue full".  The      *)
(* wait limits count both workloads, so this does not hold.                *)
ReservedSlotsReachable ==
  lock = Free =>
    \A d \in Devices : CanGrant(d, Foreground) => ~QueueFull(d)

-----------------------------------------------------------------------------
(* The lease of each call, as the callers of the scheduler see it.         *)
Leases == [c \in Calls |-> IF Holds(c) THEN req[c] ELSE NoRequest]

Abstract == INSTANCE Admission WITH NoLease <- NoRequest, lease <- Leases

(* The queues, the round robin, the condition variable and the counters    *)
(* implement the admission control the transports rely on.                 *)
ImplementsAdmission == Abstract!Spec
=============================================================================
