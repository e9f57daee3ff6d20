--------------------------- MODULE StreamsProofs ----------------------------
(***************************************************************************)
(* What runs on the boards and is shown while it runs, for every number of *)
(* commands, samplers, followers and streams: commands and their slots,    *)
(* the samples of the monitor, the followers of logs, and the hub that     *)
(* counts the event streams of the browser.                                *)
(***************************************************************************)
EXTENDS ExecJobs, Monitor, LogCentre, SequenceTheorems, DataLemmas

-----------------------------------------------------------------------------
(***************************************************************************)
(* Commands on boards (ExecJobs).  Where a call is decides whether it      *)
(* holds a slot, whether its store knows it and whether its process may be *)
(* alive.                                                                  *)
(***************************************************************************)

Slotted == {j \in Jobs : at[j] \in {"slotted", "opening", "opened", "reading", "waited"}}
ActivePlaces == {"opening", "opened", "reading", "waited"}

\* The types; a count is bounded by SlotsOK.
ExecTyped ==
  /\ at \in [Jobs -> Places]
  /\ store \in [Jobs -> Stores \cup {NoStore}]
  /\ table \in [Stores -> SUBSET Jobs]
  /\ running \subseteq Jobs /\ shown \subseteq Jobs /\ killed \subseteq Jobs
  /\ child \in [Jobs -> {"none", "alive", "gone"}]
  /\ timer \in [Jobs -> {"off", "armed", "termed", "over"}]
  /\ killers \subseteq Jobs
  /\ closing \in [Stores -> Closings]

TablesBounded == \A s \in Stores : Cardinality(table[s]) <= MaxJobs

SlotsOK == slots \in Nat /\ slots + Cardinality(Slotted) = MaxConcurrent

\* What goes with the place of one call: its store, its entry in the store's
\* table, which no purge removes, and its process.
CallOK(j) ==
  /\ at[j] = "new" <=> store[j] = NoStore
  /\ at[j] \in ActivePlaces <=> j \in running
  /\ at[j] \in ActivePlaces => j \in table[store[j]]
  /\ child[j] = "alive" => at[j] \in {"opened", "reading"}

\* A store that was closed cleanly has no call past its registration.
ClosedOK ==
  \A j \in Jobs : store[j] # NoStore /\ closing[store[j]] = "clean" => at[j] \notin ActivePlaces

\* The inductive invariant.
ExecInv == ExecTyped /\ TablesBounded /\ SlotsOK /\ (\A j \in Jobs : CallOK(j)) /\ ClosedOK

-----------------------------------------------------------------------------
\* The calls that hold a slot are finitely many.
LEMMA SlottedFinite == IsFiniteSet(Slotted) /\ Cardinality(Slotted) \in Nat
  BY ExecAssumption, FS_Subset, FS_CardinalityType DEF Slotted

\* No call, and all slots free.
LEMMA ExecInit == Init => ExecInv
<1> SUFFICES ASSUME Init PROVE ExecInv
  OBVIOUS
<1>1. ExecTyped
  BY DEF Init, ExecTyped, Places, Closings
<1>2. Slotted = {}
  BY DEF Init, Slotted
<1>3. SlotsOK
  BY <1>2, FS_EmptySet, ExecAssumption DEF Init, SlotsOK
<1>4. TablesBounded
  BY FS_EmptySet, ExecAssumption DEF Init, TablesBounded
<1>5. (\A j \in Jobs : CallOK(j)) /\ ClosedOK
  BY DEF Init, CallOK, ClosedOK, ActivePlaces
<1> QED BY <1>1, <1>3, <1>4, <1>5 DEF ExecInv

\* One call moves, and the slots are what its places say.
LEMMA SlotsMove ==
  ASSUME ExecInv, NEW j \in Jobs, NEW p \in Places, Move(j, p),
         slots' = slots + (IF at[j] \in {"new", "ended", "refused"} THEN 0 ELSE 1)
                        - (IF p \in {"new", "ended", "refused"} THEN 0 ELSE 1),
         slots' \in Nat
  PROVE  SlotsOK'
<1>1. at'[j] = p /\ \A k \in Jobs \ {j} : at'[k] = at[k]
  BY DEF ExecInv, ExecTyped, Move
<1>2. at[j] \in Places /\ slots \in Nat
  BY DEF ExecInv, ExecTyped, SlotsOK
<1>3. CASE at[j] \in {"new", "ended", "refused"} /\ p \in {"new", "ended", "refused"}
  <2>1. Slotted' = Slotted /\ slots' = slots
    BY <1>1, <1>2, <1>3 DEF Slotted
  <2> QED BY <2>1, ExecAssumption DEF ExecInv, SlotsOK
<1>4. CASE at[j] \in {"new", "ended", "refused"} /\ p \notin {"new", "ended", "refused"}
  <2>1. Slotted' = Slotted \cup {j} /\ j \notin Slotted /\ slots' = slots - 1
    BY <1>1, <1>2, <1>4 DEF Slotted, Places
  <2>2. Cardinality(Slotted') = Cardinality(Slotted) + 1
    BY <2>1, SlottedFinite, FS_AddElement
  <2> QED BY <1>2, <2>1, <2>2, SlottedFinite, ExecAssumption DEF ExecInv, SlotsOK
<1>5. CASE at[j] \notin {"new", "ended", "refused"} /\ p \in {"new", "ended", "refused"}
  <2>1. Slotted' = Slotted \ {j} /\ j \in Slotted /\ slots' = slots + 1
    BY <1>1, <1>2, <1>5 DEF Slotted, Places
  <2>2. Cardinality(Slotted') = Cardinality(Slotted) - 1
    BY <2>1, SlottedFinite, FS_RemoveElement
  <2> QED BY <1>2, <2>1, <2>2, SlottedFinite, ExecAssumption DEF ExecInv, SlotsOK
<1>6. CASE at[j] \notin {"new", "ended", "refused"} /\ p \notin {"new", "ended", "refused"}
  <2>1. Slotted' = Slotted /\ slots' = slots
    BY <1>1, <1>2, <1>6 DEF Slotted, Places
  <2> QED BY <2>1, ExecAssumption DEF ExecInv, SlotsOK
<1> QED BY <1>3, <1>4, <1>5, <1>6

\* run takes a slot.
LEMMA ExecTakeSlot ==
  ASSUME ExecInv, NEW j \in Jobs, NEW s \in Stores, TakeSlot(j, s)
  PROVE  ExecInv'
<1> USE DEF ExecInv, procVars, threadVars
<1>1. ExecTyped'
  BY DEF ExecTyped, TakeSlot, Move, Places
<1>2. /\ at[j] = "new" /\ at'[j] = "slotted" /\ store'[j] = s
      /\ \A k \in Jobs \ {j} : at'[k] = at[k] /\ store'[k] = store[k]
  BY DEF ExecTyped, TakeSlot, Move
<1>3. SlotsOK'
  <2>1. slots' = slots - 1 /\ slots' \in Nat
    BY DEF TakeSlot, SlotsOK
  <2> QED BY <1>2, <2>1, SlotsMove DEF TakeSlot, Places, SlotsOK
<1>4. TablesBounded' /\ \A k \in Jobs : CallOK(k)'
  BY <1>2, ExecAssumption DEF TablesBounded, TakeSlot, CallOK, ActivePlaces
<1>5. ClosedOK'
  BY <1>2, ExecAssumption DEF ClosedOK, TakeSlot, ActivePlaces
<1> QED BY <1>1, <1>3, <1>4, <1>5

\* What the purge leaves of a table is finite and no larger.
LEMMA PurgedSmaller ==
  ASSUME ExecInv, NEW s \in Stores, NEW old
  PROVE  /\ IsFiniteSet(table[s] \ old) /\ Cardinality(table[s] \ old) \in Nat
         /\ Cardinality(table[s] \ old) <= Cardinality(table[s])
         /\ Cardinality(table[s]) \in Nat
<1>1. IsFiniteSet(table[s])
  BY ExecAssumption, FS_Subset DEF ExecInv, ExecTyped
<1> QED BY <1>1, FS_Subset, FS_CardinalityType

\* run is refused and gives its slot back.
LEMMA ExecReject ==
  ASSUME ExecInv, NEW j \in Jobs, at[j] = "slotted", NEW old \in OldSets(store[j]), Reject(j, old)
  PROVE  ExecInv'
<1> USE DEF ExecInv, procVars, threadVars
<1>0. store[j] \in Stores
  BY DEF CallOK, ExecTyped
<1>1. ExecTyped'
  BY <1>0 DEF ExecTyped, Reject, Move, Places
<1>2. at'[j] = "refused" /\ \A k \in Jobs \ {j} : at'[k] = at[k]
  BY DEF ExecTyped, Reject, Move
<1>3. /\ table' = table \/ table'[store[j]] = table[store[j]] \ old
      /\ \A s \in Stores \ {store[j]} : table'[s] = table[s]
  BY <1>0 DEF ExecTyped, Reject
<1>4. SlotsOK'
  <2>1. slots' = slots + 1 /\ slots' \in Nat
    BY DEF Reject, SlotsOK
  <2> QED BY <1>2, <2>1, SlotsMove DEF Reject, Places, SlotsOK
<1>5. TablesBounded'
  BY <1>0, <1>3, PurgedSmaller, ExecAssumption DEF TablesBounded
<1>6. \A k \in Jobs : CallOK(k)'
  <2>1. \A k \in running, s \in Stores : k \in table[s] => k \in table'[s]
    BY <1>0, <1>3 DEF OldSets, ExecTyped
  <2> QED BY <1>0, <1>2, <2>1, ExecAssumption DEF CallOK, Reject, ActivePlaces, ExecTyped
<1>7. ClosedOK'
  BY <1>2 DEF ClosedOK, Reject, ActivePlaces
<1> QED BY <1>1, <1>4, <1>5, <1>6, <1>7

\* run enters its job in the table of a store that is open.
LEMMA ExecRegister ==
  ASSUME ExecInv, NEW j \in Jobs, at[j] = "slotted", NEW old \in OldSets(store[j]), Register(j, old)
  PROVE  ExecInv'
<1> USE DEF ExecInv, procVars, threadVars
<1>0. store[j] \in Stores
  BY DEF CallOK, ExecTyped
<1>1. ExecTyped'
  BY <1>0 DEF ExecTyped, Register, Move, Places
<1>2. at'[j] = "opening" /\ \A k \in Jobs \ {j} : at'[k] = at[k]
  BY DEF ExecTyped, Register, Move
<1>3. /\ table'[store[j]] = (table[store[j]] \ old) \cup {j}
      /\ \A s \in Stores \ {store[j]} : table'[s] = table[s]
  BY <1>0 DEF ExecTyped, Register
<1>4. SlotsOK'
  <2>1. slots' = slots
    BY DEF Register
  <2> QED BY <1>2, <2>1, SlotsMove DEF Register, Places, SlotsOK
<1>5. TablesBounded'
  <2> DEFINE kept == table[store[j]] \ old
  <2>1. IsFiniteSet(kept) /\ Cardinality(kept) \in Nat
    BY <1>0, PurgedSmaller
  <2>2. Cardinality(kept) < MaxJobs /\ table'[store[j]] = kept \cup {j}
    BY <1>3 DEF Register
  <2> HIDE DEF kept
  <2>3. Cardinality(kept \cup {j}) = IF j \in kept THEN Cardinality(kept) ELSE Cardinality(kept) + 1
    BY <2>1, FS_AddElement
  <2>4. Cardinality(table'[store[j]]) <= MaxJobs
    BY <2>1, <2>2, <2>3, ExecAssumption
  <2> QED BY <1>3, <2>4 DEF TablesBounded
<1>6. \A k \in Jobs : CallOK(k)'
  <2>1. \A k \in running, s \in Stores : k \in table[s] => k \in table'[s]
    BY <1>0, <1>3 DEF OldSets, ExecTyped
  <2>2. running' = running \cup {j} /\ store' = store /\ child' = child
    BY DEF Register
  <2> QED BY <1>0, <1>2, <1>3, <2>1, <2>2, ExecAssumption DEF CallOK, ActivePlaces, ExecTyped
<1>7. ClosedOK'
  BY <1>2 DEF ClosedOK, Register, Closed, ActivePlaces
<1> QED BY <1>1, <1>4, <1>5, <1>6, <1>7

\* The call and its threads, from open_cmd to the end of the reader.
LEMMA ExecWorks ==
  ASSUME ExecInv, NEW j \in Jobs,
         OpenFails(j) \/ Open(j) \/ ShowProc(j) \/ ReaderWaits(j) \/ ReaderEnds(j)
  PROVE  ExecInv'
<1> USE DEF ExecInv, procVars, threadVars
<1>1. ExecTyped'
  BY DEF ExecTyped, OpenFails, Open, ShowProc, ReaderWaits, ReaderEnds, Move, Places
<1>2. \A k \in Jobs \ {j} : /\ at'[k] = at[k] /\ child'[k] = child[k]
                            /\ k \in running' <=> k \in running
  BY DEF ExecTyped, OpenFails, Open, ShowProc, ReaderWaits, ReaderEnds, Move
<1>3. UNCHANGED <<store, table, closing>>
  BY DEF OpenFails, Open, ShowProc, ReaderWaits, ReaderEnds
<1>4. SlotsOK'
  <2>1. CASE OpenFails(j) \/ ReaderEnds(j)
    <3>1. Move(j, "ended") /\ slots' = slots + 1 /\ at[j] \in {"opening", "waited"} /\ slots' \in Nat
      BY <2>1 DEF OpenFails, ReaderEnds, SlotsOK
    <3> QED BY <3>1, SlotsMove DEF Places, SlotsOK
  <2>2. CASE Open(j) \/ ShowProc(j) \/ ReaderWaits(j)
    <3>1. PICK p \in {"opened", "reading", "waited"} : Move(j, p)
      BY <2>2 DEF Open, ShowProc, ReaderWaits
    <3>2. slots' = slots /\ at[j] \in {"opening", "opened", "reading"} /\ slots \in Nat
      BY <2>2 DEF Open, ShowProc, ReaderWaits, SlotsOK
    <3> QED BY <3>1, <3>2, SlotsMove DEF Places
  <2> QED BY <2>1, <2>2
<1>5. TablesBounded'
  BY <1>3 DEF TablesBounded
<1>6. CallOK(j)'
  BY <1>3 DEF CallOK, ActivePlaces, ExecTyped, OpenFails, Open, ShowProc, ReaderWaits, ReaderEnds, Move
<1>7. \A k \in Jobs \ {j} : CallOK(k)'
  BY <1>2, <1>3 DEF CallOK
<1>8. ClosedOK'
  <2>1. at[j] \in ActivePlaces
    BY DEF OpenFails, Open, ShowProc, ReaderWaits, ReaderEnds, ActivePlaces
  <2>2. store[j] # NoStore
    BY <2>1 DEF CallOK, ActivePlaces
  <2> QED BY <1>2, <1>3, <2>1, <2>2 DEF ClosedOK
<1> QED BY <1>1, <1>4, <1>5, <1>6, <1>7, <1>8

\* Everything that ends or kills a process leaves calls, tables and slots.
LEMMA ExecKills ==
  ASSUME ExecInv,
         \/ \E j \in Jobs : \/ ChildEnds(j) \/ TimerTerminates(j) \/ TimerKills(j)
                            \/ TimerQuits(j) \/ Kill(j) \/ HardKill(j)
         \/ \E s \in Stores : CloseBegins(s) \/ CloseKills(s) \/ CloseReturns(s)
  PROVE  ExecInv'
<1> USE DEF ExecInv, procVars, threadVars
<1>1. UNCHANGED <<at, store, table, running, slots>>
  BY DEF ChildEnds, TimerTerminates, TimerKills, TimerQuits, Kill, HardKill, CloseBegins,
         CloseKills, CloseReturns
<1>2. ExecTyped'
  <2>1. child' \in [Jobs -> {"none", "alive", "gone"}] /\ shown' \subseteq Jobs
    BY DEF ExecTyped, ChildEnds, TimerTerminates, TimerKills, TimerQuits, Kill, HardKill, CloseBegins,
           CloseKills, CloseReturns
  <2>2. killed' \subseteq Jobs
    BY DEF ExecTyped, ChildEnds, TimerTerminates, TimerKills, TimerQuits, Kill, HardKill, CloseBegins,
           CloseKills, CloseReturns, RunningOf
  <2>3. timer' \in [Jobs -> {"off", "armed", "termed", "over"}] /\ killers' \subseteq Jobs
    BY DEF ExecTyped, ChildEnds, TimerTerminates, TimerKills, TimerQuits, Kill, HardKill, CloseBegins,
           CloseKills, CloseReturns
  <2>4. closing' \in [Stores -> Closings]
    BY DEF ExecTyped, ChildEnds, TimerTerminates, TimerKills, TimerQuits, Kill, HardKill, CloseBegins,
           CloseKills, CloseReturns, Closings
  <2> QED BY <1>1, <2>1, <2>2, <2>3, <2>4 DEF ExecTyped
<1>3. \A j \in Jobs : child'[j] = "alive" => child[j] = "alive"
  BY DEF ExecTyped, ChildEnds, TimerTerminates, TimerKills, TimerQuits, Kill, HardKill, CloseBegins,
         CloseKills, CloseReturns
<1>4. TablesBounded' /\ SlotsOK' /\ \A j \in Jobs : CallOK(j)'
  BY <1>1, <1>3 DEF TablesBounded, SlotsOK, Slotted, CallOK
<1>5. \A s \in Stores : closing'[s] = "clean" => closing[s] = "clean" \/ RunningOf(s) = {}
  BY DEF ExecTyped, ChildEnds, TimerTerminates, TimerKills, TimerQuits, Kill, HardKill, CloseBegins,
         CloseKills, CloseReturns
<1>6. ClosedOK'
  <2> SUFFICES ASSUME NEW j \in Jobs, store[j] # NoStore, closing'[store[j]] = "clean",
                      at[j] \in ActivePlaces
               PROVE  FALSE
    BY <1>1 DEF ClosedOK
  <2>1. j \in RunningOf(store[j]) /\ store[j] \in Stores
    BY DEF CallOK, RunningOf, ExecTyped
  <2> QED BY <1>5, <2>1 DEF ClosedOK
<1> QED BY <1>2, <1>4, <1>6

\* Every step keeps the invariant.
LEMMA ExecNext == ExecInv /\ [Next]_vars => ExecInv'
<1> SUFFICES ASSUME ExecInv, [Next]_vars PROVE ExecInv'
  OBVIOUS
<1>1. CASE UNCHANGED vars
  BY <1>1 DEF vars, procVars, threadVars, ExecInv, ExecTyped, TablesBounded, SlotsOK, Slotted,
              CallOK, ClosedOK
<1>2. ASSUME NEW j \in Jobs, NEW s \in Stores, TakeSlot(j, s) PROVE ExecInv'
  BY <1>2, ExecTakeSlot
<1>3. ASSUME NEW j \in Jobs, at[j] = "slotted", NEW old \in OldSets(store[j]),
             Reject(j, old) \/ Register(j, old)
      PROVE ExecInv'
  BY <1>3, ExecReject, ExecRegister
<1>4. ASSUME NEW j \in Jobs, OpenFails(j) \/ Open(j) \/ ShowProc(j) \/ ReaderWaits(j) \/ ReaderEnds(j)
      PROVE ExecInv'
  BY <1>4, ExecWorks
<1>5. ASSUME NEW j \in Jobs, \/ ChildEnds(j) \/ TimerTerminates(j) \/ TimerKills(j)
                             \/ TimerQuits(j) \/ Kill(j) \/ HardKill(j)
      PROVE ExecInv'
  BY <1>5, ExecKills
<1>6. ASSUME NEW s \in Stores, CloseBegins(s) \/ CloseKills(s) \/ CloseReturns(s) PROVE ExecInv'
  BY <1>6, ExecKills
<1> QED BY <1>1, <1>2, <1>3, <1>4, <1>5, <1>6 DEF Next

\* What the invariant says about slots, tables and closed stores.
LEMMA ExecImplies == ExecInv => StoreConsistent
<1> SUFFICES ASSUME ExecInv PROVE StoreConsistent
  OBVIOUS
<1> USE DEF ExecInv
<1>1. TypeOK
  BY SlottedFinite, ExecAssumption DEF TypeOK, ExecTyped, TablesBounded, SlotsOK
<1>2. SlotsExact
  BY SlottedFinite, ExecAssumption DEF SlotsExact, SlotsOK, Slotted
<1>3. ActiveIsKnown
  BY DEF ActiveIsKnown, CallOK, ActivePlaces
<1>4. CloseReaps
  BY DEF CloseReaps, ClosedOK, CallOK, ActivePlaces, ExecTyped, Places
<1> QED BY <1>1, <1>2, <1>3, <1>4 DEF StoreConsistent

\* For any number of commands and boards: a slot is taken exactly for the
\* commands that are under way, every command under way can be found and
\* killed, no table outgrows its bound, and a store that was closed with
\* success has no process and will start none (execjob.py:45-130, 183-220).
THEOREM CommandsAccountedFor == Spec => []StoreConsistent
<1>1. Spec => []ExecInv
  BY ExecInit, ExecNext, PTL DEF Spec
<1> QED BY <1>1, ExecImplies, PTL

-----------------------------------------------------------------------------
(***************************************************************************)
(* The monitor and the hub of event streams (Monitor, SseHub).             *)
(***************************************************************************)

SmpType == [used : BOOLEAN, stop : BOOLEAN, okEver : BOOLEAN, silent : Nat, buf : Seq(Nat)]
ThrType == [of : Samplers \cup {NoSampler}, at : {"dead", "check", "collect"}, ts : Nat,
            reach : BOOLEAN]
WatchType == [at : {"new", "checked", "joined", "open", "done"}, prev : Nat, last : Nat]

MonTyped ==
  /\ clock \in Nat /\ clock <= MaxTime
  /\ smp \in [Samplers -> SmpType]
  /\ thr \in [SThreads -> ThrType]
  /\ curSmp \in Samplers \cup {NoSampler}
  /\ watch \in [Watchers -> WatchType]

(* The series b is in order and holds stamps of the past.                  *)
InOrder(b, now) ==
  /\ \A i \in 1..Len(b) : 1 <= b[i] /\ b[i] <= now
  /\ \A i \in 1..(Len(b) - 1) : Before(b[i], b[i + 1])

SeriesOK ==
  \A s \in Samplers : InOrder(smp[s].buf, clock) /\ (~smp[s].used => smp[s].buf = <<>>)

(* A sampler has one thread at most, and what that thread is collecting is *)
(* newer than what the series holds.                                       *)
ThreadsOK ==
  \A t \in SThreads : thr[t].at # "dead" =>
    /\ thr[t].of \in Samplers /\ smp[thr[t].of].used
    /\ \A u \in SThreads : thr[u].at # "dead" /\ thr[u].of = thr[t].of => u = t
    /\ thr[t].at = "collect" =>
         /\ 1 <= thr[t].ts /\ thr[t].ts <= clock
         /\ \A i \in 1..Len(smp[thr[t].of].buf) : Before(smp[thr[t].of].buf[i], thr[t].ts)

(* A stream has sent nothing newer than the newest sample of the board's   *)
(* sampler, nor than the one that is being collected for it.               *)
NewerThan(x) ==
  curSmp # NoSampler =>
    /\ smp[curSmp].buf # <<>> => x <= smp[curSmp].buf[Len(smp[curSmp].buf)]
    /\ \A t \in SThreads : thr[t].of = curSmp /\ thr[t].at = "collect" => Before(x, thr[t].ts)

WatchesOK ==
  \A w \in Watchers :
    /\ watch[w].last <= clock
    /\ watch[w].last # 0 => Before(watch[w].prev, watch[w].last)
    /\ NewerThan(watch[w].last)

SeriesInv ==
  /\ MonTyped /\ SeriesOK /\ ThreadsOK /\ WatchesOK
  /\ curSmp # NoSampler => smp[curSmp].used
  /\ monClosed => curSmp = NoSampler

HubInv ==
  /\ HubExact /\ IsFiniteSet(conns)
  /\ byKind \in [Kinds -> Nat]
  /\ \A w \in Watchers : <<w, "monitor">> \in conns => watch[w].at \in {"joined", "open"}

MonInv == SeriesInv /\ HubInv

-----------------------------------------------------------------------------
(* The hub.                                                                *)

OfKind(S, k) == {x \in S : x[2] = k}

\* A stream that was not listed is counted.
LEMMA HubAddKeeps ==
  ASSUME HubExact, IsFiniteSet(conns), byKind \in [Kinds -> Nat], NEW c, NEW kind \in Kinds,
         HubAdd(c, kind), <<c, kind>> \notin conns
  PROVE  HubExact' /\ IsFiniteSet(conns') /\ byKind' \in [Kinds -> Nat]
<1>1. conns' = conns \cup {<<c, kind>>} /\ byKind' = [byKind EXCEPT ![kind] = byKind[kind] + 1]
      /\ Cardinality(conns) < MaxConnections /\ byKind[kind] < KindCap
  BY DEF HubAdd, HubFits
<1>2. byKind' \in [Kinds -> Nat]
  BY <1>1
<1>3. IsFiniteSet(conns') /\ Cardinality(conns') = Cardinality(conns) + 1
  BY <1>1, FS_AddElement
<1>4. Cardinality(conns) \in Nat
  BY FS_CardinalityType
<1>5. ASSUME NEW k \in Kinds
      PROVE  byKind'[k] = Cardinality(OfKind(conns', k)) /\ byKind'[k] <= KindCap
  <2>1. IsFiniteSet(OfKind(conns, k)) /\ Cardinality(OfKind(conns, k)) \in Nat
    BY FS_Subset, FS_CardinalityType DEF OfKind
  <2>2. byKind[k] = Cardinality(OfKind(conns, k)) /\ byKind[k] <= KindCap
    BY DEF HubExact, OfKind
  <2>3. CASE k = kind
    <3>1. OfKind(conns', k) = OfKind(conns, k) \cup {<<c, kind>>}
      BY <1>1, <2>3 DEF OfKind
    <3>2. <<c, kind>> \notin OfKind(conns, k)
      BY DEF OfKind
    <3>3. Cardinality(OfKind(conns', k)) = Cardinality(OfKind(conns, k)) + 1
      BY <2>1, <3>1, <3>2, FS_AddElement
    <3>4. byKind[k] \in Nat
      OBVIOUS
    <3>5. QED BY <1>1, <2>2, <2>3, <3>3, <3>4, HubAssumption
  <2>4. CASE k # kind
    <3>1. OfKind(conns', k) = OfKind(conns, k)
      BY <1>1, <2>4 DEF OfKind
    <3>2. QED BY <1>1, <2>2, <2>4, <3>1
  <2>5. QED BY <2>3, <2>4
<1>6. HubExact'
  BY <1>1, <1>3, <1>4, <1>5, HubAssumption DEF HubExact, OfKind
<1>7. QED BY <1>2, <1>3, <1>6

\* What is taken off the table is taken off the counts.
LEMMA HubRemoveKeeps ==
  ASSUME HubExact, IsFiniteSet(conns), byKind \in [Kinds -> Nat], NEW c, HubRemove(c)
  PROVE  /\ HubExact' /\ IsFiniteSet(conns') /\ byKind' \in [Kinds -> Nat]
         /\ conns' = {x \in conns : x[1] # c}
<1> DEFINE listed == {x \in conns : x[1] = c}
<1>1. conns' = conns \ listed
      /\ byKind' = [k \in Kinds |-> byKind[k] - Cardinality(OfKind(listed, k))]
  BY DEF HubRemove, OfKind
<1>2. IsFiniteSet(conns') /\ Cardinality(conns') <= Cardinality(conns)
      /\ Cardinality(conns') \in Nat /\ Cardinality(conns) \in Nat
  BY <1>1, FS_Subset, FS_CardinalityType
<1>3. ASSUME NEW k \in Kinds
      PROVE  byKind'[k] = Cardinality(OfKind(conns', k)) /\ byKind'[k] <= KindCap /\ byKind'[k] \in Nat
  <2>1. IsFiniteSet(OfKind(conns, k)) /\ Cardinality(OfKind(conns, k)) \in Nat
    BY FS_Subset, FS_CardinalityType DEF OfKind
  <2>2. IsFiniteSet(OfKind(conns', k)) /\ Cardinality(OfKind(conns', k)) \in Nat
        /\ Cardinality(OfKind(conns', k)) <= Cardinality(OfKind(conns, k))
    <3>1. OfKind(conns', k) \subseteq OfKind(conns, k)
      BY <1>1 DEF OfKind
    <3>2. QED BY <2>1, <3>1, FS_Subset, FS_CardinalityType
  <2>3. byKind[k] = Cardinality(OfKind(conns, k)) /\ byKind[k] <= KindCap
    BY DEF HubExact, OfKind
  <2>4. OfKind(conns', k) = OfKind(conns, k) \ OfKind(listed, k)
    BY <1>1 DEF OfKind
  <2>5. OfKind(conns, k) \cap OfKind(listed, k) = OfKind(listed, k)
    BY DEF OfKind
  <2>6. Cardinality(OfKind(conns', k)) = Cardinality(OfKind(conns, k)) - Cardinality(OfKind(listed, k))
    <3> HIDE DEF listed
    <3> DEFINE S == OfKind(conns, k)
    <3> DEFINE T == OfKind(listed, k)
    <3>1. IsFiniteSet(S) /\ S \cap T = T /\ OfKind(conns', k) = S \ T
      BY <2>1, <2>4, <2>5
    <3> HIDE DEF S, T
    <3>2. Cardinality(S \ T) = Cardinality(S) - Cardinality(S \cap T)
      BY <3>1, FS_Difference, Zenon
    <3>3. Cardinality(OfKind(conns', k)) = Cardinality(S) - Cardinality(T)
      BY <3>1, <3>2, Zenon
    <3>4. QED BY <3>3 DEF S, T
  <2>7. byKind'[k] = Cardinality(OfKind(conns', k))
    BY <1>1, <2>3, <2>6
  <2>8. QED BY <2>1, <2>2, <2>3, <2>7, HubAssumption
<1>4. HubExact'
  BY <1>2, <1>3, HubAssumption DEF HubExact, OfKind
<1>5. byKind' \in [Kinds -> Nat]
  BY <1>1, <1>3
<1>6. conns' = {x \in conns : x[1] # c}
  BY <1>1
<1>7. QED BY <1>2, <1>4, <1>5, <1>6

(* A step that leaves the hub alone, and no stream out of its place in it. *)
LEMMA HubSame ==
  ASSUME HubInv, UNCHANGED hubVars,
         \A w \in Watchers : watch[w].at \in {"joined", "open"} => watch'[w].at \in {"joined", "open"}
  PROVE  HubInv'
BY DEF HubInv, HubExact, hubVars

\* An event stream of the monitor gets a place.
LEMMA HubJoins ==
  ASSUME HubInv, watch \in [Watchers -> WatchType], NEW w \in Watchers, HubAdd(w, "monitor"),
         watch[w].at = "checked", watch'[w].at = "joined",
         \A v \in Watchers \ {w} : watch'[v] = watch[v]
  PROVE  HubInv'
<1>1. <<w, "monitor">> \notin conns
  BY DEF HubInv
<1>2. HubExact' /\ IsFiniteSet(conns') /\ byKind' \in [Kinds -> Nat]
  BY <1>1, HubAddKeeps, MonitorAssumption DEF HubInv
<1>3. ASSUME NEW v \in Watchers, <<v, "monitor">> \in conns'
      PROVE  watch'[v].at \in {"joined", "open"}
  BY <1>3 DEF HubInv, HubAdd
<1>4. QED BY <1>2, <1>3 DEF HubInv

\* A stream leaves, listed or not.
LEMMA HubLeaves ==
  ASSUME HubInv, watch \in [Watchers -> WatchType], NEW w \in Watchers, HubRemove(w),
         \A v \in Watchers \ {w} : watch'[v] = watch[v]
  PROVE  HubInv'
<1>1. HubExact' /\ IsFiniteSet(conns') /\ byKind' \in [Kinds -> Nat]
      /\ conns' = {x \in conns : x[1] # w}
  BY HubRemoveKeeps DEF HubInv
<1>2. ASSUME NEW v \in Watchers, <<v, "monitor">> \in conns'
      PROVE  watch'[v].at \in {"joined", "open"}
  <2>1. v # w /\ <<v, "monitor">> \in conns
    BY <1>1, <1>2
  <2>2. QED BY <2>1 DEF HubInv
<1>3. QED BY <1>1, <1>2 DEF HubInv

\* Streams of other pages.
LEMMA HubOthers ==
  ASSUME HubInv, OtherPage
  PROVE  HubInv'
<1>1. UNCHANGED watch /\ HubOther(NoSampler, "agent")
  BY DEF OtherPage
<1>2. CASE <<NoSampler, "agent">> \in conns
  <2>1. HubRemove(NoSampler)
    BY <1>1, <1>2 DEF HubOther
  <2>2. HubExact' /\ IsFiniteSet(conns') /\ byKind' \in [Kinds -> Nat]
        /\ conns' = {x \in conns : x[1] # NoSampler}
    BY <2>1, HubRemoveKeeps DEF HubInv
  <2>3. QED BY <1>1, <2>2 DEF HubInv
<1>3. CASE <<NoSampler, "agent">> \notin conns
  <2>1. HubAdd(NoSampler, "agent")
    BY <1>1, <1>3 DEF HubOther
  <2>2. HubExact' /\ IsFiniteSet(conns') /\ byKind' \in [Kinds -> Nat]
    BY <1>3, <2>1, HubAddKeeps, MonitorAssumption DEF HubInv
  <2>3. ASSUME NEW v \in Watchers, <<v, "monitor">> \in conns'
        PROVE  watch'[v].at \in {"joined", "open"}
    BY <1>1, <2>1, <2>3 DEF HubInv, HubAdd
  <2>4. QED BY <2>2, <2>3 DEF HubInv
<1>4. QED BY <1>2, <1>3

-----------------------------------------------------------------------------
(* The series.                                                             *)

\* No sampler, no thread and no stream.
LEMMA MonInitOK == MonInit => MonInv
<1> SUFFICES ASSUME MonInit PROVE MonInv
  OBVIOUS
<1>1. NewSampler \in SmpType /\ NewSampler.buf = <<>>
  <2>1. <<>> \in Seq(Nat)
    OBVIOUS
  <2>2. QED BY <2>1 DEF NewSampler, SmpType
<1>2. NoThread \in ThrType /\ NoThread.at = "dead"
  BY DEF NoThread, ThrType
<1>3. NewWatch \in WatchType /\ NewWatch.last = 0
  BY DEF NewWatch, WatchType
<1>4. MonTyped /\ curSmp = NoSampler /\ clock = 0
  BY <1>1, <1>2, <1>3, MonitorAssumption DEF MonInit, MonTyped
<1>5. SeriesOK
  <2>1. \A s \in Samplers : smp[s].buf = <<>>
    BY <1>1 DEF MonInit
  <2>2. QED BY <2>1 DEF SeriesOK, InOrder
<1>6. ThreadsOK
  BY <1>2 DEF MonInit, ThreadsOK
<1>7. WatchesOK
  BY <1>3, <1>4 DEF MonInit, WatchesOK, NewerThan
<1>8. HubInv
  <2>1. conns = {} /\ byKind = [k \in Kinds |-> 0]
    BY DEF MonInit, HubInit
  <2>2. IsFiniteSet({}) /\ Cardinality({}) = 0
    BY FS_EmptySet
  <2>3. \A k \in Kinds : {x \in conns : x[2] = k} = {}
    BY <2>1
  <2>4. QED BY <2>1, <2>2, <2>3, HubAssumption DEF HubInv, HubExact
<1>9. QED BY <1>4, <1>5, <1>6, <1>7, <1>8 DEF MonInv, SeriesInv

(* A step that moves neither threads nor time, nor what series and streams *)
(* have recorded; the board may lose its sampler.                          *)
LEMMA SeriesSame ==
  ASSUME SeriesInv, UNCHANGED <<clock, thr>>,
         smp' \in [Samplers -> SmpType], watch' \in [Watchers -> WatchType],
         \A s \in Samplers : smp'[s].buf = smp[s].buf /\ smp'[s].used = smp[s].used,
         \A w \in Watchers : watch'[w].prev = watch[w].prev /\ watch'[w].last = watch[w].last,
         \/ curSmp' = curSmp /\ UNCHANGED monClosed
         \/ curSmp' = NoSampler
  PROVE  SeriesInv'
<1>1. MonTyped'
  BY DEF SeriesInv, MonTyped
<1>2. SeriesOK'
  BY DEF SeriesInv, SeriesOK, InOrder
<1>3. ThreadsOK'
  BY DEF SeriesInv, ThreadsOK
<1>4. WatchesOK'
  <2>1. ASSUME NEW w \in Watchers PROVE NewerThan(watch[w].last)'
    <3>1. CASE curSmp' = NoSampler
      BY <3>1 DEF NewerThan
    <3>2. CASE curSmp' = curSmp /\ curSmp # NoSampler
      <4>1. curSmp \in Samplers
        BY <3>2 DEF SeriesInv, MonTyped
      <4>2. NewerThan(watch[w].last)
        BY DEF SeriesInv, WatchesOK
      <4>3. QED BY <3>2, <4>1, <4>2 DEF NewerThan
    <3>3. QED BY <3>1, <3>2
  <2>2. ASSUME NEW w \in Watchers
        PROVE  watch'[w].last <= clock' /\ (watch'[w].last # 0 => Before(watch'[w].prev, watch'[w].last))
    BY DEF SeriesInv, WatchesOK, Before
  <2>3. QED BY <2>1, <2>2 DEF WatchesOK
<1>5. curSmp' # NoSampler => smp'[curSmp'].used
  BY DEF SeriesInv, MonTyped
<1>6. monClosed' => curSmp' = NoSampler
  BY DEF SeriesInv
<1>7. QED BY <1>1, <1>2, <1>3, <1>4, <1>5, <1>6 DEF SeriesInv

(* Keep appends to the series and drops the oldest when it is full.        *)
LEMMA KeepInOrder ==
  ASSUME NEW b \in Seq(Nat), NEW n \in Nat, NEW now \in Nat, InOrder(b, now),
         1 <= n, n <= now, \A i \in 1..Len(b) : Before(b[i], n)
  PROVE  /\ Keep(b, n) \in Seq(Nat) /\ Keep(b, n) # <<>>
         /\ Keep(b, n)[Len(Keep(b, n))] = n
         /\ InOrder(Keep(b, n), now)
<1> DEFINE long == Append(b, n)
<1>1. long \in Seq(Nat) /\ Len(long) = Len(b) + 1 /\ long[Len(b) + 1] = n
      /\ \A i \in 1..Len(b) : long[i] = b[i]
  OBVIOUS
<1>2. Len(b) \in Nat
  OBVIOUS
<1> HIDE DEF long
<1>3. InOrder(long, now)
  <2>1. ASSUME NEW i \in 1..Len(long) PROVE 1 <= long[i] /\ long[i] <= now
    <3>1. CASE i = Len(b) + 1
      BY <1>1, <3>1
    <3>2. CASE i \in 1..Len(b)
      BY <1>1, <3>2 DEF InOrder
    <3>3. QED BY <1>1, <1>2, <3>1, <3>2
  <2>2. ASSUME NEW i \in 1..(Len(long) - 1) PROVE Before(long[i], long[i + 1])
    <3>1. CASE i = Len(b)
      BY <1>1, <1>2, <3>1
    <3>2. CASE i < Len(b)
      <4>1. i \in 1..(Len(b) - 1) /\ i \in 1..Len(b) /\ i + 1 \in 1..Len(b)
        BY <1>1, <1>2, <3>2
      <4>2. QED BY <1>1, <4>1 DEF InOrder
    <3>3. QED BY <1>1, <1>2, <3>1, <3>2
  <2>3. QED BY <2>1, <2>2 DEF InOrder
<1>4. CASE Len(long) > MaxPoints
  <2>1. Keep(b, n) = Tail(long)
    BY <1>4 DEF Keep, long
  <2>2. MaxPoints \in Nat /\ MaxPoints > 0
    BY MonitorAssumption
  <2>3. Len(long) > 1 /\ Len(b) > 0
    BY <1>1, <1>2, <1>4, <2>2
  <2>4. Tail(long) \in Seq(Nat) /\ Len(Tail(long)) = Len(b)
        /\ \A i \in 1..Len(b) : Tail(long)[i] = long[i + 1]
    BY <1>1, <1>2, <2>3
  <2> DEFINE tail == Tail(long)
  <2> HIDE DEF tail
  <2>5. tail \in Seq(Nat) /\ Len(tail) = Len(b) /\ \A i \in 1..Len(b) : tail[i] = long[i + 1]
    BY <2>4 DEF tail
  <2>6. tail[Len(tail)] = n /\ tail # <<>>
    BY <1>1, <1>2, <2>3, <2>5
  <2>7. ASSUME NEW i \in 1..Len(tail) PROVE 1 <= tail[i] /\ tail[i] <= now
    <3>1. i \in 1..Len(b) /\ i + 1 \in 1..Len(long) /\ tail[i] = long[i + 1]
      BY <1>1, <1>2, <2>5
    <3>2. QED BY <1>3, <3>1 DEF InOrder
  <2>8. ASSUME NEW i \in 1..(Len(tail) - 1) PROVE Before(tail[i], tail[i + 1])
    <3>1. i + 1 \in 1..(Len(long) - 1) /\ i \in 1..Len(b) /\ i + 1 \in 1..Len(b)
      BY <1>1, <1>2, <2>5
    <3>2. Before(long[i + 1], long[(i + 1) + 1])
      BY <1>3, <3>1 DEF InOrder
    <3>3. tail[i] = long[i + 1] /\ tail[i + 1] = long[(i + 1) + 1]
      BY <2>5, <3>1
    <3>4. QED BY <3>2, <3>3
  <2>9. InOrder(tail, now)
    BY <2>7, <2>8 DEF InOrder
  <2>10. QED BY <2>1, <2>5, <2>6, <2>9 DEF tail
<1>5. CASE ~(Len(long) > MaxPoints)
  <2>1. Keep(b, n) = long
    BY <1>5 DEF Keep, long
  <2>2. long # <<>>
    BY <1>1, <1>2
  <2>3. QED BY <1>1, <1>3, <2>1, <2>2
<1>6. QED BY <1>4, <1>5

(* The thread t records its sample and goes on or ends.                    *)
LEMMA SeriesTakes ==
  ASSUME SeriesInv, NEW t \in SThreads, thr[t].at = "collect",
         NEW r \in SmpType, NEW q \in ThrType,
         r.used = smp[thr[t].of].used, r.buf = Keep(smp[thr[t].of].buf, thr[t].ts),
         q.at # "collect", q.at # "dead" => q.of = thr[t].of,
         smp' = [smp EXCEPT ![thr[t].of] = r], thr' = [thr EXCEPT ![t] = q],
         UNCHANGED <<clock, curSmp, monClosed, watch>>
  PROVE  SeriesInv'
<1> DEFINE s == thr[t].of
<1> DEFINE b == smp[s].buf
<1> DEFINE n == thr[t].ts
<1>1. MonTyped /\ SeriesOK /\ ThreadsOK /\ WatchesOK
  BY DEF SeriesInv
<1>2. s \in Samplers /\ smp[s].used /\ 1 <= n /\ n <= clock /\ \A i \in 1..Len(b) : Before(b[i], n)
  BY <1>1 DEF ThreadsOK
<1>3. b \in Seq(Nat) /\ n \in Nat /\ clock \in Nat
  BY <1>1, <1>2 DEF MonTyped, SmpType, ThrType
<1>4. InOrder(b, clock)
  BY <1>1, <1>2 DEF SeriesOK
<1>5. r.buf \in Seq(Nat) /\ r.buf # <<>> /\ r.buf[Len(r.buf)] = n /\ InOrder(r.buf, clock)
  <2> HIDE DEF s, b, n
  <2>1. r.buf = Keep(b, n)
    BY DEF s, b, n
  <2>2. QED BY <1>2, <1>3, <1>4, <2>1, KeepInOrder
<1>6. smp'[s] = r /\ \A x \in Samplers \ {s} : smp'[x] = smp[x]
  BY <1>1, <1>2 DEF MonTyped
<1>7. thr'[t] = q /\ \A u \in SThreads \ {t} : thr'[u] = thr[u]
  BY <1>1 DEF MonTyped
<1>8. \A u \in SThreads \ {t} : thr[u].at # "dead" => thr[u].of # s
  BY <1>1 DEF ThreadsOK
<1> HIDE DEF s, b, n
<1>9. MonTyped'
  BY <1>1, <1>2 DEF MonTyped, s
<1>10. SeriesOK'
  <2>1. ASSUME NEW x \in Samplers
        PROVE  InOrder(smp'[x].buf, clock') /\ (~smp'[x].used => smp'[x].buf = <<>>)
    <3>1. CASE x = s
      BY <1>2, <1>5, <1>6, <3>1 DEF s
    <3>2. CASE x # s
      BY <1>1, <1>6, <3>2 DEF SeriesOK
    <3>3. QED BY <3>1, <3>2
  <2>2. QED BY <2>1 DEF SeriesOK, InOrder
<1>11. ThreadsOK'
  <2>1. ASSUME NEW u \in SThreads, thr'[u].at # "dead"
        PROVE  /\ thr'[u].of \in Samplers /\ smp'[thr'[u].of].used
               /\ \A v \in SThreads : thr'[v].at # "dead" /\ thr'[v].of = thr'[u].of => v = u
               /\ thr'[u].at = "collect" =>
                    /\ 1 <= thr'[u].ts /\ thr'[u].ts <= clock'
                    /\ \A i \in 1..Len(smp'[thr'[u].of].buf) : Before(smp'[thr'[u].of].buf[i], thr'[u].ts)
    <3>1. CASE u = t
      <4>1. thr'[u].of = s /\ thr'[u].at # "collect"
        BY <1>7, <2>1, <3>1 DEF s
      <4>2. smp'[s].used
        BY <1>2, <1>6 DEF s
      <4>3. \A v \in SThreads : thr'[v].at # "dead" /\ thr'[v].of = thr'[u].of => v = u
        BY <1>7, <1>8, <3>1, <4>1
      <4>4. QED BY <1>2, <4>1, <4>2, <4>3
    <3>2. CASE u # t
      <4>1. thr'[u] = thr[u] /\ thr[u].at # "dead" /\ thr[u].of # s
        BY <1>7, <1>8, <2>1, <3>2
      <4>2. thr[u].of \in Samplers
        BY <1>1, <4>1 DEF ThreadsOK
      <4>3. smp'[thr[u].of] = smp[thr[u].of]
        BY <1>6, <4>1, <4>2
      <4>4. \A v \in SThreads : thr'[v].at # "dead" /\ thr'[v].of = thr'[u].of => v = u
        <5>1. ASSUME NEW v \in SThreads, thr'[v].at # "dead", thr'[v].of = thr'[u].of PROVE v = u
          <6>1. v # t
            BY <1>7, <4>1, <5>1 DEF s
          <6>2. thr'[v] = thr[v]
            BY <1>7, <6>1
          <6>3. QED BY <1>1, <4>1, <5>1, <6>2 DEF ThreadsOK
        <5>2. QED BY <5>1
      <4>5. QED BY <1>1, <4>1, <4>3, <4>4 DEF ThreadsOK
    <3>3. QED BY <3>1, <3>2
  <2>2. QED BY <2>1 DEF ThreadsOK, Before
<1>12. WatchesOK'
  <2>1. ASSUME NEW w \in Watchers PROVE NewerThan(watch[w].last)'
    <3>1. NewerThan(watch[w].last) /\ watch[w].last \in Nat
      BY <1>1 DEF WatchesOK, MonTyped, WatchType
    <3>2. CASE curSmp = s
      <4>1. Before(watch[w].last, n)
        BY <1>2, <3>1, <3>2, MonitorAssumption DEF NewerThan, s, n
      <4>2. watch[w].last <= n
        BY <1>3, <3>1, <4>1 DEF Before
      <4>3. \A u \in SThreads : ~(thr'[u].of = s /\ thr'[u].at = "collect")
        BY <1>7, <1>8
      <4>4. QED BY <1>5, <1>6, <3>2, <4>2, <4>3 DEF NewerThan
    <3>3. CASE curSmp # s /\ curSmp # NoSampler
      <4>1. smp'[curSmp] = smp[curSmp]
        BY <1>1, <1>6, <3>3 DEF MonTyped
      <4>2. \A u \in SThreads : thr'[u].of = curSmp /\ thr'[u].at = "collect" => thr'[u] = thr[u]
        BY <1>7
      <4>3. QED BY <3>1, <3>3, <4>1, <4>2 DEF NewerThan, Before
    <3>4. CASE curSmp = NoSampler
      BY <3>4 DEF NewerThan
    <3>5. QED BY <3>2, <3>3, <3>4
  <2>2. QED BY <1>1, <2>1 DEF WatchesOK, Before
<1>13. (curSmp # NoSampler => smp[curSmp].used)' /\ (monClosed => curSmp = NoSampler)'
  <2>1. curSmp # NoSampler => smp[curSmp].used /\ curSmp \in Samplers
    BY <1>1 DEF SeriesInv, MonTyped
  <2>2. CASE curSmp = s
    BY <1>2, <1>6, <2>2 DEF SeriesInv, s
  <2>3. CASE curSmp # s
    BY <1>6, <2>1, <2>3 DEF SeriesInv
  <2>4. QED BY <2>2, <2>3
<1>14. QED BY <1>9, <1>10, <1>11, <1>12, <1>13 DEF SeriesInv

(* The thread t ends, or stamps the next sample with the new time.         *)
LEMMA SeriesGoes ==
  ASSUME SeriesInv, NEW t \in SThreads, thr[t].at = "check",
         SamplerEnds(t) \/ SamplerAsks(t)
  PROVE  SeriesInv'
<1>1. MonTyped /\ SeriesOK /\ ThreadsOK /\ WatchesOK /\ thr[t] \in ThrType
  BY DEF SeriesInv, MonTyped
<1>2. UNCHANGED <<smp, curSmp, monClosed, watch>>
  BY DEF SamplerEnds, SamplerAsks
<1>3. CASE SamplerEnds(t)
  <2>1. thr' = [thr EXCEPT ![t] = NoThread] /\ clock' = clock
    BY <1>3 DEF SamplerEnds
  <2>2. NoThread \in ThrType /\ NoThread.at = "dead"
    BY DEF NoThread, ThrType
  <2>3. thr'[t].at = "dead" /\ \A u \in SThreads \ {t} : thr'[u] = thr[u]
    BY <1>1, <2>1, <2>2 DEF MonTyped
  <2>4. MonTyped'
    BY <1>1, <1>2, <2>1, <2>2 DEF MonTyped
  <2>5. SeriesOK'
    BY <1>1, <1>2, <2>1 DEF SeriesOK, InOrder
  <2>6. ThreadsOK'
    <3>1. \A u \in SThreads : thr'[u].at # "dead" => thr'[u] = thr[u] /\ thr[u].at # "dead"
      BY <2>3
    <3>2. ASSUME NEW u \in SThreads, thr'[u].at # "dead"
          PROVE  /\ thr[u].of \in Samplers /\ smp[thr[u].of].used
                 /\ \A v \in SThreads : thr'[v].at # "dead" /\ thr'[v].of = thr[u].of => v = u
                 /\ thr[u].at = "collect" =>
                      /\ 1 <= thr[u].ts /\ thr[u].ts <= clock
                      /\ \A i \in 1..Len(smp[thr[u].of].buf) : Before(smp[thr[u].of].buf[i], thr[u].ts)
      BY <1>1, <3>1, <3>2 DEF ThreadsOK
    <3>3. QED BY <1>2, <2>1, <3>1, <3>2 DEF ThreadsOK, Before
  <2>7. WatchesOK'
    <3>1. \A u \in SThreads : thr'[u].at = "collect" => thr'[u] = thr[u]
      BY <2>3
    <3>2. QED BY <1>1, <1>2, <2>1, <3>1 DEF WatchesOK, NewerThan, Before
  <2>8. QED BY <1>2, <2>4, <2>5, <2>6, <2>7 DEF SeriesInv
<1>4. CASE SamplerAsks(t)
  <2> DEFINE now == IF clock < MaxTime THEN clock + 1 ELSE clock
  <2> DEFINE q == [thr[t] EXCEPT !.at = "collect", !.ts = now, !.reach = (board = "known")]
  <2>1. thr' = [thr EXCEPT ![t] = q] /\ clock' = now
    BY <1>4 DEF SamplerAsks
  <2>2. clock \in Nat /\ clock <= MaxTime /\ MaxTime \in Nat /\ MaxTime > 0
    BY <1>1, MonitorAssumption DEF MonTyped
  <2>3. now \in Nat /\ 1 <= now /\ now <= MaxTime /\ clock <= now /\ (clock < now \/ now = MaxTime)
    BY <2>2
  <2> HIDE DEF now
  <2>4. q \in ThrType /\ q.at = "collect" /\ q.ts = now /\ q.of = thr[t].of
    BY <1>1, <2>3 DEF ThrType
  <2> HIDE DEF q
  <2>5. thr'[t] = q /\ \A u \in SThreads \ {t} : thr'[u] = thr[u]
    BY <1>1, <2>1 DEF MonTyped
  <2>6. MonTyped'
    BY <1>1, <1>2, <2>1, <2>3, <2>4 DEF MonTyped
  <2>7. \A x \in Nat : x <= clock => Before(x, now) /\ x <= now
    BY <2>2, <2>3 DEF Before
  <2>8. SeriesOK'
    <3>1. ASSUME NEW s \in Samplers PROVE InOrder(smp[s].buf, now)
      <4>1. InOrder(smp[s].buf, clock) /\ smp[s].buf \in Seq(Nat)
        BY <1>1 DEF SeriesOK, MonTyped, SmpType
      <4>2. \A i \in 1..Len(smp[s].buf) : smp[s].buf[i] \in Nat
        BY <4>1
      <4>3. QED BY <2>7, <4>1, <4>2 DEF InOrder
    <3>2. QED BY <1>1, <1>2, <2>1, <3>1 DEF SeriesOK
  <2>9. ThreadsOK'
    <3>1. ASSUME NEW u \in SThreads, thr'[u].at # "dead"
          PROVE  /\ thr'[u].of \in Samplers /\ smp'[thr'[u].of].used
                 /\ \A v \in SThreads : thr'[v].at # "dead" /\ thr'[v].of = thr'[u].of => v = u
                 /\ thr'[u].at = "collect" =>
                      /\ 1 <= thr'[u].ts /\ thr'[u].ts <= clock'
                      /\ \A i \in 1..Len(smp'[thr'[u].of].buf) : Before(smp'[thr'[u].of].buf[i], thr'[u].ts)
      <4>1. \A v \in SThreads : thr'[v].of = thr[v].of /\ (thr'[v].at # "dead" <=> thr[v].at # "dead")
        BY <2>4, <2>5
      <4>2. /\ thr'[u].of \in Samplers /\ smp'[thr'[u].of].used
            /\ \A v \in SThreads : thr'[v].at # "dead" /\ thr'[v].of = thr'[u].of => v = u
        BY <1>1, <1>2, <3>1, <4>1 DEF ThreadsOK
      <4>3. CASE u = t
        <5>1. smp[thr[t].of].buf \in Seq(Nat) /\ InOrder(smp[thr[t].of].buf, clock)
          BY <1>1, <4>1, <4>2, <4>3 DEF MonTyped, SmpType, SeriesOK
        <5>2. ASSUME NEW i \in 1..Len(smp[thr[t].of].buf) PROVE Before(smp[thr[t].of].buf[i], now)
          <6>1. smp[thr[t].of].buf[i] \in Nat /\ smp[thr[t].of].buf[i] <= clock
            BY <5>1 DEF InOrder
          <6>2. QED BY <2>7, <6>1
        <5>3. QED BY <1>2, <2>1, <2>3, <2>4, <2>5, <4>2, <4>3, <5>2
      <4>4. CASE u # t
        <5>1. thr'[u] = thr[u]
          BY <2>5, <4>4
        <5>2. thr[u].ts \in Nat
          BY <1>1 DEF MonTyped, ThrType
        <5>3. thr[u].at = "collect" => 1 <= thr[u].ts /\ thr[u].ts <= clock
          BY <1>1 DEF ThreadsOK
        <5>4. thr[u].at = "collect" =>
                \A i \in 1..Len(smp[thr[u].of].buf) : Before(smp[thr[u].of].buf[i], thr[u].ts)
          BY <1>1 DEF ThreadsOK
        <5>5. QED BY <1>2, <2>1, <2>7, <4>2, <5>1, <5>2, <5>3, <5>4
      <4>5. QED BY <4>3, <4>4
    <3>2. QED BY <3>1 DEF ThreadsOK, Before
  <2>10. WatchesOK'
    <3>1. ASSUME NEW w \in Watchers
          PROVE  watch[w].last <= now /\ NewerThan(watch[w].last)'
      <4>1. watch[w].last \in Nat /\ watch[w].last <= clock /\ NewerThan(watch[w].last)
        BY <1>1 DEF MonTyped, WatchType, WatchesOK
      <4>2. Before(watch[w].last, now) /\ watch[w].last <= now
        BY <2>7, <4>1
      <4>3. ASSUME NEW u \in SThreads, curSmp # NoSampler, thr'[u].of = curSmp, thr'[u].at = "collect"
            PROVE  Before(watch[w].last, thr'[u].ts)
        <5>1. CASE u = t
          BY <2>4, <2>5, <4>2, <5>1
        <5>2. CASE u # t
          BY <2>5, <4>1, <4>3, <5>2 DEF NewerThan
        <5>3. QED BY <5>1, <5>2
      <4>4. QED BY <1>2, <4>1, <4>2, <4>3 DEF NewerThan, Before
    <3>2. QED BY <1>1, <1>2, <2>1, <3>1 DEF WatchesOK, Before
  <2>11. QED BY <1>2, <2>6, <2>8, <2>9, <2>10 DEF SeriesInv
<1>5. QED BY <1>3, <1>4

(* get_or_start: the board's sampler, or one that nothing is known of yet, *)
(* gets a thread unless it has one.                                        *)
LEMMA SeriesStarts ==
  ASSUME SeriesInv, GetOrStart, UNCHANGED <<clock, monClosed>>,
         watch' \in [Watchers -> WatchType],
         \A w \in Watchers : watch'[w].prev = watch[w].prev /\ watch'[w].last = watch[w].last
  PROVE  SeriesInv'
<1>1. MonTyped /\ SeriesOK /\ ThreadsOK /\ WatchesOK
  BY DEF SeriesInv
<1>2. PICK s \in Samplers : /\ ~monClosed /\ Start(s) /\ curSmp' = s
                            /\ curSmp # NoSampler => s = curSmp
                            /\ curSmp = NoSampler => ~smp[s].used
  BY DEF GetOrStart
<1>3. s # NoSampler
  BY MonitorAssumption
<1>4. curSmp = NoSampler => smp[s].buf = <<>> /\ ~Live(s)
  BY <1>1, <1>2 DEF SeriesOK, ThreadsOK, Live
<1>5. ASSUME NEW w \in Watchers
      PROVE  /\ smp[s].buf # <<>> => watch[w].last <= smp[s].buf[Len(smp[s].buf)]
             /\ \A t \in SThreads : thr[t].of = s /\ thr[t].at = "collect" => Before(watch[w].last, thr[t].ts)
  <2>1. CASE curSmp = NoSampler
    BY <1>4, <2>1 DEF Live
  <2>2. CASE curSmp # NoSampler
    BY <1>1, <1>2, <2>2 DEF WatchesOK, NewerThan
  <2>3. QED BY <2>1, <2>2
<1>6. CASE Live(s)
  <2>1. UNCHANGED <<thr, smp>>
    BY <1>2, <1>6 DEF Start
  <2>2. smp[s].used
    BY <1>1, <1>6 DEF Live, ThreadsOK
  <2>3. MonTyped' /\ SeriesOK' /\ ThreadsOK'
    BY <1>1, <1>2, <2>1 DEF MonTyped, SeriesOK, ThreadsOK, InOrder
  <2>4. WatchesOK'
    BY <1>1, <1>2, <1>5, <2>1 DEF WatchesOK, NewerThan, Before
  <2>5. QED BY <1>2, <2>1, <2>2, <2>3, <2>4 DEF SeriesInv
<1>7. CASE ~Live(s)
  <2> DEFINE q == NewThread(s)
  <2> DEFINE r == [smp[s] EXCEPT !.used = TRUE, !.stop = FALSE,
                                 !.silent = IF smp[s].okEver THEN smp[s].silent ELSE 0]
  <2>1. PICK t \in SThreads : thr[t].at = "dead" /\ thr' = [thr EXCEPT ![t] = q]
                              /\ smp' = [smp EXCEPT ![s] = r]
    BY <1>2, <1>7, Zenon DEF Start
  <2>2. smp[s] \in SmpType
    BY <1>1 DEF MonTyped
  <2>3. r.used /\ r.buf = smp[s].buf
    BY <2>2 DEF SmpType
  <2>4. r \in SmpType
    <3> DEFINE x == IF smp[s].okEver THEN smp[s].silent ELSE 0
    <3>1. x \in Nat
      BY <2>2 DEF SmpType
    <3> HIDE DEF x
    <3>2. [smp[s] EXCEPT !.used = TRUE, !.stop = FALSE, !.silent = x] \in SmpType
      BY <2>2, <3>1 DEF SmpType
    <3>3. QED BY <3>2 DEF x
  <2>5. q \in ThrType /\ q.of = s /\ q.at = "check"
    BY DEF ThrType, NewThread
  <2> HIDE DEF q, r
  <2>6. smp'[s] = r /\ \A x \in Samplers \ {s} : smp'[x] = smp[x]
    BY <1>1, <2>1 DEF MonTyped
  <2>7. thr'[t] = q /\ \A u \in SThreads \ {t} : thr'[u] = thr[u]
    BY <1>1, <2>1 DEF MonTyped
  <2>8. \A x \in Samplers : smp'[x].buf = smp[x].buf /\ (smp[x].used => smp'[x].used)
    BY <2>3, <2>6
  <2>9. MonTyped'
    BY <1>1, <1>2, <2>1, <2>4, <2>5 DEF MonTyped
  <2>10. SeriesOK'
    BY <1>1, <2>6, <2>8, <2>3 DEF SeriesOK, InOrder
  <2>11. ThreadsOK'
    <3>1. ASSUME NEW u \in SThreads, thr'[u].at # "dead"
          PROVE  /\ thr'[u].of \in Samplers /\ smp'[thr'[u].of].used
                 /\ \A v \in SThreads : thr'[v].at # "dead" /\ thr'[v].of = thr'[u].of => v = u
                 /\ thr'[u].at = "collect" =>
                      /\ 1 <= thr'[u].ts /\ thr'[u].ts <= clock'
                      /\ \A i \in 1..Len(smp'[thr'[u].of].buf) : Before(smp'[thr'[u].of].buf[i], thr'[u].ts)
      <4>1. CASE u = t
        <5>1. thr'[u].of = s /\ thr'[u].at = "check"
          BY <2>5, <2>7, <4>1
        <5>2. \A v \in SThreads : thr'[v].at # "dead" /\ thr'[v].of = s => v = u
          BY <1>7, <2>7, <4>1 DEF Live
        <5>3. QED BY <2>3, <2>6, <5>1, <5>2
      <4>2. CASE u # t
        <5>1. thr'[u] = thr[u] /\ thr[u].of # s
          BY <1>7, <2>7, <3>1, <4>2 DEF Live
        <5>2. thr[u].of \in Samplers /\ smp[thr[u].of].used
          BY <1>1, <3>1, <5>1 DEF ThreadsOK
        <5>3. \A v \in SThreads : thr'[v].at # "dead" /\ thr'[v].of = thr'[u].of => v = u
          <6>1. ASSUME NEW v \in SThreads, thr'[v].at # "dead", thr'[v].of = thr'[u].of PROVE v = u
            <7>1. v # t
              BY <2>5, <2>7, <5>1, <6>1
            <7>2. thr'[v] = thr[v]
              BY <2>7, <7>1
            <7>3. QED BY <1>1, <3>1, <5>1, <6>1, <7>2 DEF ThreadsOK
          <6>2. QED BY <6>1
        <5>4. smp'[thr[u].of] = smp[thr[u].of]
          BY <2>6, <5>1, <5>2
        <5>5. QED BY <1>1, <3>1, <5>1, <5>2, <5>3, <5>4 DEF ThreadsOK
      <4>3. QED BY <4>1, <4>2
    <3>2. QED BY <3>1 DEF ThreadsOK, Before
  <2>12. WatchesOK'
    <3>1. \A u \in SThreads : thr'[u].at = "collect" => thr'[u] = thr[u]
      BY <2>5, <2>7
    <3>2. ASSUME NEW w \in Watchers PROVE NewerThan(watch[w].last)'
      <4>1. smp'[s].buf = smp[s].buf
        BY <2>8
      <4>2. QED BY <1>2, <1>5, <3>1, <4>1 DEF NewerThan, Before
    <3>3. QED BY <1>1, <3>2 DEF WatchesOK, Before
  <2>13. QED BY <1>2, <2>3, <2>6, <2>9, <2>10, <2>11, <2>12 DEF SeriesInv
<1>8. QED BY <1>6, <1>7

(* A stream sends the newest sample.                                       *)
LEMMA SeriesLooks ==
  ASSUME SeriesInv, NEW w \in Watchers, WatchLooks(w)
  PROVE  SeriesInv'
<1>1. MonTyped /\ SeriesOK /\ ThreadsOK /\ WatchesOK
  BY DEF SeriesInv
<1> DEFINE b == smp[curSmp].buf
<1> DEFINE n == b[Len(b)]
<1> DEFINE r == [watch[w] EXCEPT !.prev = watch[w].last, !.last = n]
<1>2. curSmp # NoSampler
  BY DEF WatchLooks
<1>3. b # <<>> /\ n # watch[w].last /\ watch' = [watch EXCEPT ![w] = r]
      /\ UNCHANGED <<clock, smp, thr, curSmp, monClosed>>
  BY <1>2 DEF WatchLooks, Watch
<1>4. curSmp \in Samplers /\ b \in Seq(Nat) /\ InOrder(b, clock)
  BY <1>1, <1>2 DEF MonTyped, SmpType, SeriesOK
<1>5. Len(b) \in 1..Len(b) /\ n \in Nat /\ n <= clock /\ 1 <= n
  <2> HIDE DEF b
  <2>1. Len(b) \in Nat /\ Len(b) > 0
    BY <1>3, <1>4
  <2>2. Len(b) \in 1..Len(b)
    BY <2>1
  <2>3. QED BY <1>4, <2>2 DEF InOrder
<1>6. watch[w] \in WatchType /\ watch[w].last \in Nat /\ watch[w].last <= n
  BY <1>1, <1>2, <1>3 DEF MonTyped, WatchType, WatchesOK, NewerThan
<1>7. \A t \in SThreads : thr[t].of = curSmp /\ thr[t].at = "collect" => Before(n, thr[t].ts)
  BY <1>1, <1>5 DEF ThreadsOK
<1> HIDE DEF n
<1>8. r \in WatchType /\ r.prev = watch[w].last /\ r.last = n
  BY <1>5, <1>6 DEF WatchType
<1> HIDE DEF r
<1>9. watch'[w] = r /\ \A v \in Watchers \ {w} : watch'[v] = watch[v]
  BY <1>1, <1>3 DEF MonTyped
<1>10. Before(watch[w].last, n)
  BY <1>3, <1>5, <1>6 DEF Before, n
<1>11. MonTyped'
  BY <1>1, <1>3, <1>8 DEF MonTyped
<1>12. SeriesOK' /\ ThreadsOK'
  BY <1>1, <1>3 DEF SeriesOK, ThreadsOK, InOrder
<1>13. WatchesOK'
  <2>1. ASSUME NEW v \in Watchers
        PROVE  /\ watch'[v].last <= clock'
               /\ watch'[v].last # 0 => Before(watch'[v].prev, watch'[v].last)
               /\ NewerThan(watch[v].last)'
    <3>1. CASE v = w
      <4>1. NewerThan(watch[v].last)'
        BY <1>3, <1>5, <1>7, <1>8, <1>9, <3>1 DEF NewerThan, Before, n
      <4>2. QED BY <1>3, <1>5, <1>8, <1>9, <1>10, <3>1, <4>1
    <3>2. CASE v # w
      BY <1>1, <1>3, <1>9, <3>2 DEF WatchesOK, NewerThan, Before
    <3>3. QED BY <3>1, <3>2
  <2>2. QED BY <2>1 DEF WatchesOK, Before
<1>14. QED BY <1>3, <1>11, <1>12, <1>13 DEF SeriesInv

-----------------------------------------------------------------------------
\* What is kept of a series is a series.
LEMMA KeepTyped == \A b \in Seq(Nat), n \in Nat : Keep(b, n) \in Seq(Nat)
<1>1. ASSUME NEW b \in Seq(Nat), NEW n \in Nat PROVE Keep(b, n) \in Seq(Nat)
  <2>1. Append(b, n) \in Seq(Nat) /\ Append(b, n) # <<>>
    BY AppendProperties
  <2>2. Tail(Append(b, n)) \in Seq(Nat)
    BY <2>1, HeadTailProperties
  <2>3. QED BY <2>1, <2>2 DEF Keep
<1>2. QED BY <1>1

\* disable, the deletion of the board and close.
LEMMA MonService ==
  ASSUME MonInv, Disable \/ DeleteBoard \/ RemoveDevice \/ CloseMonitor \/ OtherPage
  PROVE  MonInv'
<1>1. SeriesInv /\ HubInv /\ MonTyped
  BY DEF MonInv, SeriesInv
<1>2. UNCHANGED <<clock, thr, watch>>
  BY DEF Disable, DeleteBoard, RemoveDevice, CloseMonitor, OtherPage
<1>3. smp' = smp \/ (curSmp \in Samplers /\ smp' = [smp EXCEPT ![curSmp].stop = TRUE])
  BY <1>1 DEF Disable, DeleteBoard, RemoveDevice, CloseMonitor, OtherPage, Stop, MonTyped
<1>4. smp' \in [Samplers -> SmpType]
      /\ \A s \in Samplers : smp'[s].buf = smp[s].buf /\ smp'[s].used = smp[s].used
  <2>1. CASE smp' = smp
    BY <1>1, <2>1 DEF MonTyped
  <2>2. CASE curSmp \in Samplers /\ smp' = [smp EXCEPT ![curSmp].stop = TRUE]
    <3> DEFINE r == [smp[curSmp] EXCEPT !.stop = TRUE]
    <3>1. smp' = [smp EXCEPT ![curSmp] = r] /\ smp[curSmp] \in SmpType
      BY <1>1, <2>2 DEF MonTyped
    <3>2. r \in SmpType /\ r.buf = smp[curSmp].buf /\ r.used = smp[curSmp].used
      BY <3>1 DEF SmpType
    <3> HIDE DEF r
    <3>3. QED BY <1>1, <2>2, <3>1, <3>2 DEF MonTyped
  <2>3. QED BY <1>3, <2>1, <2>2
<1>5. (curSmp' = curSmp /\ UNCHANGED monClosed) \/ curSmp' = NoSampler
  BY DEF Disable, DeleteBoard, RemoveDevice, CloseMonitor, OtherPage
<1>6. SeriesInv'
  <2>1. watch' \in [Watchers -> WatchType]
    BY <1>1, <1>2 DEF MonTyped
  <2>2. QED BY <1>1, <1>2, <1>4, <1>5, <2>1, SeriesSame
<1>7. HubInv'
  <2>1. CASE OtherPage
    BY <1>1, <2>1, HubOthers
  <2>2. CASE UNCHANGED hubVars
    BY <1>1, <1>2, <2>2, HubSame
  <2>3. QED BY <2>1, <2>2 DEF Disable, DeleteBoard, RemoveDevice, CloseMonitor
<1>8. QED BY <1>6, <1>7 DEF MonInv

\* A step of a sampler's thread.
LEMMA MonSampler ==
  ASSUME MonInv, NEW t \in SThreads, SamplerStep(t)
  PROVE  MonInv'
<1>1. SeriesInv /\ HubInv /\ MonTyped /\ ThreadsOK
  BY DEF MonInv, SeriesInv
<1>2. UNCHANGED <<hubVars, watch>>
  BY DEF SamplerStep, SamplerEnds, SamplerAsks, SamplerGets, SamplerFails
<1>3. HubInv'
  BY <1>1, <1>2, HubSame
<1> DEFINE s == thr[t].of
<1>4. CASE SamplerEnds(t) \/ SamplerAsks(t)
  <2>1. thr[t].at = "check"
    BY <1>4 DEF SamplerEnds, SamplerAsks
  <2>2. SeriesInv'
    BY <1>1, <1>4, <2>1, SeriesGoes
  <2>3. QED BY <1>3, <2>2 DEF MonInv
<1>5. ASSUME thr[t].at = "collect"
      PROVE  s \in Samplers /\ smp[s] \in SmpType /\ thr[t] \in ThrType
             /\ Keep(smp[s].buf, thr[t].ts) \in Seq(Nat)
  <2>1. s \in Samplers /\ smp[s] \in SmpType /\ thr[t] \in ThrType
    BY <1>1, <1>5 DEF ThreadsOK, MonTyped
  <2>2. smp[s].buf \in Seq(Nat) /\ thr[t].ts \in Nat
    BY <2>1 DEF SmpType, ThrType
  <2>3. QED BY <2>1, <2>2, KeepTyped
<1>6. CASE SamplerGets(t)
  <2> DEFINE k == Keep(smp[s].buf, thr[t].ts)
  <2> DEFINE r == [smp[s] EXCEPT !.okEver = TRUE, !.silent = 0, !.buf = k]
  <2> DEFINE q == [thr[t] EXCEPT !.at = "check", !.ts = 0, !.reach = FALSE]
  <2>1. thr[t].at = "collect" /\ smp' = [smp EXCEPT ![s] = r] /\ thr' = [thr EXCEPT ![t] = q]
        /\ UNCHANGED <<clock, curSmp, monClosed, watch>>
    BY <1>6, Zenon DEF SamplerGets
  <2>2. k \in Seq(Nat) /\ smp[s] \in SmpType /\ thr[t] \in ThrType
    BY <1>5, <2>1
  <2> HIDE DEF k
  <2>3. r \in SmpType /\ r.used = smp[s].used /\ r.buf = k
    BY <2>2 DEF SmpType
  <2>4. q \in ThrType /\ q.at = "check" /\ q.of = thr[t].of
    BY <2>2 DEF ThrType
  <2> HIDE DEF r, q
  <2>5. r.buf = Keep(smp[thr[t].of].buf, thr[t].ts)
    BY <2>3 DEF k
  <2>6. SeriesInv'
    BY <1>1, <2>1, <2>3, <2>4, <2>5, SeriesTakes
  <2>7. QED BY <1>3, <2>6 DEF MonInv
<1>7. CASE SamplerFails(t)
  <2> DEFINE silent == IF smp[s].silent < StopAfter THEN smp[s].silent + 1 ELSE StopAfter
  <2> DEFINE k == Keep(smp[s].buf, thr[t].ts)
  <2> DEFINE r == [smp[s] EXCEPT !.silent = silent, !.buf = k]
  <2> DEFINE q == IF silent = StopAfter THEN NoThread ELSE [thr[t] EXCEPT !.at = "check", !.ts = 0, !.reach = FALSE]
  <2>1. thr[t].at = "collect" /\ smp' = [smp EXCEPT ![s] = r] /\ thr' = [thr EXCEPT ![t] = q]
        /\ UNCHANGED <<clock, curSmp, monClosed, watch>>
    BY <1>7, Zenon DEF SamplerFails
  <2>2. k \in Seq(Nat) /\ smp[s] \in SmpType /\ thr[t] \in ThrType
    BY <1>5, <2>1
  <2>3. silent \in Nat
    BY <2>2, MonitorAssumption DEF SmpType
  <2> HIDE DEF k, silent
  <2>4. r \in SmpType /\ r.used = smp[s].used /\ r.buf = k
    BY <2>2, <2>3 DEF SmpType
  <2>5. q \in ThrType /\ q.at # "collect" /\ (q.at # "dead" => q.of = thr[t].of)
    <3>1. NoThread \in ThrType /\ NoThread.at = "dead"
      BY DEF NoThread, ThrType
    <3>2. [thr[t] EXCEPT !.at = "check", !.ts = 0, !.reach = FALSE] \in ThrType
      BY <2>2 DEF ThrType
    <3>3. [thr[t] EXCEPT !.at = "check", !.ts = 0, !.reach = FALSE].at = "check"
          /\ [thr[t] EXCEPT !.at = "check", !.ts = 0, !.reach = FALSE].of = thr[t].of
      BY <2>2 DEF ThrType
    <3>4. QED BY <3>1, <3>2, <3>3
  <2> HIDE DEF r, q
  <2>6. r.buf = Keep(smp[thr[t].of].buf, thr[t].ts)
    BY <2>4 DEF k
  <2>7. SeriesInv'
    BY <1>1, <2>1, <2>4, <2>5, <2>6, SeriesTakes
  <2>8. QED BY <1>3, <2>7 DEF MonInv
<1>8. QED BY <1>3, <1>4, <1>6, <1>7 DEF SamplerStep, MonInv

\* A stopped sampler gets older.
LEMMA MonAges ==
  ASSUME MonInv, NEW s \in Samplers, SamplerAges(s)
  PROVE  MonInv'
<1>1. SeriesInv /\ HubInv /\ MonTyped
  BY DEF MonInv, SeriesInv
<1>2. UNCHANGED <<clock, thr, curSmp, monClosed, watch, hubVars>> /\ smp' = [smp EXCEPT ![s].silent = StopAfter]
  BY DEF SamplerAges
<1>3. smp' \in [Samplers -> SmpType]
      /\ \A x \in Samplers : smp'[x].buf = smp[x].buf /\ smp'[x].used = smp[x].used
  BY <1>1, <1>2, MonitorAssumption DEF MonTyped, SmpType
<1>4. watch' \in [Watchers -> WatchType]
  BY <1>1, <1>2 DEF MonTyped
<1>5. SeriesInv'
  BY <1>1, <1>2, <1>3, <1>4, SeriesSame
<1>6. HubInv'
  BY <1>1, <1>2, HubSame
<1>7. QED BY <1>5, <1>6 DEF MonInv

(* A request that moves on to p.                                           *)
LEMMA WatchMoves ==
  ASSUME MonTyped, NEW w \in Watchers, NEW p \in {"checked", "joined", "open", "done"},
         Watch(w, [watch[w] EXCEPT !.at = p])
  PROVE  /\ watch' \in [Watchers -> WatchType] /\ watch'[w].at = p
         /\ \A v \in Watchers : watch'[v].prev = watch[v].prev /\ watch'[v].last = watch[v].last
         /\ \A v \in Watchers \ {w} : watch'[v] = watch[v]
         /\ UNCHANGED <<clock, monClosed>>
<1> DEFINE r == [watch[w] EXCEPT !.at = p]
<1>1. watch' = [watch EXCEPT ![w] = r] /\ UNCHANGED <<clock, monClosed>>
  BY DEF Watch
<1>2. watch[w] \in WatchType
  BY DEF MonTyped
<1>3. r \in WatchType /\ r.at = p /\ r.prev = watch[w].prev /\ r.last = watch[w].last
  BY <1>2 DEF WatchType
<1> HIDE DEF r
<1>4. QED BY <1>1, <1>3 DEF MonTyped

\* Requests, and streams that come and go.
LEMMA MonRequest ==
  ASSUME MonInv, NEW w \in Watchers,
         \/ WatchChecks(w) \/ Enable(w) \/ WatchJoins(w) \/ WatchStarts(w) \/ WatchCloses(w)
  PROVE  MonInv'
<1>1. SeriesInv /\ HubInv /\ MonTyped
  BY DEF MonInv, SeriesInv
<1>2. watch \in [Watchers -> WatchType] /\ smp \in [Samplers -> SmpType]
  BY <1>1 DEF MonTyped
<1>3. ASSUME NEW p \in {"checked", "joined", "open", "done"}, Watch(w, [watch[w] EXCEPT !.at = p]),
             UNCHANGED <<smp, thr, curSmp>> \/ GetOrStart
      PROVE  SeriesInv'
  <2>1. /\ watch' \in [Watchers -> WatchType]
        /\ \A v \in Watchers : watch'[v].prev = watch[v].prev /\ watch'[v].last = watch[v].last
        /\ UNCHANGED <<clock, monClosed>>
    BY <1>1, <1>3, WatchMoves
  <2>2. CASE UNCHANGED <<smp, thr, curSmp>>
    BY <1>1, <1>2, <2>1, <2>2, SeriesSame
  <2>3. CASE GetOrStart
    BY <1>1, <2>1, <2>3, SeriesStarts
  <2>4. QED BY <1>3, <2>2, <2>3
<1>4. ASSUME NEW p \in {"checked", "joined", "open", "done"}, Watch(w, [watch[w] EXCEPT !.at = p]),
             UNCHANGED hubVars,
             watch[w].at \in {"joined", "open"} => p \in {"joined", "open"}
      PROVE  HubInv'
  <2>1. watch'[w].at = p /\ \A v \in Watchers \ {w} : watch'[v] = watch[v]
    BY <1>1, <1>4, WatchMoves
  <2>2. \A v \in Watchers : watch[v].at \in {"joined", "open"} => watch'[v].at \in {"joined", "open"}
    BY <1>4, <2>1
  <2>3. QED BY <1>1, <1>4, <2>2, HubSame
<1>5. ASSUME NEW p \in {"checked", "joined", "open", "done"}, Watch(w, [watch[w] EXCEPT !.at = p]),
             HubRemove(w)
      PROVE  HubInv'
  <2>1. \A v \in Watchers \ {w} : watch'[v] = watch[v]
    BY <1>1, <1>5, WatchMoves
  <2>2. QED BY <1>1, <1>2, <1>5, <2>1, HubLeaves
<1>6. CASE WatchChecks(w)
  <2> DEFINE p == IF board # "known" THEN "done" ELSE "checked"
  <2>1. p \in {"checked", "joined", "open", "done"} /\ watch[w].at = "new"
        /\ Watch(w, [watch[w] EXCEPT !.at = p]) /\ UNCHANGED <<smp, thr, curSmp>> /\ UNCHANGED hubVars
    BY <1>6 DEF WatchChecks
  <2> HIDE DEF p
  <2>2. SeriesInv'
    BY <1>3, <2>1
  <2>3. HubInv'
    BY <1>4, <2>1
  <2>4. QED BY <2>2, <2>3 DEF MonInv
<1>7. CASE Enable(w)
  <2>1. watch[w].at = "checked" /\ Watch(w, [watch[w] EXCEPT !.at = "done"])
        /\ (UNCHANGED <<smp, thr, curSmp>> \/ GetOrStart) /\ UNCHANGED hubVars
    BY <1>7 DEF Enable
  <2>2. SeriesInv'
    BY <1>3, <2>1
  <2>3. HubInv'
    BY <1>4, <2>1
  <2>4. QED BY <2>2, <2>3 DEF MonInv
<1>8. CASE WatchJoins(w)
  <2>1. watch[w].at = "checked" /\ UNCHANGED <<smp, thr, curSmp>>
    BY <1>8 DEF WatchJoins
  <2>2. CASE HubAdd(w, "monitor") /\ Watch(w, [watch[w] EXCEPT !.at = "joined"])
    <3>1. SeriesInv'
      BY <1>3, <2>1, <2>2
    <3>2. watch'[w].at = "joined" /\ \A v \in Watchers \ {w} : watch'[v] = watch[v]
      BY <1>1, <2>2, WatchMoves
    <3>3. HubInv'
      BY <1>1, <1>2, <2>1, <2>2, <3>2, HubJoins
    <3>4. QED BY <3>1, <3>3 DEF MonInv
  <2>3. CASE Watch(w, [watch[w] EXCEPT !.at = "done"]) /\ UNCHANGED hubVars
    <3>1. SeriesInv'
      BY <1>3, <2>1, <2>3
    <3>2. HubInv'
      BY <1>4, <2>1, <2>3
    <3>3. QED BY <3>1, <3>2 DEF MonInv
  <2>4. QED BY <1>8, <2>2, <2>3 DEF WatchJoins
<1>9. CASE WatchStarts(w)
  <2>1. CASE GetOrStart /\ Watch(w, [watch[w] EXCEPT !.at = "open"]) /\ UNCHANGED hubVars
    <3>1. SeriesInv'
      BY <1>3, <2>1
    <3>2. HubInv'
      BY <1>4, <2>1
    <3>3. QED BY <3>1, <3>2 DEF MonInv
  <2>2. CASE Watch(w, [watch[w] EXCEPT !.at = "done"]) /\ HubRemove(w) /\ UNCHANGED <<smp, thr, curSmp>>
    <3>1. SeriesInv'
      BY <1>3, <2>2
    <3>2. HubInv'
      BY <1>5, <2>2
    <3>3. QED BY <3>1, <3>2 DEF MonInv
  <2>3. QED BY <1>9, <2>1, <2>2 DEF WatchStarts
<1>10. CASE WatchCloses(w)
  <2>1. Watch(w, [watch[w] EXCEPT !.at = "done"]) /\ HubRemove(w) /\ UNCHANGED <<smp, thr, curSmp>>
    BY <1>10 DEF WatchCloses
  <2>2. SeriesInv'
    BY <1>3, <2>1
  <2>3. HubInv'
    BY <1>5, <2>1
  <2>4. QED BY <2>2, <2>3 DEF MonInv
<1>11. QED BY <1>6, <1>7, <1>8, <1>9, <1>10

\* The agent's tool starts the sampler.
LEMMA MonAgent ==
  ASSUME MonInv, AgentMonitors
  PROVE  MonInv'
<1>1. SeriesInv /\ HubInv /\ watch \in [Watchers -> WatchType]
  BY DEF MonInv, SeriesInv, MonTyped
<1>2. GetOrStart /\ UNCHANGED <<clock, monClosed, watch, hubVars>>
  BY DEF AgentMonitors
<1>3. SeriesInv'
  BY <1>1, <1>2, SeriesStarts
<1>4. HubInv'
  BY <1>1, <1>2, HubSame
<1>5. QED BY <1>3, <1>4 DEF MonInv

\* A stream sends a frame.
LEMMA MonLooks ==
  ASSUME MonInv, NEW w \in Watchers, WatchLooks(w)
  PROVE  MonInv'
<1>1. SeriesInv /\ HubInv /\ watch \in [Watchers -> WatchType] /\ watch[w] \in WatchType
  BY DEF MonInv, SeriesInv, MonTyped
<1>2. SeriesInv'
  BY <1>1, SeriesLooks
<1>3. UNCHANGED hubVars /\ \E n : watch' = [watch EXCEPT ![w] = [watch[w] EXCEPT !.prev = watch[w].last, !.last = n]]
  BY DEF WatchLooks, Watch
<1>4. \A v \in Watchers : watch'[v].at = watch[v].at
  BY <1>1, <1>3 DEF WatchType
<1>5. HubInv'
  BY <1>1, <1>3, <1>4, HubSame
<1>6. QED BY <1>2, <1>5 DEF MonInv

\* Every step keeps the invariant.
LEMMA MonNextKeeps == MonInv /\ [MonNext]_monVars => MonInv'
<1> SUFFICES ASSUME MonInv, [MonNext]_monVars PROVE MonInv'
  OBVIOUS
<1>1. CASE UNCHANGED monVars
  <2>1. SeriesInv /\ HubInv /\ MonTyped
    BY DEF MonInv, SeriesInv
  <2>2. UNCHANGED <<clock, smp, thr, curSmp, monClosed, watch, hubVars>>
    BY <1>1 DEF monVars, hubVars
  <2>3. smp' \in [Samplers -> SmpType] /\ watch' \in [Watchers -> WatchType]
    BY <2>1, <2>2 DEF MonTyped
  <2>4. SeriesInv'
    BY <2>1, <2>2, <2>3, SeriesSame
  <2>5. HubInv'
    BY <2>1, <2>2, HubSame
  <2>6. QED BY <2>4, <2>5 DEF MonInv
<1>2. CASE MonNext
  BY <1>2, MonService, MonSampler, MonAges, MonRequest, MonAgent, MonLooks DEF MonNext
<1>3. QED BY <1>1, <1>2

(* The series of a board, and what a stream sends of it, are in the order  *)
(* of their time stamps, however requests, deletions, stops and late       *)
(* collections interleave (sampler.py:91-155, monitor.py:130-177 of the    *)
(* handlers); a closed service keeps no sampler, and the hub's counts are  *)
(* those of its streams and within their limits (sse.py).                  *)
THEOREM SamplesAlwaysInOrder == MonSpec => []SamplesInOrder
<1>1. MonInv => SamplesInOrder
  BY DEF MonInv, SeriesInv, SeriesOK, InOrder, WatchesOK, HubInv, SamplesInOrder
<1>2. QED BY <1>1, MonInitOK, MonNextKeeps, PTL DEF MonSpec

-----------------------------------------------------------------------------
(***************************************************************************)
(* The log centre (LogCentre).  A follower has pushed or may have missed   *)
(* every line up to the one it will read next, and what it pushed beyond   *)
(* was ahead of the count; a stream has got what lies between its first    *)
(* push and its cursor, which never overtakes the follower.                *)
(***************************************************************************)

\* Where the thread of a follower is.
ThreadPlaces == {"new", "start", "count", "tail", "open", "opened", "read", "blocked", "ended"}

\* The line of a push, and whether its round had not counted it.
PushRec == [line : Nat, ahead : BOOLEAN]

\* A follower: its thread, its flags, how far it counted and tailed the
\* journal, its process, and its buffer.
FollowerRec ==
  [at : ThreadPlaces, stop : BOOLEAN, toKill : BOOLEAN, last : Nat, total : Nat, base : Nat,
   child : {"none", "live", "dead"}, published : BOOLEAN, heard : Nat,
   buf : Seq(Nat), bytes : Nat, seq : Nat, pushed : Seq(PushRec)]

\* A buffer holds the last pushes, in their order.
Numbered(b) ==
  /\ Len(b.buf) <= b.seq
  /\ \A i \in 1 .. Len(b.buf) : b.buf[i] = b.seq - Len(b.buf) + i

FollowerType == {b \in FollowerRec : Numbered(b)}

\* A stream of the browser: its follower, its cursor, the first line it was to
\* get and what it got.
ReaderType ==
  [at : {"new", "followed", "open", "done"}, fol : Followers \cup {Nobody},
   cursor : Nat, from : Nat, got : Seq(Nat)]

\* The types; what was rotated away had been written.
LogTyped ==
  /\ written \in Nat /\ rotated \in Nat /\ rotated <= written
  /\ fol \in [Followers -> FollowerType]
  /\ missed \in [Followers -> SUBSET Int]
  /\ current \in Followers \cup {Nobody}
  /\ rd \in [Readers -> ReaderType]

\* The lines a follower has pushed.
LinesOf(b) == {b.pushed[i].line : i \in 1 .. Len(b.pushed)}

\* The lines up to the one a follower will read next were pushed or missed;
\* what it counted is in the file, unless the file was rotated since.
CountedUpTo(b, away) ==
  /\ b.at \in {"count", "tail"} => (b.base + 1) .. (b.base + b.last) \subseteq away \cup LinesOf(b)
  /\ b.at = "tail" => b.last < b.total /\ (rotated = b.base => b.base + b.total <= written)
  /\ b.at \in {"new", "start"} => b.last = 0
  /\ b.base \in {0, rotated}

\* A line pushed twice was ahead of the count the first time, not the second.
TwiceAhead(b) ==
  \A i, j \in 1 .. Len(b.pushed) :
    i < j /\ b.pushed[i].line = b.pushed[j].line => b.pushed[i].ahead /\ ~b.pushed[j].ahead

\* No line beyond this one was pushed ...
UpTo(b, n) == \A i \in 1 .. Len(b.pushed) : b.pushed[i].line <= n

\* ... unless ahead of the count.
CountedOnly(b, n) == \A i \in 1 .. Len(b.pushed) : b.pushed[i].ahead \/ b.pushed[i].line <= n

\* Where a poller is before the count, every line it pushed is in the file or
\* was rotated away, so the next round counts it; before the tail, it is
\* counted, so what is read ahead of the count is new.
PollOK(b) ==
  /\ b.at \in {"count", "tail"} => CountedOnly(b, b.base + b.last)
  /\ b.at = "count" => /\ UpTo(b, written) /\ b.base + b.last <= written
                       /\ rotated # b.base => b.base + b.last <= rotated
  /\ b.at = "tail" => /\ UpTo(b, b.base + b.total)
                      /\ rotated # b.base => b.base + b.total <= rotated

\* The pushes of a follower.
PushesOK(b) ==
  /\ Len(b.pushed) = b.seq /\ TwiceAhead(b) /\ PollOK(b)
  /\ b.at \in {"new", "start", "open"} => b.seq = 0
  /\ b.at \in {"opened", "read", "blocked"} => UpTo(b, b.heard)

\* What a stream got are pushes after its first and up to its cursor, in
\* order; all of them as long as the buffer has dropped no line.
Ordered(got, from, to) ==
  /\ \A i \in 1 .. Len(got) : got[i] \in (from + 1) .. to
  /\ \A i, j \in 1 .. Len(got) : i < j => got[i] < got[j]

ReadUpTo(s, b) ==
  /\ s.cursor <= b.seq /\ s.from <= s.cursor
  /\ Ordered(s.got, s.from, s.cursor)
  /\ Len(b.buf) = b.seq => Len(s.got) = s.cursor - s.from

\* A stream that has begun reads from a follower.
StreamOK(r) ==
  /\ rd[r].at = "new" => rd[r].fol = Nobody /\ rd[r].cursor = 0 /\ rd[r].from = 0 /\ rd[r].got = <<>>
  /\ rd[r].at # "new" => rd[r].fol \in Followers /\ ReadUpTo(rd[r], fol[rd[r].fol])

\* The hub's counts are exact, and it knows of no stream that is not open.
LogHub ==
  /\ HubExact /\ IsFiniteSet(conns) /\ byKind \in [Kinds -> Nat]
  /\ \A r \in Readers : <<r, "logcenter">> \in conns => rd[r].at = "open"

\* The inductive invariant.
LogInv ==
  /\ LogTyped
  /\ \A f \in Followers : CountedUpTo(fol[f], missed[f]) /\ PushesOK(fol[f])
  /\ \A r \in Readers : StreamOK(r)
  /\ NoFollowerForgotten /\ LogHub

-----------------------------------------------------------------------------
(* The buffer.                                                             *)

\* The larger, and the smaller, of two numbers.
LEMMA MaxOfTwo ==
  ASSUME NEW x \in Int, NEW y \in Int
  PROVE  /\ Max({x, y}) \in {x, y} /\ Max({x, y}) >= x /\ Max({x, y}) >= y
<1>1. \E m \in {x, y} : \A z \in {x, y} : m >= z
  <2>1. CASE x >= y BY <2>1
  <2>2. CASE y >= x BY <2>2
  <2>3. QED BY <2>1, <2>2
<1>2. QED BY <1>1 DEF Max

\* The smaller of two numbers.
LEMMA MinOfTwo ==
  ASSUME NEW x \in Int, NEW y \in Int
  PROVE  /\ Min({x, y}) \in {x, y} /\ Min({x, y}) <= x /\ Min({x, y}) <= y
<1>1. \E m \in {x, y} : \A z \in {x, y} : m <= z
  <2>1. CASE x <= y BY <2>1
  <2>2. CASE y <= x BY <2>2
  <2>3. QED BY <2>1, <2>2
<1>2. QED BY <1>1 DEF Min

\* The fields of a follower.
LEMMA FollowerFields ==
  ASSUME NEW b \in FollowerType
  PROVE  /\ b \in FollowerRec /\ b.at \in ThreadPlaces /\ b.stop \in BOOLEAN /\ b.toKill \in BOOLEAN
         /\ b.published \in BOOLEAN /\ b.child \in {"none", "live", "dead"}
         /\ b.last \in Nat /\ b.total \in Nat /\ b.base \in Nat /\ b.heard \in Nat
         /\ b.buf \in Seq(Nat) /\ b.bytes \in Nat /\ b.seq \in Nat
         /\ b.pushed \in Seq(PushRec) /\ Numbered(b)
         /\ Len(b.buf) \in Nat /\ Len(b.buf) <= b.seq
BY DEF FollowerType, FollowerRec, Numbered

\* A buffer grows by no more lines than are pushed.
Grows(b, c) == b.seq <= c.seq /\ Len(c.buf) + b.seq <= Len(b.buf) + c.seq

\* Only the buffer has changed.
Pushed(b, c) ==
  /\ c \in FollowerType /\ Grows(b, c)
  /\ c = [b EXCEPT !.buf = c.buf, !.bytes = c.bytes, !.seq = c.seq]

\* _push changes the buffer only: the oldest lines leave it when it is full.
LEMMA PushPushes ==
  ASSUME NEW b \in FollowerType
  PROVE  Pushed(b, Push(b)) /\ Push(b).seq = b.seq + 1
<1> DEFINE long == Append(b.buf, b.seq + 1)
<1> DEFINE full == IF Len(long) > BufLines THEN Tail(long) ELSE long
<1> DEFINE bytes == b.bytes + 1
<1> DEFINE over == IF bytes > BufBytes THEN Min({bytes - BufBytes, Len(full) - 1}) ELSE 0
<1> DEFINE new == SubSeq(full, over + 1, Len(full))
<1>0. BufLines \in Nat \ {0} /\ BufBytes \in Nat \ {0}
  BY LogAssumption
<1>1. /\ b \in FollowerRec /\ b.buf \in Seq(Nat) /\ b.bytes \in Nat /\ b.seq \in Nat
      /\ Len(b.buf) \in Nat /\ Len(b.buf) <= b.seq
  BY FollowerFields
<1>2. long \in Seq(Nat) /\ Len(long) = Len(b.buf) + 1
  BY <1>1
<1> DEFINE seq == b.seq + 1
<1>20. \A i \in 1 .. Len(long) : long[i] = seq - Len(long) + i
  <2>1. \A i \in 1 .. Len(b.buf) : b.buf[i] = b.seq - Len(b.buf) + i
    BY FollowerFields DEF Numbered
  <2>2. (\A i \in 1 .. Len(b.buf) : long[i] = b.buf[i]) /\ long[Len(b.buf) + 1] = b.seq + 1
    BY <1>1
  <2> HIDE DEF long
  <2>3. ASSUME NEW i \in 1 .. Len(long) PROVE long[i] = seq - Len(long) + i
    <3> DEFINE n == Len(b.buf)
               q == b.seq
               l == Len(long)
    <3>1. n \in Int /\ q \in Int /\ l = n + 1 /\ i \in 1 .. l /\ seq = q + 1
      BY <1>1, <1>2
    <3>2. i \in 1 .. n => long[i] = q - n + i
      BY <2>1, <2>2, Zenon
    <3>3. i = n + 1 => long[i] = q + 1
      BY <2>2, Zenon
    <3> HIDE DEF n, q, l, seq
    <3>4. i \in 1 .. n \/ i = n + 1
      BY <3>1
    <3>5. long[i] = seq - l + i
      <4>1. CASE i \in 1 .. n
        <5>1. q - n + i = seq - l + i
          BY <3>1
        <5>2. QED BY <3>2, <4>1, <5>1, Zenon
      <4>2. CASE i = n + 1
        <5>1. q + 1 = seq - l + i
          BY <3>1, <4>2
        <5>2. QED BY <3>3, <4>2, <5>1, Zenon
      <4>3. QED BY <3>4, <4>1, <4>2, Zenon
    <3>6. QED BY <3>5 DEF l
  <2>4. QED BY <2>3
<1>21. seq \in Nat /\ seq = b.seq + 1
  BY <1>1
<1> HIDE DEF long, seq
<1>3. full \in Seq(Nat) /\ Len(full) \in Nat /\ Len(full) >= 1 /\ Len(full) <= Len(b.buf) + 1
  <2>1. CASE Len(long) > BufLines
    <3>1. Len(long) \in Nat /\ Len(long) > 1
      BY <1>0, <1>1, <1>2, <2>1
    <3>2. Tail(long) \in Seq(Nat) /\ Len(Tail(long)) = Len(long) - 1
      BY <1>2, <3>1
    <3>3. full = Tail(long)
      BY <2>1
    <3>4. full \in Seq(Nat) /\ Len(full) = Len(long) - 1
      BY <3>2, <3>3, Zenon
    <3> HIDE DEF full
    <3>5. Len(full) \in Nat /\ Len(full) >= 1 /\ Len(full) <= Len(b.buf) + 1
      BY <1>1, <1>2, <3>1, <3>4
    <3>6. QED BY <3>4, <3>5
  <2>2. CASE ~(Len(long) > BufLines)
    BY <1>1, <1>2, <2>2
  <2>3. QED BY <2>1, <2>2
<1>22. \A i \in 1 .. Len(full) : full[i] = seq - Len(full) + i
  <2>1. CASE Len(long) > BufLines
    <3>1. Len(long) \in Nat /\ Len(long) > 1
      BY <1>0, <1>1, <1>2, <2>1
    <3>2. full = Tail(long)
      BY <2>1
    <3>3. Len(full) = Len(long) - 1 /\ \A i \in 1 .. Len(long) - 1 : full[i] = long[i + 1]
      BY <1>2, <3>1, <3>2
    <3> HIDE DEF full
    <3>4. ASSUME NEW i \in 1 .. Len(full) PROVE full[i] = seq - Len(full) + i
      <4>1. i + 1 \in 1 .. Len(long) /\ full[i] = long[i + 1] /\ i \in Int
        BY <3>1, <3>3, <3>4
      <4>2. full[i] = seq - Len(long) + (i + 1)
        BY <1>20, <4>1
      <4> DEFINE l == Len(long)
                 m == Len(full)
      <4>3. l \in Int /\ m = l - 1 /\ seq \in Int
        BY <1>21, <3>1, <3>3
      <4> HIDE DEF l, m
      <4>4. seq - l + (i + 1) = seq - m + i
        BY <4>1, <4>3
      <4>5. QED BY <4>1, <4>2, <4>4, Zenon DEF l, m
    <3>5. QED BY <3>4
  <2>2. CASE ~(Len(long) > BufLines)
    BY <1>20, <2>2
  <2>3. QED BY <2>1, <2>2
<1> HIDE DEF full
<1>4. over \in Nat /\ over <= bytes /\ over <= Len(full) - 1
  <2>1. CASE bytes > BufBytes
    <3>1. bytes - BufBytes \in Int /\ Len(full) - 1 \in Int
      BY <1>0, <1>1, <1>3
    <3> DEFINE x == bytes - BufBytes
               y == Len(full) - 1
               m == Min({x, y})
    <3>2. over = m
      BY <2>1
    <3>3. x \in Nat /\ y \in Nat /\ x <= bytes
      BY <1>0, <1>1, <1>3, <2>1
    <3> HIDE DEF over, x, y
    <3>4. m \in {x, y} /\ m <= x /\ m <= y
      <4>1. x \in Int /\ y \in Int
        BY <3>3
      <4>2. QED BY <4>1, MinOfTwo
    <3> HIDE DEF m
    <3>5. m \in Nat /\ m <= bytes /\ m <= y
      BY <1>1, <3>3, <3>4
    <3>6. QED BY <3>2, <3>5 DEF y
  <2>2. CASE ~(bytes > BufBytes)
    BY <1>1, <1>3, <2>2
  <2>3. QED BY <2>1, <2>2
<1> HIDE DEF over
<1>5. new \in Seq(Nat) /\ Len(new) \in Nat /\ Len(new) <= Len(full)
  <2>1. \A i \in (over + 1) .. Len(full) : full[i] \in Nat
    BY <1>3, <1>4
  <2>2. QED BY <1>3, <1>4, <2>1
<1>23. Len(new) = Len(full) - over /\ \A i \in 1 .. Len(new) : new[i] = seq - Len(new) + i
  <2>1. Len(new) = Len(full) - over /\ \A i \in 1 .. Len(full) - over : new[i] = full[over + i]
    BY <1>3, <1>4
  <2> HIDE DEF new
  <2>2. ASSUME NEW i \in 1 .. Len(new) PROVE new[i] = seq - Len(new) + i
    <3>1. i \in 1 .. Len(full) - over /\ over + i \in 1 .. Len(full) /\ i \in Int
      BY <1>3, <1>4, <2>1, <2>2
    <3>2. new[i] = full[over + i]
      BY <2>1, <3>1
    <3>3. full[over + i] = seq - Len(full) + (over + i)
      BY <1>22, <3>1
    <3> DEFINE l == Len(full)
               m == Len(new)
    <3>4. l \in Int /\ m = l - over /\ seq \in Int /\ over \in Int
      BY <1>3, <1>4, <1>21, <2>1
    <3> HIDE DEF l, m
    <3>5. seq - l + (over + i) = seq - m + i
      BY <3>1, <3>4
    <3>6. QED BY <3>2, <3>3, <3>5, Zenon DEF l, m
  <2>3. QED BY <2>1, <2>2
<1> HIDE DEF new
<1>6. Push(b) = [b EXCEPT !.buf = new, !.bytes = bytes - over, !.seq = b.seq + 1]
  BY DEF Push, long, full, over, new
<1>7. bytes - over \in Nat /\ b.seq + 1 \in Nat
  BY <1>1, <1>4
<1>8. Push(b) \in FollowerRec
  BY <1>1, <1>5, <1>6, <1>7 DEF FollowerRec
<1>9. Push(b).buf = new /\ Push(b).bytes = bytes - over /\ Push(b).seq = b.seq + 1
  BY <1>1, <1>6 DEF FollowerRec
<1>10. Push(b) \in FollowerType
  <2>1. Len(new) <= seq
    <3>1. Len(new) <= Len(full) /\ Len(full) <= Len(b.buf) + 1 /\ Len(b.buf) <= b.seq
      BY <1>1, <1>3, <1>5
    <3>2. \A x, y, z, w \in Int : x <= y /\ y <= z + 1 /\ z <= w => x <= w + 1
      OBVIOUS
    <3>3. Len(new) \in Int /\ Len(full) \in Int /\ Len(b.buf) \in Int /\ b.seq \in Int
      BY <1>1, <1>3, <1>5
    <3>4. Len(new) <= b.seq + 1
      BY <3>1, <3>2, <3>3, Zenon
    <3>5. QED BY <1>21, <3>4
  <2>2. Push(b).buf = new /\ Push(b).seq = seq
    BY <1>9, <1>21
  <2>3. Numbered(Push(b))
    BY <1>23, <2>1, <2>2 DEF Numbered
  <2>4. QED BY <1>8, <2>3 DEF FollowerType
<1>11. Grows(b, Push(b))
  <2>1. Len(new) + b.seq <= Len(b.buf) + (b.seq + 1) /\ b.seq <= b.seq + 1
    BY <1>1, <1>3, <1>5
  <2>2. QED BY <1>9, <2>1 DEF Grows
<1>12. Push(b) = [b EXCEPT !.buf = Push(b).buf, !.bytes = Push(b).bytes, !.seq = Push(b).seq]
  BY <1>6, <1>9
<1>13. QED BY <1>9, <1>10, <1>11, <1>12 DEF Pushed

\* No line pushed is a way of pushing.
LEMMA PushedNone ==
  ASSUME NEW b \in FollowerType
  PROVE  Pushed(b, b)
<1>1. b \in FollowerRec /\ b.seq \in Nat /\ Len(b.buf) \in Nat
  BY FollowerFields
<1>2. b = [b EXCEPT !.buf = b.buf, !.bytes = b.bytes, !.seq = b.seq]
  BY <1>1 DEF FollowerRec
<1>3. QED BY <1>1, <1>2 DEF Pushed, Grows

\* Pushing and pushing again is pushing.
LEMMA PushedTwice ==
  ASSUME NEW b \in FollowerType, NEW c, NEW d, Pushed(b, c), Pushed(c, d)
  PROVE  Pushed(b, d)
<1>1. c \in FollowerType /\ d \in FollowerType
  BY DEF Pushed
<1>2. /\ b \in FollowerRec /\ b.seq \in Nat /\ Len(b.buf) \in Nat /\ c.seq \in Nat /\ Len(c.buf) \in Nat
      /\ d.seq \in Nat /\ Len(d.buf) \in Nat
  BY <1>1, FollowerFields
<1>3. Grows(b, d)
  <2>1. Grows(b, c) /\ Grows(c, d)
    BY DEF Pushed
  <2>2. /\ b.seq <= c.seq /\ Len(c.buf) + b.seq <= Len(b.buf) + c.seq
        /\ c.seq <= d.seq /\ Len(d.buf) + c.seq <= Len(c.buf) + d.seq
    BY <2>1, Zenon DEF Grows
  <2>3. \A p, q, r, x, y, z \in Nat :
          p <= q /\ y + p <= x + q /\ q <= r /\ z + q <= y + r => p <= r /\ z + p <= x + r
    OBVIOUS
  <2>4. b.seq <= d.seq /\ Len(d.buf) + b.seq <= Len(b.buf) + d.seq
    BY <1>2, <2>2, <2>3, Zenon
  <2>5. QED BY <2>4, Zenon DEF Grows
<1>4. /\ c = [b EXCEPT !.buf = c.buf, !.bytes = c.bytes, !.seq = c.seq]
      /\ d = [c EXCEPT !.buf = d.buf, !.bytes = d.bytes, !.seq = d.seq]
  BY DEF Pushed
<1>5. d = [b EXCEPT !.buf = d.buf, !.bytes = d.bytes, !.seq = d.seq]
  BY <1>2, <1>4 DEF FollowerRec
<1>6. QED BY <1>1, <1>3, <1>5 DEF Pushed

\* What the model computes step by step is what the recursion defines.
LEMMA PushManyPushes ==
  ASSUME NEW b \in FollowerType, NEW n \in Nat
  PROVE  Pushed(b, PushMany(b, n)) /\ PushMany(b, n).seq = b.seq + n
<1> DEFINE next == [i \in 1 .. n |-> [c \in FollowerType |-> Push(c)]]
<1> DEFINE f(g) == [k \in 0 .. n |-> IF k = 0 THEN b ELSE Push(g[k - 1])]
<1>1. \A c \in FollowerType : Push(c) \in FollowerType
  BY PushPushes DEF Pushed
<1>2. next \in Steps(n, FollowerType)
  BY <1>1 DEF Steps
<1>3. PICK g : Iterates(g, n, FollowerType, b, next)
  <2> HIDE DEF next
  <2>1. QED BY <1>2, Iteration
<1>4. g \in [0 .. n -> FollowerType] /\ g[0] = b /\ \A i \in 1 .. n : g[i] = next[i][g[i - 1]]
  BY <1>3 DEF Iterates
<1>5. \A i \in 1 .. n : g[i] = Push(g[i - 1])
  <2>1. \A i \in 1 .. n : i - 1 \in 0 .. n /\ g[i - 1] \in FollowerType
    BY <1>4
  <2>2. QED BY <1>4, <2>1
<1>6. g = f(g)
  <2>1. \A k \in 0 .. n : g[k] = IF k = 0 THEN b ELSE Push(g[k - 1])
    <3>1. \A k \in 0 .. n : k = 0 \/ (k # 0 /\ k \in 1 .. n)
      OBVIOUS
    <3>2. QED BY <1>4, <1>5, <3>1, Zenon
  <2>2. g = [k \in 0 .. n |-> g[k]]
    BY <1>4
  <2>3. QED BY <2>1, <2>2, Zenon
<1> DEFINE after == CHOOSE h : h = f(h)
<1>7. after = f(after)
  BY <1>6
<1>8. PushMany(b, n) = after[n]
  BY DEF PushMany
<1> HIDE DEF after
<1>9. \A k \in 0 .. n : after[k] = IF k = 0 THEN b ELSE Push(after[k - 1])
  BY <1>7, Zenon
<1> HIDE DEF f
<1> DEFINE S == {k \in Nat : k <= n => Pushed(b, after[k]) /\ after[k].seq = b.seq + k}
<1>10. 0 \in S
  <2>1. 0 \in 0 .. n /\ b.seq \in Nat
    BY FollowerFields
  <2>2. after[0] = b
    BY <1>9, <2>1
  <2>3. QED BY <2>1, <2>2, PushedNone
<1>11. ASSUME NEW k \in Nat, k \in S PROVE k + 1 \in S
  <2>1. SUFFICES ASSUME k + 1 <= n PROVE Pushed(b, after[k + 1]) /\ after[k + 1].seq = b.seq + (k + 1)
    OBVIOUS
  <2>2. k + 1 \in 0 .. n /\ k + 1 # 0 /\ (k + 1) - 1 = k /\ Pushed(b, after[k]) /\ after[k].seq = b.seq + k
    BY <1>11, <2>1
  <2>3. after[k + 1] = Push(after[k])
    BY <1>9, <2>2
  <2>4. after[k] \in FollowerType
    BY <2>2 DEF Pushed
  <2>5. Pushed(after[k], after[k + 1]) /\ after[k + 1].seq = after[k].seq + 1
    BY <2>3, <2>4, PushPushes
  <2>6. after[k + 1].seq = b.seq + (k + 1)
    <3>1. b.seq \in Nat
      BY FollowerFields
    <3>2. (b.seq + k) + 1 = b.seq + (k + 1)
      BY <3>1
    <3>3. QED BY <2>2, <2>5, <3>2
  <2>7. QED BY <2>2, <2>5, <2>6, PushedTwice
<1> HIDE DEF S
<1>12. n \in S
  BY <1>10, <1>11, SetInduction
<1>13. QED BY <1>8, <1>12 DEF S

\* What a reader finds after its cursor: the last pushes, in order.
LEMMA SinceLength ==
  ASSUME NEW b \in FollowerType, NEW n \in Nat, n <= b.seq
  PROVE  /\ Len(Since(b, n)) \in Nat
         /\ Len(Since(b, n)) <= b.seq - n /\ Len(Since(b, n)) <= Len(b.buf)
         /\ Len(b.buf) = b.seq => Len(Since(b, n)) = b.seq - n
         /\ Since(b, n) \in Seq(Nat)
         /\ \A i \in 1 .. Len(Since(b, n)) : Since(b, n)[i] = b.seq - Len(Since(b, n)) + i
<1> DEFINE low == Max({1, n - (b.seq - Len(b.buf) + 1) + 2})
<1>1. b.buf \in Seq(Nat) /\ b.seq \in Nat /\ Len(b.buf) \in Nat /\ Len(b.buf) <= b.seq
  BY FollowerFields
<1>2. n - (b.seq - Len(b.buf) + 1) + 2 \in Int /\ 1 \in Int
  BY <1>1
<1>3. /\ low \in {1, n - (b.seq - Len(b.buf) + 1) + 2}
      /\ low >= 1 /\ low >= n - (b.seq - Len(b.buf) + 1) + 2
  <2> HIDE <1>1
  <2>1. QED BY <1>2, MaxOfTwo
<1>4. Since(b, n) = SubSeq(b.buf, low, Len(b.buf))
  BY DEF Since
<1> HIDE DEF low
<1>5. low \in Int /\ low <= Len(b.buf) + 1
  BY <1>1, <1>3
<1>6. Len(Since(b, n)) = Len(b.buf) - low + 1
  <2>1. CASE low <= Len(b.buf)
    BY <1>1, <1>3, <1>4, <1>5, <2>1
  <2>2. CASE low = Len(b.buf) + 1
    BY <1>1, <1>3, <1>4, <1>5, <2>2
  <2>3. low <= Len(b.buf) \/ low = Len(b.buf) + 1
    BY <1>1, <1>5
  <2>4. QED BY <2>1, <2>2, <2>3, Zenon
<1>7. Len(Since(b, n)) \in Nat /\ Len(Since(b, n)) <= Len(b.buf)
  BY <1>1, <1>3, <1>5, <1>6
<1>8. Len(Since(b, n)) <= b.seq - n
  <2> DEFINE s == Len(Since(b, n))
             l == Len(b.buf)
             y == b.seq
  <2>1. s \in Int /\ l \in Int /\ y \in Int /\ low >= n - (y - l + 1) + 2
    BY <1>1, <1>3, <1>7
  <2>2. s = l - low + 1
    BY <1>6
  <2> HIDE DEF s, l, y
  <2>3. s <= y - n
    BY <1>5, <2>1, <2>2
  <2>4. QED BY <2>3 DEF s, y
<1>9. ASSUME Len(b.buf) = b.seq PROVE Len(Since(b, n)) = b.seq - n
  <2>1. \A x, y \in Nat, z \in Int :
          z \in {1, x - (y - y + 1) + 2} /\ z >= 1 /\ z >= x - (y - y + 1) + 2 => y - z + 1 = y - x
    OBVIOUS
  <2>2. low \in {1, n - (b.seq - b.seq + 1) + 2} /\ low >= 1 /\ low >= n - (b.seq - b.seq + 1) + 2
    BY <1>3, <1>9, Zenon
  <2>3. Len(Since(b, n)) = b.seq - low + 1
    BY <1>6, <1>9, Zenon
  <2>4. QED BY <1>1, <1>5, <2>1, <2>2, <2>3, Zenon
<1>10. Since(b, n) \in Seq(Nat)
  <2>1. \A i \in low .. Len(b.buf) : b.buf[i] \in Nat
    <3>1. \A i \in 1 .. Len(b.buf) : b.buf[i] \in Nat
      BY <1>1
    <3>2. low .. Len(b.buf) \subseteq 1 .. Len(b.buf)
      BY <1>1, <1>3, <1>5
    <3>3. QED BY <3>1, <3>2
  <2>2. QED BY <1>1, <1>4, <1>5, <2>1
<1>11. ASSUME NEW i \in 1 .. Len(Since(b, n))
       PROVE  Since(b, n)[i] = b.seq - Len(Since(b, n)) + i
  <2>1. i \in Int /\ i >= 1 /\ i <= Len(b.buf) - low + 1 /\ low <= Len(b.buf)
    BY <1>1, <1>5, <1>6, <1>11
  <2>2. Since(b, n)[i] = b.buf[low + i - 1]
    BY <1>1, <1>3, <1>4, <1>5, <2>1
  <2>3. low + i - 1 \in 1 .. Len(b.buf)
    BY <1>1, <1>3, <1>5, <2>1
  <2>4. Numbered(b)
    BY FollowerFields
  <2>5. b.buf[low + i - 1] = b.seq - Len(b.buf) + (low + i - 1)
    BY <2>3, <2>4, Zenon DEF Numbered
  <2> DEFINE l == Len(b.buf)
             q == b.seq
             m == Len(Since(b, n))
  <2>6. l \in Int /\ q \in Int /\ m = l - low + 1
    BY <1>1, <1>6
  <2> HIDE DEF l, q, m
  <2>7. q - l + (low + i - 1) = q - m + i
    BY <1>5, <2>1, <2>6
  <2>8. QED BY <2>2, <2>5, <2>7, Zenon DEF l, q, m
<1>12. QED BY <1>7, <1>8, <1>9, <1>10, <1>11
-----------------------------------------------------------------------------
(* The steps.                                                              *)

\* The fields of a stream.
LEMMA ReaderFields ==
  ASSUME NEW s \in ReaderType
  PROVE  /\ s.at \in {"new", "followed", "open", "done"} /\ s.fol \in Followers \cup {Nobody}
         /\ s.cursor \in Nat /\ s.from \in Nat /\ s.got \in Seq(Nat)
BY DEF ReaderType

\* What the invariant says about lines, streams and followers.
LEMMA LogImplies == LogInv => LogsFaithful
<1> SUFFICES ASSUME LogInv PROVE LogsFaithful
  OBVIOUS
<1>1. CountedLinesPushed
  BY DEF LogInv, CountedUpTo, LinesOf, CountedLinesPushed
<1>2. ASSUME NEW r \in Readers, rd[r].fol # Nobody
      PROVE  LET b == fol[rd[r].fol]
                 got == rd[r].got
                 Got(i) == b.pushed[got[i]]
             IN  /\ \A i \in 1 .. Len(got) : got[i] \in (rd[r].from + 1) .. rd[r].cursor
                 /\ \A i, j \in 1 .. Len(got) : i < j =>
                      /\ got[i] < got[j]
                      /\ Got(i).line = Got(j).line => Got(i).ahead /\ ~Got(j).ahead
                 /\ Len(b.buf) = b.seq => Len(got) = rd[r].cursor - rd[r].from
  <2> DEFINE b == fol[rd[r].fol]
             got == rd[r].got
  <2>1. rd[r] \in ReaderType /\ rd[r].fol \in Followers /\ ReadUpTo(rd[r], b)
    BY <1>2 DEF LogInv, LogTyped, StreamOK
  <2>2. b \in FollowerType /\ Len(b.pushed) = b.seq /\ TwiceAhead(b)
    BY <2>1 DEF LogInv, LogTyped, PushesOK
  <2>3. rd[r].from \in Nat /\ rd[r].cursor \in Nat /\ b.seq \in Nat /\ rd[r].cursor <= b.seq
    BY <2>1, <2>2, ReaderFields, FollowerFields DEF ReadUpTo
  <2>4. Ordered(got, rd[r].from, rd[r].cursor) /\ (Len(b.buf) = b.seq => Len(got) = rd[r].cursor - rd[r].from)
    BY <2>1 DEF ReadUpTo
  <2> HIDE DEF b, got
  <2>5. \A i \in 1 .. Len(got) : got[i] \in 1 .. Len(b.pushed)
    <3>1. \A i \in 1 .. Len(got) : got[i] \in (rd[r].from + 1) .. rd[r].cursor
      BY <2>4 DEF Ordered
    <3>2. (rd[r].from + 1) .. rd[r].cursor \subseteq 1 .. b.seq
      BY <2>3
    <3>3. QED BY <2>2, <3>1, <3>2
  <2>6. \A i, j \in 1 .. Len(got) : i < j =>
          /\ got[i] < got[j]
          /\ b.pushed[got[i]].line = b.pushed[got[j]].line => b.pushed[got[i]].ahead /\ ~b.pushed[got[j]].ahead
    BY <2>2, <2>4, <2>5, Zenon DEF Ordered, TwiceAhead
  <2>7. QED BY <2>4, <2>6, Zenon DEF Ordered, b, got
<1>3. StreamsInOrder
  BY <1>2, Zenon DEF StreamsInOrder
<1>4. QED BY <1>1, <1>3 DEF LogInv, LogHub, LogsFaithful

\* A stream is no worse off when more lines come.
LEMMA ReadOn ==
  ASSUME NEW s \in ReaderType, NEW b \in FollowerType, NEW c \in FollowerType, Grows(b, c), ReadUpTo(s, b)
  PROVE  ReadUpTo(s, c)
<1>1. /\ b.seq \in Nat /\ Len(b.buf) \in Nat /\ Len(b.buf) <= b.seq
      /\ c.seq \in Nat /\ Len(c.buf) \in Nat /\ Len(c.buf) <= c.seq
  BY FollowerFields
<1>2. s.cursor \in Nat
  BY ReaderFields
<1>3. /\ s.cursor <= b.seq /\ s.from <= s.cursor
      /\ Ordered(s.got, s.from, s.cursor)
      /\ Len(b.buf) = b.seq => Len(s.got) = s.cursor - s.from
      /\ b.seq <= c.seq /\ Len(c.buf) + b.seq <= Len(b.buf) + c.seq
  BY Zenon DEF ReadUpTo, Grows
<1>4. \A p, q, x, y, z \in Nat :
        /\ p <= q /\ z <= p => z <= q
        /\ p <= q /\ y + p <= x + q /\ x <= p /\ y = q => x = p
  OBVIOUS
<1>5. s.cursor <= c.seq /\ (Len(c.buf) = c.seq => Len(b.buf) = b.seq)
  BY <1>1, <1>2, <1>3, <1>4, Zenon
<1>6. QED BY <1>3, <1>5, Zenon DEF ReadUpTo

\* A step that leaves a stream alone.
LEMMA StreamStays ==
  ASSUME LogInv, NEW r \in Readers, rd'[r] = rd[r], fol' \in [Followers -> FollowerType],
         \A f \in Followers : Grows(fol[f], fol'[f])
  PROVE  StreamOK(r)'
<1>1. StreamOK(r) /\ rd[r] \in ReaderType /\ fol \in [Followers -> FollowerType]
  BY DEF LogInv, LogTyped
<1>3. ASSUME rd[r].at # "new" PROVE ReadUpTo(rd[r], fol'[rd[r].fol])
  <2> DEFINE f == rd[r].fol
  <2>1. f \in Followers /\ ReadUpTo(rd[r], fol[f])
    BY <1>1, <1>3 DEF StreamOK
  <2> HIDE DEF f
  <2>2. fol[f] \in FollowerType /\ fol'[f] \in FollowerType /\ Grows(fol[f], fol'[f])
    BY <1>1, <2>1
  <2>3. ReadUpTo(rd[r], fol'[f])
    BY <1>1, <2>1, <2>2, ReadOn
  <2>4. QED BY <2>3 DEF f
<1>4. QED BY <1>1, <1>3, Zenon DEF StreamOK, ReadUpTo

\* A step that leaves the streams alone.
LEMMA StreamsStay ==
  ASSUME LogInv, UNCHANGED rd, fol' \in [Followers -> FollowerType],
         \A f \in Followers : Grows(fol[f], fol'[f])
  PROVE  \A r \in Readers : StreamOK(r)'
BY StreamStays

\* A step that leaves the hub and the streams alone.
LEMMA LogHubStays ==
  ASSUME LogHub, UNCHANGED <<rd, hubVars>>
  PROVE  LogHub'
BY DEF LogHub, HubExact, hubVars

\* A follower whose buffer stays.
LEMMA SameBuffer ==
  ASSUME NEW b \in FollowerType, NEW c, c.buf = b.buf, c.seq = b.seq
  PROVE  Grows(b, c) /\ Numbered(c)
<1>1. b.seq \in Nat /\ Len(b.buf) \in Nat /\ Numbered(b)
  BY FollowerFields
<1>2. QED BY <1>1 DEF Grows, Numbered

\* A step of a thread.
LEMMA LogThread ==
  ASSUME LogInv, NEW f \in Followers, NEW b \in FollowerType, Thread(f, b), Grows(fol[f], b),
         missed' \in [Followers -> SUBSET Int],
         \A g \in Followers : g # f => missed'[g] = missed[g],
         CountedUpTo(b, missed'[f]), PushesOK(b),
         fol[f].at \notin {"new", "ended"} \/ b.at = "ended" \/ b.at = fol[f].at,
         fol[f].stop => b.stop
  PROVE  LogInv'
<1>1. LogTyped /\ LogHub /\ NoFollowerForgotten
  BY DEF LogInv
<1>2. fol' = [fol EXCEPT ![f] = b] /\ UNCHANGED <<written, rotated, current, logClosed, rd, hubVars>>
  BY DEF Thread
<1>3. fol' \in [Followers -> FollowerType] /\ fol'[f] = b /\ \A g \in Followers : g # f => fol'[g] = fol[g]
  BY <1>1, <1>2 DEF LogTyped
<1>4. LogTyped'
  BY <1>1, <1>2, <1>3 DEF LogTyped
<1>5. \A g \in Followers : CountedUpTo(fol[g], missed[g])' /\ PushesOK(fol[g])'
  <2> TAKE g \in Followers
  <2>1. CASE g = f
    <3>1. CountedUpTo(fol[f], missed[f])'
      BY <1>2, <1>3 DEF CountedUpTo, LinesOf
    <3>2. PushesOK(fol[f])'
      BY <1>2, <1>3 DEF PushesOK, TwiceAhead, PollOK, UpTo, CountedOnly
    <3>3. QED BY <2>1, <3>1, <3>2
  <2>2. CASE g # f
    <3>1. CountedUpTo(fol[g], missed[g]) /\ PushesOK(fol[g])
      BY DEF LogInv
    <3>2. fol'[g] = fol[g] /\ missed'[g] = missed[g]
      BY <1>3, <2>2
    <3>3. CountedUpTo(fol[g], missed[g])'
      BY <1>2, <3>1, <3>2 DEF CountedUpTo, LinesOf
    <3>4. PushesOK(fol[g])'
      BY <1>2, <3>1, <3>2 DEF PushesOK, TwiceAhead, PollOK, UpTo, CountedOnly
    <3>5. QED BY <3>3, <3>4
  <2>3. QED BY <2>1, <2>2
<1>6. \A g \in Followers : Grows(fol[g], fol'[g])
  <2> TAKE g \in Followers
  <2>1. CASE g # f
    BY <1>1, <1>3, <2>1, SameBuffer DEF LogTyped
  <2>2. QED BY <1>3, <2>1
<1>7. \A r \in Readers : StreamOK(r)'
  BY <1>2, <1>3, <1>6, StreamsStay
<1>8. NoFollowerForgotten'
  <2>1. \A g \in Followers : fol'[g].at \notin {"new", "ended"} => (current = g \/ fol'[g].stop)
    <3> TAKE g \in Followers
    <3>1. fol[g].at \notin {"new", "ended"} => (current = g \/ fol[g].stop)
      BY <1>1 DEF NoFollowerForgotten
    <3>2. CASE g = f
      BY <1>3, <3>1, <3>2
    <3>3. CASE g # f
      BY <1>3, <3>1, <3>3
    <3>4. QED BY <3>2, <3>3
  <2>2. QED BY <1>1, <1>2, <2>1 DEF NoFollowerForgotten
<1>9. LogHub'
  BY <1>1, <1>2, LogHubStays
<1>10. QED BY <1>4, <1>5, <1>7, <1>8, <1>9 DEF LogInv
\* The lines with these numbers are numbers.
LEMMA LinesCount ==
  ASSUME LogTyped, NEW i \in Int, NEW j \in Int
  PROVE  Lines(i, j) \subseteq Int
BY DEF Lines, LogTyped

\* The lines that tail prints, one push each, in order.
LEMMA TailedFacts ==
  ASSUME LogTyped, NEW b \in FollowerType, NEW i \in Nat \ {0}, NEW j \in Int
  PROVE  /\ Tailed(b, i, j) \in Seq(PushRec)
         /\ \A k \in 1 .. Len(Tailed(b, i, j)) :
              Tailed(b, i, j)[k] = PushOf(b, rotated + i + k - 1) /\ rotated + i + k - 1 \in Lines(i, j)
         /\ \A x \in Lines(i, j) : \E k \in 1 .. Len(Tailed(b, i, j)) : x = rotated + i + k - 1
<1> DEFINE n == Max({0, j - i + 1})
<1> DEFINE t == [k \in 1 .. n |-> PushOf(b, rotated + i + k - 1)]
<1>1. rotated \in Nat /\ b.base \in Nat /\ b.total \in Nat
  BY FollowerFields DEF LogTyped
<1>2. n \in {0, j - i + 1} /\ n >= 0 /\ n >= j - i + 1
  <2>1. 0 \in Int /\ j - i + 1 \in Int
    OBVIOUS
  <2>2. QED BY <2>1, MaxOfTwo
<1> HIDE DEF n
<1>3. n \in Nat /\ (n = 0 \/ n = j - i + 1)
  BY <1>2
<1>4. \A k \in 1 .. n : PushOf(b, rotated + i + k - 1) \in PushRec
  BY <1>1, <1>3 DEF PushOf, PushRec
<1>5. t \in Seq(PushRec) /\ Len(t) = n /\ \A k \in 1 .. n : t[k] = PushOf(b, rotated + i + k - 1)
  <2> HIDE DEF PushOf
  <2>1. t \in [1 .. n -> PushRec]
    BY <1>4
  <2>2. QED BY <1>3, <2>1
<1>6. Tailed(b, i, j) = t
  BY DEF Tailed, n, t
<1> HIDE DEF t
<1>7. \A k \in 1 .. n : rotated + i + k - 1 \in Lines(i, j)
  <2>1. ASSUME NEW k \in 1 .. n PROVE rotated + i + k - 1 \in (rotated + i) .. (rotated + j)
    BY <1>1, <1>3, <2>1
  <2>2. QED BY <2>1 DEF Lines
<1>8. \A x \in Lines(i, j) : \E k \in 1 .. n : x = rotated + i + k - 1
  <2>1. ASSUME NEW x \in Lines(i, j) PROVE \E k \in 1 .. n : x = rotated + i + k - 1
    <3>1. x \in Int /\ x >= rotated + i /\ x <= rotated + j
      BY <1>1, <2>1 DEF Lines
    <3> DEFINE k == x - rotated - i + 1
    <3>2. k \in 1 .. n /\ x = rotated + i + k - 1
      BY <1>1, <1>2, <1>3, <3>1
    <3>3. QED BY <3>2
  <2>2. QED BY <2>1
<1>9. QED BY <1>5, <1>6, <1>7, <1>8, Zenon

\* A follower that has not been started.
LEMMA NewFollowerTyped ==
  /\ NewFollower \in FollowerRec /\ NewFollower \in FollowerType
  /\ NewFollower.at = "new" /\ NewFollower.base = 0 /\ NewFollower.last = 0
  /\ NewFollower.pushed = <<>> /\ NewFollower.seq = 0
<1>1. <<>> \in Seq(Nat) /\ <<>> \in Seq(PushRec) /\ Len(<<>>) = 0
  OBVIOUS
<1>2. NewFollower \in FollowerRec
  BY <1>1 DEF NewFollower, FollowerRec, ThreadPlaces
<1>3. /\ NewFollower.at = "new" /\ NewFollower.base = 0 /\ NewFollower.last = 0
      /\ NewFollower.buf = <<>> /\ NewFollower.seq = 0 /\ NewFollower.pushed = <<>>
  BY DEF NewFollower
<1>4. QED BY <1>1, <1>2, <1>3 DEF FollowerType, Numbered

\* A follower thread ends: its buffer stays.
LEMMA LogEnds ==
  ASSUME LogInv, NEW f \in Followers, Ends(f)
  PROVE  LogInv'
<1> DEFINE b == [NewFollower EXCEPT !.at = "ended", !.stop = TRUE, !.toKill = fol[f].toKill,
                     !.buf = fol[f].buf, !.bytes = fol[f].bytes, !.seq = fol[f].seq,
                     !.pushed = fol[f].pushed]
<1>1. LogTyped /\ fol[f] \in FollowerType /\ missed \in [Followers -> SUBSET Int]
  BY DEF LogInv, LogTyped
<1>2. /\ fol[f].toKill \in BOOLEAN /\ fol[f].buf \in Seq(Nat) /\ fol[f].bytes \in Nat /\ fol[f].seq \in Nat
      /\ fol[f].pushed \in Seq(PushRec)
  BY <1>1, FollowerFields
<1>3. NewFollower \in FollowerRec /\ NewFollower.base = 0
  BY NewFollowerTyped
<1>4. b \in FollowerRec
  BY <1>2, <1>3 DEF FollowerRec, ThreadPlaces
<1>5. b.buf = fol[f].buf /\ b.seq = fol[f].seq /\ b.at = "ended" /\ b.stop /\ b.base = 0
      /\ b.pushed = fol[f].pushed
  BY <1>3 DEF FollowerRec
<1>6. /\ Thread(f, b) /\ missed' = [missed EXCEPT ![f] = {}]
  BY DEF Ends
<1> HIDE DEF b
<1>7. b \in FollowerType /\ Grows(fol[f], b)
  BY <1>1, <1>4, <1>5, SameBuffer DEF FollowerType
<1>8. CountedUpTo(b, missed'[f]) /\ PushesOK(b)
  <2>1. PushesOK(fol[f])
    BY DEF LogInv
  <2>2. QED BY <1>5, <2>1 DEF CountedUpTo, PushesOK, TwiceAhead, PollOK
<1>9. missed' \in [Followers -> SUBSET Int] /\ \A g \in Followers : g # f => missed'[g] = missed[g]
  BY <1>1, <1>6
<1>10. QED BY <1>5, <1>6, <1>7, <1>8, <1>9, LogThread

\* The follower counts the lines of the file.
LEMMA LogPollCount ==
  ASSUME LogInv, NEW f \in Followers, PollCount(f)
  PROVE  LogInv'
<1> DEFINE b == fol[f]
<1> DEFINE total == written - rotated
<1> DEFINE last == IF total < b.last THEN 0 ELSE b.last
<1> DEFINE hidden == IF rotated = b.base THEN {} ELSE Lines(1, last)
<1> DEFINE place == IF total > last THEN "tail" ELSE "count"
<1> DEFINE c == [b EXCEPT !.last = last, !.total = total, !.base = rotated, !.at = place]
<1>1. /\ LogTyped /\ b \in FollowerType /\ missed \in [Followers -> SUBSET Int]
      /\ written \in Nat /\ rotated \in Nat /\ rotated <= written /\ CountedUpTo(b, missed[f]) /\ PushesOK(b)
  BY DEF LogInv, LogTyped
<1>2. b \in FollowerRec /\ b.last \in Nat /\ b.base \in Nat /\ b.buf \in Seq(Nat) /\ b.seq \in Nat
      /\ b.pushed \in Seq(PushRec)
  BY <1>1, FollowerFields
<1>3. /\ b.at = "count" /\ Thread(f, c) /\ missed' = [missed EXCEPT ![f] = missed[f] \cup hidden]
  BY DEF PollCount
<1>4. total \in Nat /\ last \in Nat /\ last <= b.last /\ last <= total /\ rotated + total = written
  BY <1>1, <1>2
<1> HIDE DEF total, last
<1>5. hidden \subseteq Int
  BY <1>1, <1>4, LinesCount
<1>6. (rotated + 1) .. (rotated + last) \subseteq missed[f] \cup hidden \cup LinesOf(b)
  <2>1. CASE rotated = b.base
    <3>1. (b.base + 1) .. (b.base + b.last) \subseteq missed[f] \cup LinesOf(b)
      BY <1>1, <1>3 DEF CountedUpTo
    <3>2. (rotated + 1) .. (rotated + last) \subseteq (b.base + 1) .. (b.base + b.last)
      BY <1>2, <1>4, <2>1
    <3>3. QED BY <3>1, <3>2
  <2>2. CASE rotated # b.base
    BY <2>2 DEF Lines
  <2>3. QED BY <2>1, <2>2
<1>7. missed'[f] = missed[f] \cup hidden
  BY <1>1, <1>3
<1>8. missed' \in [Followers -> SUBSET Int] /\ \A g \in Followers : g # f => missed'[g] = missed[g]
  BY <1>1, <1>3, <1>5
<1> HIDE DEF hidden
<1>9. /\ c.buf = b.buf /\ c.seq = b.seq /\ c.at = place /\ c.stop = b.stop
      /\ c.base = rotated /\ c.last = last /\ c.total = total /\ c \in FollowerRec
      /\ c.pushed = b.pushed /\ c.heard = b.heard
  <2>1. place \in ThreadPlaces
    BY DEF ThreadPlaces
  <2>2. QED BY <1>1, <1>2, <1>4, <2>1 DEF FollowerRec
<1> HIDE DEF b, c
<1>10. c \in FollowerType /\ Grows(b, c)
  BY <1>1, <1>9, SameBuffer DEF FollowerType
<1>11. CountedUpTo(c, missed'[f])
  <2> LinesOf(c) = LinesOf(b)
    BY <1>9 DEF LinesOf
  <2>1. CASE total > last
    BY <1>1, <1>4, <1>6, <1>7, <1>9, <2>1 DEF CountedUpTo
  <2>2. CASE ~(total > last)
    BY <1>1, <1>4, <1>6, <1>7, <1>9, <2>2 DEF CountedUpTo
  <2>3. QED BY <2>1, <2>2
<1>12. PushesOK(c)
  <2>1. /\ CountedOnly(b, b.base + b.last) /\ UpTo(b, written) /\ b.base + b.last <= written
        /\ (rotated # b.base => b.base + b.last <= rotated) /\ Len(b.pushed) = b.seq /\ TwiceAhead(b)
    BY <1>1, <1>3 DEF PushesOK, PollOK
  <2>2. c.at \in {"count", "tail"} /\ c.base + c.last <= written /\ rotated = c.base
        /\ (c.at = "tail" => c.base + c.total = written) /\ b.base + b.last <= c.base + c.last
    <3>1. c.at \in {"count", "tail"} /\ rotated = c.base /\ c.base + c.last <= written /\ c.base + c.total = written
      BY <1>1, <1>4, <1>9
    <3>2. b.base + b.last <= c.base + c.last
      <4>1. CASE rotated = b.base
        <5>1. ~(total < b.last)
          BY <1>1, <1>2, <1>4, <2>1, <4>1
        <5>2. last = b.last
          BY <5>1 DEF last
        <5>3. QED BY <1>2, <1>9, <4>1, <5>2
      <4>2. CASE rotated # b.base
        BY <1>1, <1>2, <1>4, <1>9, <2>1, <4>2
      <4>3. QED BY <4>1, <4>2
    <3>3. QED BY <3>1, <3>2
  <2>3. CountedOnly(c, c.base + c.last)
    <3>1. \A i \in 1 .. Len(b.pushed) : b.pushed[i] \in PushRec
      BY <1>2
    <3>2. b.base + b.last \in Int /\ c.base + c.last \in Int
      BY <1>1, <1>2, <1>4, <1>9
    <3>3. \A x, y, z \in Int : x <= y /\ y <= z => x <= z
      OBVIOUS
    <3>4. QED BY <1>9, <2>1, <2>2, <3>1, <3>2, <3>3 DEF CountedOnly, PushRec
  <2>4. UpTo(c, written)
    BY <1>9, <2>1 DEF UpTo
  <2>5. TwiceAhead(c) /\ Len(c.pushed) = c.seq
    BY <1>9, <2>1 DEF TwiceAhead
  <2>6. PollOK(c)
    BY <2>2, <2>3, <2>4 DEF PollOK
  <2>7. QED BY <2>2, <2>5, <2>6 DEF PushesOK
<1>13. QED BY <1>3, <1>8, <1>9, <1>10, <1>11, <1>12, LogThread DEF b

\* The follower pushes the lines it has counted but not seen: those it skips
\* it accounts for, and those added since it counted it sees again.
LEMMA LogPollTail ==
  ASSUME LogInv, NEW f \in Followers, PollTail(f)
  PROVE  LogInv'
<1> DEFINE b == fol[f]
<1> DEFINE first == Max({b.last + 1, b.total - MaxNew + 1})
<1> DEFINE lines == Lines(first, written - rotated)
<1> DEFINE skipped == (b.base + b.last + 1) .. (b.base + first - 1)
<1> DEFINE counted == (b.base + b.last + 1) .. (b.base + b.total)
<1> DEFINE failed == IF rotated = b.base THEN {} ELSE counted
<1> DEFINE new == Tailed(b, first, written - rotated)
<1> DEFINE q == PushMany(b, Len(new))
<1> DEFINE p == PushAll(b, new)
<1>1. /\ LogTyped /\ b \in FollowerType /\ missed \in [Followers -> SUBSET Int]
      /\ written \in Nat /\ rotated \in Nat /\ rotated <= written /\ CountedUpTo(b, missed[f])
      /\ PushesOK(b)
  BY DEF LogInv, LogTyped
<1>2. /\ b \in FollowerRec /\ b.last \in Nat /\ b.total \in Nat /\ b.base \in Nat
      /\ b.buf \in Seq(Nat) /\ b.seq \in Nat /\ b.pushed \in Seq(PushRec)
  BY <1>1, FollowerFields
<1>3. b.at = "tail"
  BY DEF PollTail
<1>4. /\ (b.base + 1) .. (b.base + b.last) \subseteq missed[f] \cup LinesOf(b) /\ b.last < b.total
      /\ b.base \in {0, rotated} /\ (rotated = b.base => b.base + b.total <= written)
  BY <1>1, <1>3 DEF CountedUpTo
<1>5. first \in Int /\ first >= b.last + 1 /\ first <= b.total
  <2>1. b.last + 1 \in Int /\ b.total - MaxNew + 1 \in Int /\ MaxNew \in Nat /\ MaxNew >= 1
    <3>1. MaxNew \in Nat /\ MaxNew >= 1
      BY LogAssumption
    <3>2. QED BY <1>2, <3>1
  <2>2. /\ first \in {b.last + 1, b.total - MaxNew + 1} /\ first >= b.last + 1
    BY <2>1, MaxOfTwo
  <2> HIDE DEF first
  <2>3. QED BY <1>2, <1>4, <2>1, <2>2
<1> HIDE DEF first
<1>6. written - rotated \in Int
  BY <1>1
<1>7. lines \subseteq Int
  BY <1>1, <1>5, <1>6, LinesCount
<1>8. counted \subseteq Int /\ skipped \subseteq Int /\ failed \subseteq Int
  BY <1>2, <1>5
<1>9. (b.base + 1) .. (b.base + b.total) \subseteq missed[f] \cup LinesOf(b) \cup lines \cup skipped \cup failed
  <2>1. CASE rotated = b.base
    <3>1. SUFFICES ASSUME NEW x \in (b.base + 1) .. (b.base + b.total), x \notin (b.base + 1) .. (b.base + b.last),
                          x \notin skipped
                   PROVE  x \in lines
      BY <1>4
    <3>2. x \in Int /\ x >= b.base + first /\ x <= b.base + b.total
      <4>1. x \in Int /\ x >= b.base + 1 /\ x <= b.base + b.total /\ ~(x <= b.base + b.last)
        BY <1>2, <3>1
      <4>2. ~(x <= b.base + first - 1)
        BY <1>2, <1>5, <3>1, <4>1
      <4>3. b.base \in Int /\ first \in Int
        BY <1>2, <1>5
      <4> DEFINE y == b.base
      <4>4. y \in Int /\ ~(x <= y + first - 1) /\ x <= y + b.total /\ x \in Int
        BY <4>1, <4>2, <4>3
      <4> HIDE DEF y
      <4>5. x >= y + first
        BY <4>3, <4>4
      <4>6. QED BY <4>4, <4>5 DEF y
    <3>3. rotated + (written - rotated) = written
      BY <1>1
    <3>4. x <= b.base + b.total /\ b.base + b.total <= written
      BY <1>4, <2>1, <3>2
    <3>5. x >= rotated + first /\ x <= written
      BY <1>1, <1>2, <2>1, <3>2, <3>4
    <3>6. x \in (rotated + first) .. written
      BY <1>1, <1>5, <3>2, <3>5
    <3>7. QED BY <3>3, <3>6 DEF Lines
  <2>2. CASE rotated # b.base
    <3>1. (b.base + 1) .. (b.base + b.total) \subseteq (b.base + 1) .. (b.base + b.last) \cup counted
      BY <1>2
    <3>2. QED BY <1>4, <2>2, <3>1
  <2>3. QED BY <2>1, <2>2
<1>10. (b.base + 1) .. (b.base + b.total) \subseteq missed[f] \cup LinesOf(b) \cup counted
  <2>1. (b.base + 1) .. (b.base + b.total) \subseteq (b.base + 1) .. (b.base + b.last) \cup counted
    BY <1>2
  <2>2. QED BY <1>4, <2>1
<1>11. /\ Pushed(b, q) /\ q.seq = b.seq + Len(new) /\ new \in Seq(PushRec) /\ Len(new) \in Nat
       /\ \A m \in 1 .. Len(new) : new[m] = PushOf(b, rotated + first + m - 1) /\ rotated + first + m - 1 \in lines
       /\ \A x \in lines : \E m \in 1 .. Len(new) : x = rotated + first + m - 1
  <2>1. first \in Nat \ {0}
    BY <1>2, <1>5
  <2> HIDE DEF b
  <2>2. /\ new \in Seq(PushRec)
        /\ \A m \in 1 .. Len(new) : new[m] = PushOf(b, rotated + first + m - 1) /\ rotated + first + m - 1 \in lines
        /\ \A x \in lines : \E m \in 1 .. Len(new) : x = rotated + first + m - 1
    BY <1>1, <1>6, <2>1, TailedFacts
  <2> HIDE DEF new
  <2>3. Len(new) \in Nat
    BY <2>2
  <2>4. Pushed(b, q) /\ q.seq = b.seq + Len(new)
    BY <1>1, <2>3, PushManyPushes
  <2>5. QED BY <2>2, <2>3, <2>4
<1>20. \A x \in lines : x \in Int /\ x <= written
  <2>1. rotated + (written - rotated) = written
    BY <1>1
  <2>2. QED BY <1>1, <1>5, <2>1 DEF Lines
<1>21. p = [q EXCEPT !.pushed = q.pushed \o new]
  BY DEF PushAll
<1> HIDE DEF lines, skipped, failed, counted, new, q, p
<1>22. /\ CountedOnly(b, b.base + b.last) /\ UpTo(b, b.base + b.total) /\ Len(b.pushed) = b.seq /\ TwiceAhead(b)
       /\ rotated # b.base => b.base + b.total <= rotated
  BY <1>1, <1>3 DEF PushesOK, PollOK
<1>23. \A m \in 1 .. Len(b.pushed) : b.pushed[m].line \in Nat
  <2>1. \A m \in 1 .. Len(b.pushed) : b.pushed[m] \in PushRec
    BY <1>2
  <2>2. QED BY <2>1 DEF PushRec
<1>24. b.base + b.total <= written /\ b.base + b.last <= b.base + b.total /\ UpTo(b, written)
  <2>1. b.base + b.total <= written /\ b.base + b.last <= b.base + b.total
    BY <1>1, <1>2, <1>4, <1>22
  <2>2. \A x, y, z \in Int : x <= y /\ y <= z => x <= z
    OBVIOUS
  <2>3. b.base + b.total \in Int /\ written \in Int
    BY <1>1, <1>2
  <2>4. QED BY <1>22, <1>23, <2>1, <2>2, <2>3 DEF UpTo
<1>25. ASSUME NEW c, c.at = "count", c.base = b.base, c.pushed = b.pushed, c.seq = b.seq, c.last \in {b.last, b.total}
       PROVE  PushesOK(c) /\ LinesOf(c) = LinesOf(b)
  <2>1. c.base + c.last <= written /\ (rotated # c.base => c.base + c.last <= rotated)
    <3>1. \A x, y, z \in Int : x <= y /\ y <= z => x <= z
      OBVIOUS
    <3>2. /\ b.base + b.last \in Int /\ b.base + b.total \in Int /\ written \in Int /\ rotated \in Int
          /\ c.base + c.last \in {b.base + b.last, b.base + b.total} /\ c.base = b.base
      BY <1>1, <1>2, <1>25
    <3>3. c.base + c.last <= b.base + b.total
      BY <1>24, <3>2
    <3>4. QED BY <1>22, <1>24, <3>1, <3>2, <3>3, Zenon
  <2>2. CountedOnly(c, c.base + c.last)
    <3>1. CASE c.last = b.last
      BY <1>22, <1>25, <3>1 DEF CountedOnly
    <3>2. CASE c.last = b.total
      BY <1>22, <1>25, <3>2 DEF CountedOnly, UpTo
    <3>3. QED BY <1>25, <3>1, <3>2
  <2>3. UpTo(c, written) /\ TwiceAhead(c) /\ Len(c.pushed) = c.seq
    BY <1>22, <1>24, <1>25 DEF UpTo, TwiceAhead
  <2>4. LinesOf(c) = LinesOf(b)
    BY <1>25 DEF LinesOf
  <2>5. QED BY <1>25, <2>1, <2>2, <2>3, <2>4 DEF PushesOK, PollOK
<1>12. ASSUME Thread(f, [p EXCEPT !.last = b.total, !.at = "count"]),
              missed' = [missed EXCEPT ![f] = missed[f] \cup skipped \cup failed]
       PROVE  LogInv'
  <2> DEFINE c == [p EXCEPT !.last = b.total, !.at = "count"]
  <2>1. /\ q \in FollowerType /\ Grows(b, q)
        /\ q = [b EXCEPT !.buf = q.buf, !.bytes = q.bytes, !.seq = q.seq]
    BY <1>11 DEF Pushed
  <2>2. q \in FollowerRec /\ q.buf \in Seq(Nat) /\ q.seq \in Nat /\ Numbered(q)
    BY <2>1, FollowerFields
  <2>3. q.base = b.base /\ q.stop = b.stop /\ q.pushed = b.pushed
    BY <1>2, <2>1 DEF FollowerRec
  <2>30. b.pushed \o new \in Seq(PushRec)
    BY <1>2, <1>11
  <2>31. /\ p \in FollowerRec /\ p.buf = q.buf /\ p.seq = q.seq /\ p.base = b.base /\ p.stop = b.stop
         /\ p.pushed = b.pushed \o new
    BY <1>21, <2>2, <2>3, <2>30 DEF FollowerRec
  <2>4. /\ c \in FollowerRec /\ c.buf = q.buf /\ c.seq = q.seq /\ c.at = "count" /\ c.last = b.total
        /\ c.base = b.base /\ c.stop = b.stop /\ c.pushed = b.pushed \o new
    BY <1>2, <2>31 DEF FollowerRec, ThreadPlaces
  <2>5. missed'[f] = missed[f] \cup skipped \cup failed
    BY <1>1, <1>12
  <2>6. missed' \in [Followers -> SUBSET Int] /\ \A g \in Followers : g # f => missed'[g] = missed[g]
    <3>1. missed[f] \cup skipped \cup failed \in SUBSET Int
      BY <1>1, <1>8
    <3>2. QED BY <1>1, <1>12, <3>1
  <2> HIDE DEF b, c
  <2>7. c \in FollowerType
    BY <2>2, <2>4 DEF FollowerType, Numbered
  <2>8. Grows(b, c)
    BY <2>1, <2>4 DEF Grows
  <2> DEFINE L == Len(b.pushed)
             N == Len(new)
  <2>9. /\ L \in Nat /\ N \in Nat /\ Len(c.pushed) = L + N
        /\ \A m \in 1 .. L : c.pushed[m] = b.pushed[m]
        /\ \A m \in 1 .. N : c.pushed[L + m] = new[m]
    BY <1>2, <1>11, <2>4
  <2>10. \A m \in 1 .. L + N : m \in 1 .. L \/ \E o \in 1 .. N : m = L + o
    <3>1. ASSUME NEW m \in 1 .. L + N, m \notin 1 .. L PROVE m - L \in 1 .. N /\ m = L + (m - L)
      BY <2>9, <3>1
    <3>2. QED BY <3>1
  <2>11. \A m \in 1 .. N : /\ new[m].line = rotated + first + m - 1
                             /\ new[m].ahead = (rotated # b.base \/ rotated + first + m - 1 > b.base + b.total)
                             /\ rotated + first + m - 1 \in lines
    <3>1. ASSUME NEW m \in 1 .. N
          PROVE  /\ new[m].line = rotated + first + m - 1
                 /\ new[m].ahead = (rotated # b.base \/ rotated + first + m - 1 > b.base + b.total)
                 /\ rotated + first + m - 1 \in lines
      <4>1. new[m] = PushOf(b, rotated + first + m - 1) /\ rotated + first + m - 1 \in lines
        BY <1>11
      <4>2. QED BY <4>1 DEF PushOf
    <3>2. QED BY <3>1
  <2>12. LinesOf(b) \cup lines \subseteq LinesOf(c)
    <3>1. ASSUME NEW x \in LinesOf(b) PROVE x \in LinesOf(c)
      <4>1. PICK m \in 1 .. L : x = b.pushed[m].line
        BY <3>1 DEF LinesOf
      <4>2. m \in 1 .. Len(c.pushed) /\ x = c.pushed[m].line
        BY <2>9, <4>1
      <4>3. QED BY <4>2 DEF LinesOf
    <3>2. ASSUME NEW x \in lines PROVE x \in LinesOf(c)
      <4>1. PICK m \in 1 .. N : x = rotated + first + m - 1
        BY <1>11, <3>2
      <4>2. L + m \in 1 .. Len(c.pushed) /\ c.pushed[L + m] = new[m]
        BY <2>9, <4>1
      <4>3. x = c.pushed[L + m].line
        BY <2>11, <4>1, <4>2
      <4>4. QED BY <4>2, <4>3 DEF LinesOf
    <3>3. QED BY <3>1, <3>2
  <2>13. CountedUpTo(c, missed'[f])
    BY <1>4, <1>9, <2>4, <2>5, <2>12 DEF CountedUpTo
  <2>14. CountedOnly(c, b.base + b.total)
    <3>1. ASSUME NEW m \in 1 .. L PROVE c.pushed[m].line <= b.base + b.total
      BY <1>22, <2>9, <3>1 DEF UpTo
    <3>2. ASSUME NEW m \in 1 .. N PROVE c.pushed[L + m].ahead \/ c.pushed[L + m].line <= b.base + b.total
      <4>1. rotated + first + m - 1 > b.base + b.total \/ rotated + first + m - 1 <= b.base + b.total
        BY <1>1, <1>2, <1>5, <3>2
      <4>2. QED BY <2>9, <2>11, <4>1
    <3>3. QED BY <2>9, <2>10, <3>1, <3>2, Zenon DEF CountedOnly
  <2>15. UpTo(c, written)
    <3>1. ASSUME NEW m \in 1 .. L PROVE c.pushed[m].line <= written
      BY <1>24, <2>9, <3>1 DEF UpTo
    <3>2. ASSUME NEW m \in 1 .. N PROVE c.pushed[L + m].line <= written
      BY <1>20, <2>9, <2>11
    <3>3. QED BY <2>9, <2>10, <3>1, <3>2, Zenon DEF UpTo
  <2>16. TwiceAhead(c)
    <3>1. ASSUME NEW m \in 1 .. L, NEW o \in 1 .. N, b.pushed[m].line = new[o].line
          PROVE  b.pushed[m].ahead /\ ~new[o].ahead
      <4> DEFINE x == b.pushed[m].line
      <4>1. x \in Nat /\ x <= b.base + b.total /\ (b.pushed[m].ahead \/ x <= b.base + b.last)
        BY <1>22, <1>23, <3>1 DEF UpTo, CountedOnly
      <4>2. x = rotated + first + o - 1 /\ (new[o].ahead <=> rotated # b.base \/ x > b.base + b.total)
        BY <2>11, <3>1
      <4> HIDE DEF x
      <4>3. o \in Int /\ o >= 1 /\ first \in Int /\ first >= b.last + 1 /\ b.last \in Nat /\ rotated \in Nat
            /\ b.base \in Nat /\ b.total \in Nat
        BY <1>1, <1>2, <1>5, <3>1
      <4>4. rotated = b.base
        BY <1>22, <4>1, <4>2, <4>3
      <4>5. ~(x <= b.base + b.last) /\ ~(x > b.base + b.total)
        BY <4>1, <4>2, <4>3, <4>4
      <4>6. QED BY <4>1, <4>2, <4>4, <4>5
    <3>2. \A m, o \in 1 .. N : new[m].line = new[o].line => m = o
      <4>1. ASSUME NEW m \in 1 .. N, NEW o \in 1 .. N, rotated + first + m - 1 = rotated + first + o - 1 PROVE m = o
        BY <1>1, <1>5, <4>1
      <4>2. QED BY <2>11, <4>1
    <3>3. ASSUME NEW i \in 1 .. L + N, NEW j \in 1 .. L + N, i < j, c.pushed[i].line = c.pushed[j].line
          PROVE  c.pushed[i].ahead /\ ~c.pushed[j].ahead
      <4>1. CASE j \in 1 .. L
        <5>1. i \in 1 .. L
          BY <2>9, <3>3, <4>1
        <5>2. QED BY <1>22, <2>9, <3>3, <4>1, <5>1 DEF TwiceAhead
      <4>2. ASSUME NEW o \in 1 .. N, j = L + o PROVE c.pushed[i].ahead /\ ~c.pushed[j].ahead
        <5>1. CASE i \in 1 .. L
          <6>1. c.pushed[i] = b.pushed[i] /\ c.pushed[j] = new[o]
            BY <2>9, <4>2, <5>1
          <6>2. b.pushed[i].line = new[o].line
            BY <3>3, <6>1
          <6>3. QED BY <3>1, <5>1, <6>1, <6>2
        <5>2. ASSUME NEW m \in 1 .. N, i = L + m PROVE FALSE
          <6>1. m = o
            BY <2>9, <3>2, <3>3, <4>2, <5>2
          <6>2. QED BY <2>9, <3>3, <4>2, <5>2, <6>1
        <5>3. QED BY <2>10, <3>3, <5>1, <5>2
      <4>3. QED BY <2>10, <3>3, <4>1, <4>2
    <3>4. QED BY <2>9, <3>3 DEF TwiceAhead
  <2>17. PushesOK(c)
    <3>1. Len(c.pushed) = c.seq
      BY <1>11, <1>22, <2>4, <2>9
    <3>2. PollOK(c)
      BY <1>22, <1>24, <2>4, <2>14, <2>15 DEF PollOK
    <3>3. QED BY <2>4, <2>16, <3>1, <3>2 DEF PushesOK
  <2>18. Thread(f, c)
    BY <1>12 DEF c
  <2>19. QED BY <1>3, <2>4, <2>6, <2>7, <2>8, <2>13, <2>17, <2>18, LogThread DEF b
<1>13. ASSUME Thread(f, [b EXCEPT !.last = b.total, !.at = "count"]),
              missed' = [missed EXCEPT ![f] = missed[f] \cup counted]
       PROVE  LogInv'
  <2> DEFINE c == [b EXCEPT !.last = b.total, !.at = "count"]
  <2>1. /\ c \in FollowerRec /\ c.buf = b.buf /\ c.seq = b.seq /\ c.at = "count" /\ c.last = b.total
        /\ c.base = b.base /\ c.stop = b.stop /\ c.pushed = b.pushed
    BY <1>2 DEF FollowerRec, ThreadPlaces
  <2>2. missed'[f] = missed[f] \cup counted
    BY <1>1, <1>13
  <2>3. missed' \in [Followers -> SUBSET Int] /\ \A g \in Followers : g # f => missed'[g] = missed[g]
    <3>1. missed[f] \cup counted \in SUBSET Int
      BY <1>1, <1>8
    <3>2. QED BY <1>1, <1>13, <3>1
  <2> HIDE DEF b, c
  <2>4. c \in FollowerType /\ Grows(b, c)
    BY <1>1, <2>1, SameBuffer DEF FollowerType
  <2>50. PushesOK(c) /\ LinesOf(c) = LinesOf(b)
    BY <1>25, <2>1
  <2>5. CountedUpTo(c, missed'[f])
    BY <1>4, <1>10, <2>1, <2>2, <2>50 DEF CountedUpTo
  <2>6. Thread(f, c)
    BY <1>13 DEF c
  <2>7. QED BY <1>3, <2>1, <2>3, <2>4, <2>5, <2>50, <2>6, LogThread DEF b
<1>14. ASSUME Thread(f, [b EXCEPT !.at = "count"]), UNCHANGED missed
       PROVE  LogInv'
  <2> DEFINE c == [b EXCEPT !.at = "count"]
  <2>1. /\ c \in FollowerRec /\ c.buf = b.buf /\ c.seq = b.seq /\ c.at = "count" /\ c.last = b.last
        /\ c.base = b.base /\ c.stop = b.stop /\ c.pushed = b.pushed
    BY <1>2 DEF FollowerRec, ThreadPlaces
  <2> HIDE DEF b, c
  <2>2. c \in FollowerType /\ Grows(b, c)
    BY <1>1, <2>1, SameBuffer DEF FollowerType
  <2>30. PushesOK(c) /\ LinesOf(c) = LinesOf(b)
    BY <1>25, <2>1
  <2>3. CountedUpTo(c, missed'[f])
    BY <1>4, <1>14, <2>1, <2>30 DEF CountedUpTo
  <2>4. Thread(f, c)
    BY <1>14 DEF c
  <2>5. QED BY <1>1, <1>3, <1>14, <2>1, <2>2, <2>3, <2>30, <2>4, LogThread DEF b
<1>15. QED
  <2>1. \/ /\ Thread(f, [p EXCEPT !.last = b.total, !.at = "count"])
           /\ missed' = [missed EXCEPT ![f] = missed[f] \cup skipped \cup failed]
        \/ /\ Thread(f, [b EXCEPT !.last = b.total, !.at = "count"])
           /\ missed' = [missed EXCEPT ![f] = missed[f] \cup counted]
        \/ /\ Thread(f, [b EXCEPT !.at = "count"])
           /\ UNCHANGED missed
    BY DEF PollTail, first, skipped, failed, counted, p, new
  <2>2. QED BY <1>12, <1>13, <1>14, <2>1
\* Any step of a thread that follows the journal.
LEMMA LogJournal ==
  ASSUME LogInv, NEW f \in Followers,
         JournalOpen(f) \/ JournalPublish(f) \/ JournalBlocks(f) \/ JournalReads(f) \/ JournalDies(f)
  PROVE  LogInv'
<1> DEFINE b == fol[f]
<1>1. /\ LogTyped /\ b \in FollowerType /\ missed \in [Followers -> SUBSET Int]
      /\ written \in Nat /\ rotated \in Nat /\ CountedUpTo(b, missed[f])
      /\ PushesOK(b)
  BY DEF LogInv, LogTyped
<1>2. b \in FollowerRec /\ b.heard \in Nat /\ b.buf \in Seq(Nat) /\ b.seq \in Nat
      /\ b.pushed \in Seq(PushRec)
  BY <1>1, FollowerFields
<1>3. UNCHANGED missed
  BY DEF JournalOpen, JournalPublish, JournalBlocks, JournalReads, JournalDies
<1>4. ASSUME NEW c \in FollowerRec, Thread(f, c), Numbered(c), PushesOK(c), Grows(b, c), c.stop = b.stop,
             c.base = b.base,
             \/ b.at \in {"open", "opened", "read", "blocked"} /\ c.at \in {"opened", "read", "blocked", "ended"}
             \/ c.at = b.at /\ c.last = b.last /\ c.total = b.total /\ c.pushed = b.pushed
      PROVE  LogInv'
  <2>1. c \in FollowerType
    BY <1>4 DEF FollowerType
  <2>2. CountedUpTo(c, missed'[f])
    BY <1>1, <1>3, <1>4 DEF CountedUpTo, LinesOf
  <2>3. b.at \notin {"new", "ended"} \/ c.at = "ended" \/ c.at = b.at
    BY <1>4
  <2>4. QED BY <1>1, <1>3, <1>4, <2>1, <2>2, <2>3, LogThread
<1>5. CASE JournalOpen(f)
  <2>1. PICK started \in BOOLEAN :
          Thread(f, IF started THEN [b EXCEPT !.at = "opened", !.child = "live", !.heard = written]
                               ELSE [b EXCEPT !.at = "ended"])
    BY <1>5 DEF JournalOpen
  <2>2. b.at = "open"
    BY <1>5 DEF JournalOpen
  <2>3. CASE started
    <3> DEFINE c == [b EXCEPT !.at = "opened", !.child = "live", !.heard = written]
    <3>1. c \in FollowerRec /\ c.buf = b.buf /\ c.seq = b.seq /\ c.at = "opened" /\ c.stop = b.stop /\ c.base = b.base
        /\ c.pushed = b.pushed
      BY <1>1, <1>2 DEF FollowerRec, ThreadPlaces
    <3>2. Thread(f, c)
      BY <2>1, <2>3
    <3> HIDE DEF b, c
    <3>3. Grows(b, c) /\ Numbered(c)
      BY <1>1, <3>1, SameBuffer
    <3>4. PushesOK(c)
      BY <1>1, <2>2, <3>1 DEF PushesOK, TwiceAhead, PollOK, UpTo
    <3>5. QED BY <1>4, <2>2, <3>1, <3>2, <3>3, <3>4
  <2>4. CASE ~started
    <3> DEFINE c == [b EXCEPT !.at = "ended"]
    <3>1. c \in FollowerRec /\ c.buf = b.buf /\ c.seq = b.seq /\ c.at = "ended" /\ c.stop = b.stop /\ c.base = b.base
        /\ c.pushed = b.pushed
      BY <1>1, <1>2 DEF FollowerRec, ThreadPlaces
    <3>2. Thread(f, c)
      BY <2>1, <2>4
    <3> HIDE DEF b, c
    <3>3. Grows(b, c) /\ Numbered(c)
      BY <1>1, <3>1, SameBuffer
    <3>4. PushesOK(c)
      BY <1>1, <2>2, <3>1 DEF PushesOK, TwiceAhead, PollOK, UpTo
    <3>5. QED BY <1>4, <2>2, <3>1, <3>2, <3>3, <3>4
  <2>5. QED BY <2>3, <2>4
<1>6. CASE JournalPublish(f)
  <2> DEFINE c == [b EXCEPT !.at = "read", !.published = TRUE]
  <2>1. c \in FollowerRec /\ c.buf = b.buf /\ c.seq = b.seq /\ c.at = "read" /\ c.stop = b.stop /\ c.base = b.base
        /\ c.pushed = b.pushed /\ c.heard = b.heard
    BY <1>1, <1>2 DEF FollowerRec, ThreadPlaces
  <2>2. Thread(f, c) /\ b.at = "opened"
    BY <1>6 DEF JournalPublish
  <2> HIDE DEF b, c
  <2>3. Grows(b, c) /\ Numbered(c)
    BY <1>1, <2>1, SameBuffer
  <2>4. PushesOK(c)
    BY <1>1, <2>1, <2>2 DEF PushesOK, TwiceAhead, PollOK, UpTo, CountedOnly
  <2>5. QED BY <1>4, <2>1, <2>2, <2>3, <2>4
<1>7. CASE JournalBlocks(f)
  <2> DEFINE c == [b EXCEPT !.at = "blocked"]
  <2>1. c \in FollowerRec /\ c.buf = b.buf /\ c.seq = b.seq /\ c.at = "blocked" /\ c.stop = b.stop /\ c.base = b.base
        /\ c.pushed = b.pushed /\ c.heard = b.heard
    BY <1>1, <1>2 DEF FollowerRec, ThreadPlaces
  <2>2. Thread(f, c) /\ b.at = "read"
    BY <1>7 DEF JournalBlocks
  <2> HIDE DEF b, c
  <2>3. Grows(b, c) /\ Numbered(c)
    BY <1>1, <2>1, SameBuffer
  <2>4. PushesOK(c)
    BY <1>1, <2>1, <2>2 DEF PushesOK, TwiceAhead, PollOK, UpTo, CountedOnly
  <2>5. QED BY <1>4, <2>1, <2>2, <2>3, <2>4
<1>8. CASE JournalDies(f)
  <2> DEFINE c == [b EXCEPT !.child = "dead"]
  <2>1. /\ c \in FollowerRec /\ c.buf = b.buf /\ c.seq = b.seq /\ c.at = b.at /\ c.stop = b.stop
        /\ c.base = b.base /\ c.last = b.last /\ c.total = b.total
        /\ c.pushed = b.pushed /\ c.heard = b.heard
    BY <1>1, <1>2 DEF FollowerRec
  <2>2. Thread(f, c)
    BY <1>8 DEF JournalDies
  <2> HIDE DEF b, c
  <2>3. Grows(b, c) /\ Numbered(c)
    BY <1>1, <2>1, SameBuffer
  <2>4. PushesOK(c)
    BY <1>1, <2>1, <2>2 DEF PushesOK, TwiceAhead, PollOK, UpTo, CountedOnly
  <2>5. QED BY <1>4, <2>1, <2>2, <2>3, <2>4
<1>9. CASE JournalReads(f)
  <2>1. b.at = "blocked"
    BY <1>9 DEF JournalReads
  <2>2. ASSUME Thread(f, [b EXCEPT !.at = "read"]) PROVE LogInv'
    <3> DEFINE c == [b EXCEPT !.at = "read"]
    <3>1. c \in FollowerRec /\ c.buf = b.buf /\ c.seq = b.seq /\ c.at = "read" /\ c.stop = b.stop /\ c.base = b.base
        /\ c.pushed = b.pushed /\ c.heard = b.heard
      BY <1>1, <1>2 DEF FollowerRec, ThreadPlaces
    <3>2. Thread(f, c)
      BY <2>2
    <3> HIDE DEF b, c
    <3>3. Grows(b, c) /\ Numbered(c)
      BY <1>1, <3>1, SameBuffer
    <3>4. PushesOK(c)
      BY <1>1, <2>1, <3>1 DEF PushesOK, TwiceAhead, PollOK, UpTo
    <3>5. QED BY <1>4, <2>1, <3>1, <3>2, <3>3, <3>4
  <2> DEFINE new == [line |-> b.heard + 1, ahead |-> FALSE]
  <2>3. ASSUME Thread(f, [Push(b) EXCEPT !.heard = Push(b).heard + 1, !.at = "read",
                                         !.pushed = Append(Push(b).pushed, new)])
        PROVE  LogInv'
    <3> DEFINE p == Push(b)
    <3> DEFINE c == [p EXCEPT !.heard = p.heard + 1, !.at = "read", !.pushed = Append(p.pushed, new)]
    <3>1. Pushed(b, p) /\ p.seq = b.seq + 1
      BY <1>1, PushPushes
    <3> HIDE DEF p
    <3>2. /\ p \in FollowerType /\ Grows(b, p)
          /\ p = [b EXCEPT !.buf = p.buf, !.bytes = p.bytes, !.seq = p.seq]
      BY <3>1 DEF Pushed
    <3>3. /\ p \in FollowerRec /\ p.buf \in Seq(Nat) /\ p.seq \in Nat /\ p.heard + 1 \in Nat /\ Numbered(p)
          /\ p.pushed \in Seq(PushRec)
      BY <3>2, FollowerFields
    <3>4. p.base = b.base /\ p.stop = b.stop /\ p.pushed = b.pushed /\ p.heard = b.heard
      BY <1>2, <3>2 DEF FollowerRec
    <3>40. new \in PushRec
      BY <1>2 DEF PushRec
    <3>41. new.line = b.heard + 1
      OBVIOUS
    <3> HIDE DEF new
    <3>42. Append(p.pushed, new) \in Seq(PushRec)
      BY <3>3, <3>40
    <3>5. /\ c \in FollowerRec /\ c.buf = p.buf /\ c.seq = p.seq /\ c.at = "read" /\ c.stop = p.stop
          /\ c.base = p.base /\ c.pushed = Append(b.pushed, new) /\ c.heard = b.heard + 1
      BY <3>3, <3>4, <3>42 DEF FollowerRec, ThreadPlaces
    <3>6. Thread(f, c)
      BY <2>3 DEF p
    <3> HIDE DEF b, c
    <3>7. Grows(b, c) /\ Numbered(c)
      BY <3>2, <3>3, <3>5 DEF Grows, Numbered
    <3>8. PushesOK(c)
      <4> DEFINE L == Len(b.pushed)
      <4>1. /\ L \in Nat /\ Len(c.pushed) = L + 1 /\ c.pushed[L + 1] = new
            /\ \A i \in 1 .. L : c.pushed[i] = b.pushed[i]
        BY <1>2, <3>5, <3>40
      <4>2. L = b.seq /\ TwiceAhead(b) /\ UpTo(b, b.heard)
        BY <1>1, <2>1 DEF PushesOK
      <4>3. \A i \in 1 .. L : b.pushed[i].line \in Nat
        <5>1. \A i \in 1 .. L : b.pushed[i] \in PushRec
          BY <1>2
        <5>2. QED BY <5>1 DEF PushRec
      <4>4. \A i \in 1 .. L : b.pushed[i].line <= b.heard
        BY <4>2 DEF UpTo
      <4> HIDE DEF L
      <4>5. \A i \in 1 .. L + 1 : i \in 1 .. L \/ i = L + 1
        BY <4>1
      <4>6. \A i \in 1 .. L : c.pushed[i].line <= b.heard /\ c.pushed[i].line \in Nat
        BY <4>1, <4>3, <4>4
      <4>7. UpTo(c, c.heard)
        <5> DEFINE h == b.heard
        <5>0. (\A x \in Nat : x <= h => x <= h + 1) /\ c.heard = h + 1
          BY <1>2, <3>5
        <5>1. \A i \in 1 .. L : c.pushed[i].line <= c.heard
          BY <4>6, <5>0, Zenon
        <5>2. c.pushed[L + 1].line <= c.heard
          BY <1>2, <3>5, <3>41, <4>1
        <5>3. QED BY <4>1, <4>5, <5>1, <5>2 DEF UpTo
      <4>8. TwiceAhead(c)
        <5>1. ASSUME NEW i \in 1 .. L + 1, NEW j \in 1 .. L + 1, i < j, c.pushed[i].line = c.pushed[j].line
              PROVE  c.pushed[i].ahead /\ ~c.pushed[j].ahead
          <6>1. i \in 1 .. L
            BY <4>1, <5>1
          <6>2. CASE j = L + 1
            <7>1. c.pushed[i].line = b.heard + 1
              BY <3>41, <4>1, <5>1, <6>2
            <7>2. QED BY <1>2, <4>6, <6>1, <7>1
          <6>3. CASE j \in 1 .. L
            <7>1. c.pushed[i] = b.pushed[i] /\ c.pushed[j] = b.pushed[j]
              BY <4>1, <6>1, <6>3
            <7>2. b.pushed[i].line = b.pushed[j].line
              BY <5>1, <7>1
            <7>3. QED BY <4>2, <5>1, <6>1, <6>3, <7>1, <7>2 DEF TwiceAhead, L
          <6>4. QED BY <4>5, <6>2, <6>3
        <5>2. QED BY <4>1, <5>1 DEF TwiceAhead
      <4>9. Len(c.pushed) = c.seq
        BY <3>1, <3>5, <4>1, <4>2
      <4>10. QED BY <3>5, <4>7, <4>8, <4>9 DEF PushesOK, PollOK
    <3>9. QED BY <1>4, <2>1, <3>4, <3>5, <3>6, <3>7, <3>8
  <2>4. QED BY <1>9, <2>2, <2>3 DEF JournalReads
<1>10. QED BY <1>5, <1>6, <1>7, <1>8, <1>9

\* The board writes a line, or its log is rotated.
LEMMA LogBoard ==
  ASSUME LogInv, BoardWrites \/ BoardRotates
  PROVE  LogInv'
<1>1. LogTyped /\ LogHub /\ NoFollowerForgotten
  BY DEF LogInv
<1>2. UNCHANGED <<fol, missed, current, logClosed, rd, hubVars>>
  BY DEF BoardWrites, BoardRotates
<1>3. /\ written \in Nat /\ rotated \in Nat /\ rotated <= written
      /\ written' \in Nat /\ rotated' \in Nat /\ rotated' <= written' /\ written <= written'
      /\ \/ rotated' = rotated
         \/ rotated = 0 /\ rotated' # 0 /\ rotated' = written
  BY <1>1 DEF LogTyped, BoardWrites, BoardRotates
<1>4. LogTyped'
  BY <1>1, <1>2, <1>3 DEF LogTyped
<1>5. ASSUME NEW f \in Followers PROVE CountedUpTo(fol[f], missed[f])' /\ PushesOK(fol[f])'
  <2>1. /\ fol'[f] = fol[f] /\ missed'[f] = missed[f]
        /\ CountedUpTo(fol[f], missed[f]) /\ PushesOK(fol[f])
    BY <1>2 DEF LogInv
  <2>2. /\ fol[f].base \in Nat /\ fol[f].total \in Nat /\ fol[f].last \in Nat
        /\ fol[f].pushed \in Seq(PushRec)
    BY <1>1, FollowerFields DEF LogTyped
  <2>3. CountedUpTo(fol[f], missed[f])'
    BY <1>3, <2>1, <2>2 DEF CountedUpTo, LinesOf
  <2> DEFINE b == fol[f]
  <2>4. /\ Len(b.pushed) = b.seq /\ TwiceAhead(b) /\ PollOK(b)
        /\ b.at \in {"new", "start", "open"} => b.seq = 0
        /\ b.at \in {"opened", "read", "blocked"} => UpTo(b, b.heard)
    BY <2>1 DEF PushesOK
  <2>5. /\ b.base \in {0, rotated} /\ b.base \in Nat /\ b.last \in Nat /\ b.total \in Nat
        /\ b.at = "tail" => (rotated = b.base => b.base + b.total <= written)
        /\ \A i \in 1 .. Len(b.pushed) : b.pushed[i].line \in Nat
    <3>1. \A i \in 1 .. Len(b.pushed) : b.pushed[i] \in PushRec
      BY <2>2
    <3>2. QED BY <2>1, <2>2, <3>1 DEF CountedUpTo, PushRec
  <2> HIDE DEF b
  <2>6. UpTo(b, written) => UpTo(b, written')
    BY <1>3, <2>5 DEF UpTo
  <2>7. b.at = "count" => b.base + b.last <= written' /\ (rotated' # b.base => b.base + b.last <= rotated')
    <3>1. ASSUME b.at = "count" PROVE b.base + b.last <= written /\ (rotated # b.base => b.base + b.last <= rotated)
      BY <2>4, <3>1 DEF PollOK
    <3>2. QED BY <1>3, <2>5, <3>1
  <2>8. b.at = "tail" => (rotated' # b.base => b.base + b.total <= rotated')
    <3>1. ASSUME b.at = "tail" PROVE rotated # b.base => b.base + b.total <= rotated
      BY <2>4, <3>1 DEF PollOK
    <3>2. QED BY <1>3, <2>5, <3>1
  <2>9. /\ b.at \in {"count", "tail"} => CountedOnly(b, b.base + b.last)
        /\ b.at = "count" => UpTo(b, written')
        /\ b.at = "tail" => UpTo(b, b.base + b.total)
    BY <2>4, <2>6 DEF PollOK
  <2>10. PushesOK(fol[f])'
    BY <2>1, <2>4, <2>7, <2>8, <2>9 DEF b, PushesOK, PollOK, TwiceAhead, UpTo, CountedOnly
  <2>11. QED BY <2>3, <2>10
<1>6. \A f \in Followers : Grows(fol[f], fol'[f])
  BY <1>1, <1>2, SameBuffer DEF LogTyped
<1>7. \A r \in Readers : StreamOK(r)'
  BY <1>2, <1>4, <1>6, StreamsStay DEF LogTyped
<1>8. NoFollowerForgotten' /\ LogHub'
  BY <1>1, <1>2, LogHubStays DEF NoFollowerForgotten
<1>9. QED BY <1>4, <1>5, <1>7, <1>8 DEF LogInv

\* What follow, unfollow and stop do to the followers: flags, a process that
\* dies, a thread that starts.
Told(b, c) ==
  /\ c \in FollowerType /\ c.buf = b.buf /\ c.seq = b.seq
  /\ c.last = b.last /\ c.total = b.total /\ c.base = b.base
  /\ c.heard = b.heard /\ c.pushed = b.pushed
  /\ c.at = b.at \/ (b.at \in {"new", "start"} /\ c.at \in {"start", "count", "open"})
  /\ b.stop => c.stop

\* Followers that are told to stop keep what they counted and pushed.
LEMMA LogTold ==
  ASSUME LogInv, fol' \in [Followers -> FollowerType], \A f \in Followers : Told(fol[f], fol'[f]),
         UNCHANGED <<written, rotated, missed>>
  PROVE  /\ \A f \in Followers : CountedUpTo(fol[f], missed[f])' /\ PushesOK(fol[f])'
         /\ \A f \in Followers : Grows(fol[f], fol'[f])
<1>1. LogTyped
  BY DEF LogInv
<1>2. ASSUME NEW f \in Followers PROVE CountedUpTo(fol[f], missed[f])' /\ PushesOK(fol[f])'
  <2>1. CountedUpTo(fol[f], missed[f]) /\ PushesOK(fol[f]) /\ Told(fol[f], fol'[f])
    BY DEF LogInv
  <2>2. fol[f].base \in Nat /\ fol[f] \in FollowerType /\ fol'[f] \in FollowerType
    BY <1>1, FollowerFields DEF LogTyped
  <2>3. CountedUpTo(fol[f], missed[f])'
    BY <2>1, <2>2 DEF CountedUpTo, Told, LinesOf
  <2> DEFINE b == fol[f]
             c == fol'[f]
  <2>4. /\ c.pushed = b.pushed /\ c.seq = b.seq /\ c.heard = b.heard /\ c.last = b.last /\ c.total = b.total
        /\ c.base = b.base /\ (c.at = b.at \/ (b.at \in {"new", "start"} /\ c.at \in {"start", "count", "open"}))
    BY <2>1 DEF Told
  <2>5. b.at \in {"new", "start"} => b.last = 0 /\ b.seq = 0 /\ Len(b.pushed) = 0
    BY <2>1 DEF CountedUpTo, PushesOK
  <2>6. b.base \in {0, rotated} /\ b.base \in Nat /\ rotated \in Nat /\ written \in Nat /\ rotated <= written
    BY <1>1, <2>1, <2>2 DEF CountedUpTo, LogTyped
  <2>7. Len(b.pushed) = b.seq /\ TwiceAhead(b) /\ PollOK(b)
        /\ (b.at \in {"new", "start", "open"} => b.seq = 0)
        /\ (b.at \in {"opened", "read", "blocked"} => UpTo(b, b.heard))
    BY <2>1 DEF PushesOK
  <2> HIDE DEF b, c
  <2>8. PushesOK(c)
    <3>1. CASE c.at = b.at
      BY <2>4, <2>7, <3>1 DEF PushesOK, PollOK, TwiceAhead, UpTo, CountedOnly
    <3>2. CASE b.at \in {"new", "start"} /\ c.at \in {"start", "count", "open"}
      <4>1. Len(c.pushed) = 0 /\ c.seq = 0 /\ c.last = 0 /\ c.base = b.base
        BY <2>4, <2>5, <3>2
      <4>2. TwiceAhead(c) /\ \A n \in Int : UpTo(c, n) /\ CountedOnly(c, n)
        BY <4>1 DEF TwiceAhead, UpTo, CountedOnly
      <4>3. c.base + c.last = b.base /\ b.base \in Int /\ b.base <= written /\ (rotated # b.base => b.base <= rotated)
        BY <2>6, <4>1
      <4>4. PollOK(c)
        BY <2>6, <3>2, <4>2, <4>3 DEF PollOK
      <4>5. QED BY <3>2, <4>1, <4>2, <4>4 DEF PushesOK
    <3>3. QED BY <2>4, <3>1, <3>2
  <2>9. PushesOK(fol[f])'
    BY <2>8 DEF c, PushesOK, PollOK, TwiceAhead, UpTo, CountedOnly
  <2>10. QED BY <2>3, <2>9
<1>3. ASSUME NEW f \in Followers PROVE Grows(fol[f], fol'[f])
  BY <1>1, SameBuffer DEF LogTyped, Told
<1>4. QED BY <1>2, <1>3
\* A follower with some of its flags changed.
LEMMA ToldFlags ==
  ASSUME NEW b \in FollowerType
  PROVE  /\ Told(b, b)
         /\ Told(b, [b EXCEPT !.stop = TRUE, !.toKill = TRUE])
         /\ Told(b, [b EXCEPT !.toKill = FALSE, !.child = IF b.published THEN "dead" ELSE b.child])
         /\ \A p \in {"start", "count", "open"} :
              b.at \in {"new", "start"} => Told(b, [b EXCEPT !.at = p])
<1>1. /\ b \in FollowerRec /\ b.buf \in Seq(Nat) /\ b.seq \in Nat /\ Numbered(b)
      /\ b.child \in {"none", "live", "dead"}
  BY FollowerFields
<1>2. Told(b, b)
  BY DEF Told
<1>3. Told(b, [b EXCEPT !.stop = TRUE, !.toKill = TRUE])
  <2> DEFINE c == [b EXCEPT !.stop = TRUE, !.toKill = TRUE]
  <2>1. /\ c \in FollowerRec /\ c.buf = b.buf /\ c.seq = b.seq /\ c.at = b.at /\ c.stop
        /\ c.base = b.base /\ c.last = b.last /\ c.total = b.total
        /\ c.heard = b.heard /\ c.pushed = b.pushed
    BY <1>1 DEF FollowerRec
  <2> HIDE DEF c
  <2>2. c \in FollowerType
    BY <1>1, <2>1 DEF FollowerType, Numbered
  <2>3. Told(b, c)
    BY <2>1, <2>2 DEF Told
  <2>4. QED BY <2>3 DEF c
<1>4. Told(b, [b EXCEPT !.toKill = FALSE, !.child = IF b.published THEN "dead" ELSE b.child])
  <2> DEFINE k == IF b.published THEN "dead" ELSE b.child
  <2> DEFINE c == [b EXCEPT !.toKill = FALSE, !.child = k]
  <2>1. k \in {"none", "live", "dead"}
    BY <1>1
  <2> HIDE DEF k
  <2>2. /\ c \in FollowerRec /\ c.buf = b.buf /\ c.seq = b.seq /\ c.at = b.at /\ c.stop = b.stop
        /\ c.base = b.base /\ c.last = b.last /\ c.total = b.total
        /\ c.heard = b.heard /\ c.pushed = b.pushed
    BY <1>1, <2>1 DEF FollowerRec
  <2> HIDE DEF c
  <2>3. c \in FollowerType
    BY <1>1, <2>2 DEF FollowerType, Numbered
  <2>4. Told(b, c)
    BY <2>2, <2>3 DEF Told
  <2>5. QED BY <2>4 DEF c, k
<1>5. ASSUME NEW p \in {"start", "count", "open"}, b.at \in {"new", "start"}
      PROVE  Told(b, [b EXCEPT !.at = p])
  <2> DEFINE c == [b EXCEPT !.at = p]
  <2>1. p \in ThreadPlaces
    BY DEF ThreadPlaces
  <2>2. /\ c \in FollowerRec /\ c.buf = b.buf /\ c.seq = b.seq /\ c.at = p /\ c.stop = b.stop
        /\ c.base = b.base /\ c.last = b.last /\ c.total = b.total
        /\ c.heard = b.heard /\ c.pushed = b.pushed
    BY <1>1, <2>1 DEF FollowerRec
  <2> HIDE DEF c
  <2>3. c \in FollowerType
    BY <1>1, <2>2 DEF FollowerType, Numbered
  <2>4. Told(b, c)
    BY <1>5, <2>2, <2>3 DEF Told
  <2>5. QED BY <2>4 DEF c
<1>6. QED BY <1>2, <1>3, <1>4, <1>5

\* stop kills the process of a follower.
LEMMA LogStopKills ==
  ASSUME LogInv, NEW f \in Followers, StopKills(f)
  PROVE  LogInv'
<1>1. LogTyped /\ LogHub /\ NoFollowerForgotten /\ fol \in [Followers -> FollowerType]
  BY DEF LogInv, LogTyped
<1>2. /\ fol' = [g \in Followers |->
               IF g = f THEN [fol[f] EXCEPT !.toKill = FALSE,
                                            !.child = IF fol[f].published THEN "dead" ELSE fol[f].child]
               ELSE IF fol[g].at = "start" THEN [fol[g] EXCEPT !.at = Source(g)]
               ELSE fol[g]]
      /\ UNCHANGED <<written, rotated, current, logClosed, rd, hubVars, missed>>
  BY DEF StopKills
<1>3. ASSUME NEW g \in Followers
      PROVE  /\ Told(fol[g], fol'[g]) /\ (fol[g].at = "new" => fol'[g].at = "new")
  <2>1. fol[g] \in FollowerType
    BY <1>1
  <2>2. CASE g = f
    <3>1. fol'[g] = [fol[g] EXCEPT !.toKill = FALSE, !.child = IF fol[g].published THEN "dead" ELSE fol[g].child]
      BY <1>2, <2>2
    <3>2. fol'[g].at = fol[g].at
      BY <2>1, <3>1, FollowerFields DEF FollowerRec
    <3>3. QED BY <2>1, <3>1, <3>2, ToldFlags
  <2>3. CASE g # f /\ fol[g].at = "start"
    <3>1. fol'[g] = [fol[g] EXCEPT !.at = Source(g)]
      BY <1>2, <2>3
    <3>2. Source(g) \in {"start", "count", "open"}
      BY DEF Source
    <3> HIDE DEF Source
    <3>3. QED BY <2>1, <2>3, <3>1, <3>2, ToldFlags
  <2>4. CASE g # f /\ fol[g].at # "start"
    BY <1>2, <2>1, <2>4, ToldFlags
  <2>5. QED BY <2>2, <2>3, <2>4
<1>4. fol' \in [Followers -> FollowerType]
  <2>1. \A g \in Followers : fol'[g] \in FollowerType
    BY <1>3 DEF Told
  <2>2. fol' = [g \in Followers |-> fol'[g]]
    BY <1>2
  <2>3. QED BY <2>1, <2>2, Zenon
<1>5. /\ \A g \in Followers : CountedUpTo(fol[g], missed[g])' /\ PushesOK(fol[g])'
      /\ \A g \in Followers : Grows(fol[g], fol'[g])
  BY <1>2, <1>3, <1>4, LogTold
<1>6. LogTyped'
  BY <1>1, <1>2, <1>4 DEF LogTyped
<1>7. \A r \in Readers : StreamOK(r)'
  BY <1>2, <1>4, <1>5, StreamsStay
<1>8. NoFollowerForgotten'
  <2>1. ASSUME NEW g \in Followers, fol'[g].at \notin {"new", "ended"} PROVE current = g \/ fol'[g].stop
    BY <1>1, <1>3, <2>1 DEF NoFollowerForgotten, Told
  <2>2. QED BY <1>1, <1>2, <2>1 DEF NoFollowerForgotten
<1>9. LogHub'
  BY <1>1, <1>2, LogHubStays
<1>10. QED BY <1>5, <1>6, <1>7, <1>8, <1>9 DEF LogInv

\* The flags of the follower of the board are set.
LEMMA StoppedTold ==
  ASSUME LogTyped, NEW old
  PROVE  /\ Stopped(old) \in [Followers -> FollowerType]
         /\ \A g \in Followers : /\ Told(fol[g], Stopped(old)[g]) /\ Stopped(old)[g].at = fol[g].at
                                 /\ g = old => Stopped(old)[g].stop
<1>1. ASSUME NEW g \in Followers
      PROVE  /\ Told(fol[g], Stopped(old)[g]) /\ Stopped(old)[g].at = fol[g].at
             /\ g = old => Stopped(old)[g].stop
  <2>1. fol[g] \in FollowerType
    BY DEF LogTyped
  <2>2. CASE g = old
    <3>1. Stopped(old)[g] = [fol[g] EXCEPT !.stop = TRUE, !.toKill = TRUE]
      BY <2>2 DEF Stopped
    <3>2. Stopped(old)[g].at = fol[g].at /\ Stopped(old)[g].stop
      BY <2>1, <3>1, FollowerFields DEF FollowerRec
    <3>3. QED BY <2>1, <3>1, <3>2, ToldFlags
  <2>3. CASE g # old
    BY <2>1, <2>3, ToldFlags DEF Stopped
  <2>4. QED BY <2>2, <2>3
<1>2. Stopped(old) \in [Followers -> FollowerType]
  <2>1. \A g \in Followers : Stopped(old)[g] \in FollowerType
    BY <1>1 DEF Told
  <2>2. Stopped(old) = [g \in Followers |-> Stopped(old)[g]]
    BY DEF Stopped
  <2>3. QED BY <2>1, <2>2, Zenon
<1>3. QED BY <1>1, <1>2

\* A stop request, and close.
LEMMA LogUnfollow ==
  ASSUME LogInv, Unfollow \/ CloseLogs
  PROVE  LogInv'
<1>1. LogTyped /\ LogHub /\ NoFollowerForgotten
  BY DEF LogInv
<1>2. /\ fol' = Stopped(current) /\ current' = Nobody
      /\ UNCHANGED <<written, rotated, missed, rd, hubVars>>
  BY DEF Unfollow, CloseLogs
<1>3. /\ fol' \in [Followers -> FollowerType]
      /\ \A g \in Followers : /\ Told(fol[g], fol'[g]) /\ fol'[g].at = fol[g].at
                              /\ g = current => fol'[g].stop
  BY <1>1, <1>2, StoppedTold
<1>4. /\ \A g \in Followers : CountedUpTo(fol[g], missed[g])' /\ PushesOK(fol[g])'
      /\ \A g \in Followers : Grows(fol[g], fol'[g])
  BY <1>2, <1>3, LogTold
<1>5. LogTyped'
  BY <1>1, <1>2, <1>3 DEF LogTyped
<1>6. \A r \in Readers : StreamOK(r)'
  BY <1>2, <1>3, <1>4, StreamsStay
<1>7. NoFollowerForgotten'
  BY <1>1, <1>2, <1>3 DEF NoFollowerForgotten, Told
<1>8. LogHub'
  BY <1>1, <1>2, LogHubStays
<1>9. QED BY <1>4, <1>5, <1>6, <1>7, <1>8 DEF LogInv

\* A new follower takes the place of the old one.
LEMMA ReplaceKeeps ==
  ASSUME LogInv, NEW f \in Followers, Replace(f), UNCHANGED <<written, rotated, missed, logClosed>>
  PROVE  /\ fol' \in [Followers -> FollowerType]
         /\ \A g \in Followers : CountedUpTo(fol[g], missed[g])' /\ PushesOK(fol[g])'
         /\ \A g \in Followers : Grows(fol[g], fol'[g])
         /\ NoFollowerForgotten' /\ current' = f
<1>1. LogTyped /\ NoFollowerForgotten
  BY DEF LogInv
<1> DEFINE S == Stopped(current)
<1> DEFINE p == IF current = Nobody THEN Source(f) ELSE "start"
<1>2. /\ S \in [Followers -> FollowerType]
      /\ \A g \in Followers : /\ Told(fol[g], S[g]) /\ S[g].at = fol[g].at
                              /\ g = current => S[g].stop
  BY <1>1, StoppedTold
<1>3. ~logClosed /\ fol[f].at = "new" /\ fol' = [S EXCEPT ![f].at = p] /\ current' = f
  BY DEF Replace
<1>4. p \in {"start", "count", "open"}
  BY DEF Source
<1> HIDE DEF S, p
<1>5. fol' = [S EXCEPT ![f] = [S[f] EXCEPT !.at = p]]
  BY <1>2, <1>3
<1>6. S[f] \in FollowerType /\ Told(fol[f], S[f]) /\ S[f].at = "new"
  BY <1>2, <1>3
<1>7. Told(S[f], [S[f] EXCEPT !.at = p])
  BY <1>4, <1>6, ToldFlags
<1>8. [S[f] EXCEPT !.at = p] \in FollowerType /\ [S[f] EXCEPT !.at = p].at = p
  <2>1. S[f] \in FollowerRec
    BY <1>6, FollowerFields
  <2>2. [S[f] EXCEPT !.at = p].at = p
    BY <2>1 DEF FollowerRec
  <2>3. QED BY <1>7, <2>2 DEF Told
<1>9. /\ fol' \in [Followers -> FollowerType] /\ fol'[f] = [S[f] EXCEPT !.at = p]
      /\ \A g \in Followers : g # f => fol'[g] = S[g]
  BY <1>2, <1>5, <1>8
<1>10. \A g \in Followers : Told(fol[g], fol'[g])
  <2> TAKE g \in Followers
  <2>1. CASE g = f
    <3> DEFINE c == [S[f] EXCEPT !.at = p]
    <3>1. Told(S[f], c) /\ c.at = p /\ Told(fol[f], S[f]) /\ S[f].at = "new"
      BY <1>6, <1>7, <1>8
    <3> HIDE DEF c
    <3>2. Told(fol[f], c)
      BY <1>3, <1>4, <3>1 DEF Told
    <3>3. QED BY <1>9, <2>1, <3>2 DEF c
  <2>2. CASE g # f
    BY <1>2, <1>9, <2>2
  <2>3. QED BY <2>1, <2>2
<1>11. /\ \A g \in Followers : CountedUpTo(fol[g], missed[g])' /\ PushesOK(fol[g])'
       /\ \A g \in Followers : Grows(fol[g], fol'[g])
  BY <1>9, <1>10, LogTold
<1>12. NoFollowerForgotten'
  <2>1. ASSUME NEW g \in Followers, g # f, fol'[g].at \notin {"new", "ended"} PROVE fol'[g].stop
    BY <1>1, <1>2, <1>9, <2>1 DEF NoFollowerForgotten, Told
  <2>2. QED BY <1>3, <2>1 DEF NoFollowerForgotten
<1>13. QED BY <1>3, <1>9, <1>11, <1>12

\* A follow request replaces the follower.
LEMMA LogFollow ==
  ASSUME LogInv, Follow
  PROVE  LogInv'
<1>1. LogTyped /\ LogHub
  BY DEF LogInv
<1>2. PICK f \in Followers : Replace(f)
  BY DEF Follow
<1>3. UNCHANGED <<written, rotated, missed, logClosed, rd, hubVars>>
  BY DEF Follow
<1>4. /\ fol' \in [Followers -> FollowerType]
      /\ \A g \in Followers : CountedUpTo(fol[g], missed[g])' /\ PushesOK(fol[g])'
      /\ \A g \in Followers : Grows(fol[g], fol'[g])
      /\ NoFollowerForgotten' /\ current' = f
  BY <1>2, <1>3, ReplaceKeeps
<1>5. LogTyped'
  BY <1>1, <1>3, <1>4 DEF LogTyped
<1>6. (\A r \in Readers : StreamOK(r)') /\ LogHub'
  BY <1>1, <1>3, <1>4, StreamsStay, LogHubStays
<1>7. QED BY <1>4, <1>5, <1>6 DEF LogInv

\* A stream makes its own follower the current one.
LEMMA LogStreamFollows ==
  ASSUME LogInv, NEW r \in Readers, StreamFollows(r)
  PROVE  LogInv'
<1>1. LogTyped /\ LogHub /\ rd \in [Readers -> ReaderType] /\ StreamOK(r) /\ rd[r].at = "new"
  BY DEF LogInv, LogTyped, StreamFollows
<1>2. PICK f \in Followers : Replace(f) /\ Reads(r, [rd[r] EXCEPT !.at = "followed", !.fol = f])
  BY DEF StreamFollows
<1> DEFINE s == [rd[r] EXCEPT !.at = "followed", !.fol = f]
<1>3. UNCHANGED hubVars
  BY DEF StreamFollows
<1>4. rd' = [rd EXCEPT ![r] = s] /\ UNCHANGED <<written, rotated, missed, logClosed>>
  BY <1>2 DEF Reads
<1>5. /\ fol' \in [Followers -> FollowerType]
      /\ \A g \in Followers : CountedUpTo(fol[g], missed[g])' /\ PushesOK(fol[g])'
      /\ \A g \in Followers : Grows(fol[g], fol'[g])
      /\ NoFollowerForgotten' /\ current' = f
  BY <1>2, <1>4, ReplaceKeeps
<1>6. /\ s \in ReaderType /\ s.at = "followed" /\ s.fol = f
      /\ s.cursor = 0 /\ s.from = 0 /\ s.got = <<>>
  BY <1>1 DEF StreamOK, ReaderType
<1> HIDE DEF s
<1>7. rd' \in [Readers -> ReaderType] /\ rd'[r] = s /\ \A q \in Readers : q # r => rd'[q] = rd[q]
  BY <1>1, <1>4, <1>6
<1>8. LogTyped'
  BY <1>1, <1>4, <1>5, <1>7 DEF LogTyped
<1>9. StreamOK(r)'
  <2>1. fol'[f].seq \in Nat
    BY <1>5, FollowerFields
  <2>2. Len(s.got) = 0
    BY <1>6
  <2>3. ReadUpTo(s, fol'[f])
    BY <1>6, <2>1, <2>2 DEF ReadUpTo, Ordered
  <2>30. ReadUpTo(rd[r], fol[rd[r].fol])'
    BY <1>6, <1>7, <2>3 DEF ReadUpTo, Ordered
  <2>4. QED BY <1>6, <1>7, <2>30 DEF StreamOK
<1>10. \A q \in Readers : StreamOK(q)'
  BY <1>5, <1>7, <1>9, StreamStays
<1>11. LogHub'
  <2>1. <<r, "logcenter">> \notin conns
    BY <1>1 DEF LogHub
  <2>2. QED BY <1>1, <1>3, <1>7, <2>1 DEF LogHub, HubExact, hubVars
<1>12. QED BY <1>5, <1>8, <1>10, <1>11 DEF LogInv

\* A stream moves and the followers do not.
LEMMA StreamMoves ==
  ASSUME LogInv, NEW r \in Readers, NEW s \in ReaderType, Reads(r, s), UNCHANGED <<fol, current>>,
         rd[r].at # "new", s.at # "new", s.fol = rd[r].fol, ReadUpTo(s, fol[s.fol]), LogHub'
  PROVE  LogInv'
<1>1. LogTyped /\ NoFollowerForgotten /\ StreamOK(r)
  BY DEF LogInv
<1>2. rd' = [rd EXCEPT ![r] = s] /\ UNCHANGED <<written, rotated, missed, logClosed>>
  BY DEF Reads
<1>3. rd' \in [Readers -> ReaderType] /\ rd'[r] = s /\ \A q \in Readers : q # r => rd'[q] = rd[q]
  BY <1>1, <1>2 DEF LogTyped
<1>4. LogTyped'
  BY <1>1, <1>2, <1>3 DEF LogTyped
<1>5. \A g \in Followers : CountedUpTo(fol[g], missed[g])' /\ PushesOK(fol[g])'
  <2>1. \A g \in Followers : CountedUpTo(fol[g], missed[g])'
    BY <1>2 DEF LogInv, CountedUpTo, LinesOf
  <2>2. \A g \in Followers : PushesOK(fol[g])'
    BY <1>2 DEF LogInv, PushesOK, TwiceAhead, PollOK, UpTo, CountedOnly
  <2>3. QED BY <2>1, <2>2
<1>6. \A g \in Followers : Grows(fol[g], fol'[g])
  BY <1>1, SameBuffer DEF LogTyped
<1>7. StreamOK(r)'
  <2>1. ReadUpTo(rd[r], fol[rd[r].fol])'
    BY <1>3 DEF ReadUpTo, Ordered
  <2>2. QED BY <1>1, <1>3, <2>1 DEF StreamOK
<1>8. \A q \in Readers : StreamOK(q)'
  BY <1>3, <1>4, <1>6, <1>7, StreamStays DEF LogTyped
<1>9. NoFollowerForgotten'
  BY <1>1, <1>2 DEF NoFollowerForgotten
<1>10. QED BY <1>4, <1>5, <1>8, <1>9 DEF LogInv

\* A stream gets its place in the hub and the backlog of its follower.
LEMMA LogStreamJoins ==
  ASSUME LogInv, NEW r \in Readers, StreamJoins(r)
  PROVE  LogInv'
<1> DEFINE b == fol[rd[r].fol]
<1> DEFINE rows == Since(b, 0)
<1> DEFINE backlog == Min({Backlog, Len(rows)})
<1> DEFINE last == SubSeq(rows, Len(rows) - backlog + 1, Len(rows))
<1>1. LogTyped /\ LogHub /\ rd \in [Readers -> ReaderType] /\ rd[r] \in ReaderType /\ StreamOK(r)
  BY DEF LogInv, LogTyped
<1>2. rd[r].at = "followed" /\ UNCHANGED <<fol, current>>
  BY DEF StreamJoins
<1>3. rd[r].fol \in Followers
  BY <1>1, <1>2 DEF StreamOK
<1>4. b \in FollowerType
  BY <1>1, <1>3 DEF LogTyped
<1>5. b.seq \in Nat /\ Len(b.buf) \in Nat /\ Len(b.buf) <= b.seq
  BY <1>4, FollowerFields
<1>6. /\ Len(rows) \in Nat /\ Len(rows) <= b.seq /\ rows \in Seq(Nat)
      /\ \A i \in 1 .. Len(rows) : rows[i] = b.seq - Len(rows) + i
  <2> HIDE DEF b
  <2>1. 0 \in Nat /\ 0 <= b.seq /\ b.seq - 0 = b.seq
    BY <1>5
  <2>2. QED BY <1>4, <2>1, SinceLength
<1> HIDE DEF rows
<1>7. backlog \in Nat /\ backlog <= b.seq /\ backlog <= Len(rows)
  <2>1. Backlog \in Nat /\ Backlog \in Int /\ Len(rows) \in Int
    BY <1>6, LogAssumption
  <2>2. backlog \in {Backlog, Len(rows)} /\ backlog <= Len(rows)
    <3> DEFINE n == Len(rows)
    <3>1. n \in Int
      BY <2>1
    <3> HIDE DEF n
    <3>2. Min({Backlog, n}) \in {Backlog, n} /\ Min({Backlog, n}) <= n
      BY <2>1, <3>1, MinOfTwo
    <3>3. QED BY <3>2 DEF n
  <2> HIDE DEF backlog
  <2>3. QED BY <1>5, <1>6, <2>1, <2>2
<1> HIDE DEF backlog
<1>8. b.seq - backlog \in Nat
  BY <1>5, <1>7
<1>80. /\ last \in Seq(Nat) /\ Len(last) = backlog
       /\ \A i \in 1 .. backlog : last[i] = (b.seq - backlog) + i
  <2> DEFINE l == Len(rows)
             low == l - backlog + 1
  <2>1. l \in Nat /\ low \in Int /\ low >= 1 /\ low <= l + 1
    BY <1>6, <1>7
  <2>2. \A i \in low .. l : rows[i] \in Nat
    <3>1. low .. l \subseteq 1 .. l
      BY <2>1
    <3>2. \A i \in 1 .. l : rows[i] \in Nat
      BY <1>6
    <3>3. QED BY <3>1, <3>2
  <2> HIDE DEF low
  <2>3. last = SubSeq(rows, low, l)
    BY DEF low
  <2> HIDE DEF l, last
  <2>4. last \in Seq(Nat)
    BY <1>6, <2>1, <2>2, <2>3
  <2>5. Len(last) = backlog
    <3>1. Len(last) = IF low <= l THEN l - low + 1 ELSE 0
      BY <1>6, <2>1, <2>3 DEF l
    <3>2. QED BY <1>7, <2>1, <3>1 DEF low
  <2>6. ASSUME NEW i \in 1 .. backlog PROVE last[i] = (b.seq - backlog) + i
    <3>1. low <= l /\ low + i - 1 \in 1 .. l /\ i \in 1 .. (l - low + 1)
      BY <1>7, <2>1, <2>6 DEF low
    <3>2. last[i] = rows[low + i - 1]
      BY <1>6, <2>1, <2>3, <3>1 DEF l
    <3>3. rows[low + i - 1] = b.seq - l + (low + i - 1)
      BY <1>6, <3>1 DEF l
    <3> DEFINE q == b.seq
    <3>4. q \in Int
      BY <1>5
    <3> HIDE DEF q
    <3>5. q - l + (low + i - 1) = (q - backlog) + i
      BY <1>7, <2>1, <2>6, <3>4 DEF low
    <3>6. QED BY <3>2, <3>3, <3>5, Zenon DEF q
  <2>7. QED BY <2>4, <2>5, <2>6
<1> HIDE DEF last
<1>9. ASSUME HubAdd(r, "logcenter"),
             Reads(r, [rd[r] EXCEPT !.at = "open", !.cursor = b.seq, !.from = b.seq - backlog, !.got = last])
      PROVE  LogInv'
  <2> DEFINE s == [rd[r] EXCEPT !.at = "open", !.cursor = b.seq, !.from = b.seq - backlog, !.got = last]
  <2>1. /\ s \in ReaderType /\ s.at = "open" /\ s.fol = rd[r].fol /\ s.cursor = b.seq /\ s.got = last
        /\ s.from = b.seq - backlog
    <3> HIDE DEF b
    <3>1. QED BY <1>1, <1>5, <1>7, <1>8, <1>80 DEF ReaderType
  <2>2. Reads(r, s)
    BY <1>9
  <2> HIDE DEF s
  <2>3. ReadUpTo(s, b)
    <3> HIDE DEF b
    <3> DEFINE q == b.seq
               from == b.seq - backlog
    <3>1. q \in Nat /\ from \in Nat /\ q = from + backlog
      BY <1>5, <1>7, <1>8
    <3>2. \A i \in 1 .. backlog : last[i] = from + i
      BY <1>80, Zenon
    <3>3. s.cursor = q /\ s.from = from /\ s.got = last /\ Len(last) = backlog
      BY <1>80, <2>1
    <3> HIDE DEF from, q
    <3>4. Ordered(last, from, q)
      BY <1>7, <3>1, <3>2, <3>3 DEF Ordered
    <3>5. q <= q /\ from <= q /\ backlog = q - from
      BY <1>7, <3>1
    <3>6. QED BY <3>3, <3>4, <3>5, Zenon DEF ReadUpTo, q
  <2>4. LogHub'
    <3>1. <<r, "logcenter">> \notin conns
      BY <1>1, <1>2 DEF LogHub
    <3>2. HubExact' /\ IsFiniteSet(conns') /\ byKind' \in [Kinds -> Nat]
      BY <1>1, <1>9, <3>1, HubAddKeeps, LogAssumption DEF LogHub
    <3>3. rd'[r].at = "open" /\ \A q \in Readers : q # r => rd'[q] = rd[q]
      BY <1>1, <2>1, <2>2 DEF Reads
    <3>4. conns' = conns \cup {<<r, "logcenter">>}
      BY <1>9 DEF HubAdd
    <3>5. ASSUME NEW q \in Readers, <<q, "logcenter">> \in conns' PROVE rd'[q].at = "open"
      BY <1>1, <3>3, <3>4, <3>5 DEF LogHub
    <3>6. QED BY <3>2, <3>5 DEF LogHub
  <2>5. ReadUpTo(s, fol[s.fol])
    BY <2>1, <2>3
  <2>6. QED BY <1>2, <2>1, <2>2, <2>4, <2>5, StreamMoves
<1>10. ASSUME UNCHANGED hubVars, Reads(r, [rd[r] EXCEPT !.at = "done"])
       PROVE  LogInv'
  <2> DEFINE s == [rd[r] EXCEPT !.at = "done"]
  <2>1. /\ s \in ReaderType /\ s.at = "done" /\ s.fol = rd[r].fol /\ s.cursor = rd[r].cursor
        /\ s.got = rd[r].got /\ s.from = rd[r].from
    BY <1>1 DEF ReaderType
  <2>2. Reads(r, s)
    BY <1>10
  <2> HIDE DEF s
  <2>3. ReadUpTo(s, fol[s.fol])
    BY <1>1, <1>2, <2>1 DEF StreamOK, ReadUpTo
  <2>4. LogHub'
    <3>1. <<r, "logcenter">> \notin conns
      BY <1>1, <1>2 DEF LogHub
    <3>2. \A q \in Readers : q # r => rd'[q] = rd[q]
      BY <1>1, <2>1, <2>2 DEF Reads
    <3>3. QED BY <1>1, <1>10, <3>1, <3>2 DEF LogHub, HubExact, hubVars
  <2>5. QED BY <1>2, <2>1, <2>2, <2>3, <2>4, StreamMoves
<1>11. QED
  <2>1. \/ /\ HubAdd(r, "logcenter")
           /\ Reads(r, [rd[r] EXCEPT !.at = "open", !.cursor = b.seq, !.from = b.seq - backlog, !.got = last])
        \/ UNCHANGED hubVars /\ Reads(r, [rd[r] EXCEPT !.at = "done"])
    BY DEF StreamJoins, rows, backlog, last
  <2>2. QED BY <1>9, <1>10, <2>1

\* A stream sends the lines behind its cursor.
LEMMA LogStreamPolls ==
  ASSUME LogInv, NEW r \in Readers, StreamPolls(r)
  PROVE  LogInv'
<1> DEFINE b == fol[rd[r].fol]
<1> DEFINE rows == Since(b, rd[r].cursor)
<1> DEFINE n == Len(rows)
<1>1. LogTyped /\ LogHub /\ rd \in [Readers -> ReaderType] /\ rd[r] \in ReaderType /\ StreamOK(r)
  BY DEF LogInv, LogTyped
<1>2. /\ rd[r].at = "open" /\ UNCHANGED <<fol, current, hubVars>>
      /\ Reads(r, [rd[r] EXCEPT !.cursor = b.seq, !.got = rd[r].got \o rows])
  BY DEF StreamPolls
<1>3. rd[r].fol \in Followers /\ ReadUpTo(rd[r], b)
  BY <1>1, <1>2 DEF StreamOK
<1>4. b \in FollowerType
  BY <1>1, <1>3 DEF LogTyped
<1>5. b.seq \in Nat /\ Len(b.buf) \in Nat /\ Len(b.buf) <= b.seq
  BY <1>4, FollowerFields
<1>6. rd[r].cursor \in Nat /\ rd[r].from \in Nat /\ rd[r].got \in Seq(Nat)
  BY <1>1, ReaderFields
<1>7. rd[r].cursor <= b.seq
  BY <1>3 DEF ReadUpTo
<1>8. /\ n \in Nat /\ n <= b.seq - rd[r].cursor
      /\ Len(b.buf) = b.seq => n = b.seq - rd[r].cursor
      /\ rows \in Seq(Nat) /\ \A i \in 1 .. n : rows[i] = b.seq - n + i
  <2> HIDE DEF b
  <2>1. QED BY <1>4, <1>6, <1>7, SinceLength
<1>9. rd[r].got \o rows \in Seq(Nat)
  <2> HIDE DEF rows
  <2>1. QED BY <1>6, <1>8
<1> HIDE DEF rows
<1> DEFINE s == [rd[r] EXCEPT !.cursor = b.seq, !.got = rd[r].got \o rows]
<1>10. /\ s \in ReaderType /\ s.at = "open" /\ s.fol = rd[r].fol /\ s.cursor = b.seq
       /\ s.got = rd[r].got \o rows /\ s.from = rd[r].from
  <2> HIDE DEF b
  <2>1. QED BY <1>1, <1>2, <1>5, <1>9 DEF ReaderType
<1>11. Reads(r, s)
  BY <1>2
<1> HIDE DEF s
<1>12. ReadUpTo(s, b)
  <2> HIDE DEF b
  <2> DEFINE q == b.seq
             c == rd[r].cursor
             from == rd[r].from
             g == rd[r].got
             whole == Len(b.buf) = b.seq
             L == Len(g)
  <2>1. /\ q \in Nat /\ c \in Nat /\ from \in Nat /\ L \in Nat /\ n \in Nat
        /\ g \in Seq(Nat) /\ rows \in Seq(Nat) /\ n = Len(rows)
    BY <1>5, <1>6, <1>8
  <2>2. /\ c <= q /\ from <= c /\ Ordered(g, from, c) /\ (whole => L = c - from)
        /\ n <= q - c /\ (whole => n = q - c)
    BY <1>3, <1>8 DEF ReadUpTo
  <2>3. \A i \in 1 .. n : rows[i] = q - n + i
    BY <1>8, Zenon
  <2> HIDE DEF q, c, from, g, whole, n
  <2>4. /\ Len(g \o rows) = L + n
        /\ \A i \in 1 .. L : (g \o rows)[i] = g[i]
        /\ \A i \in 1 .. n : (g \o rows)[L + i] = rows[i]
    BY <2>1
  <2> DEFINE all == g \o rows
  <2>5. Len(all) = L + n /\ (\A i \in 1 .. L : all[i] = g[i]) /\ (\A i \in 1 .. n : all[L + i] = rows[i])
    BY <2>4
  <2>6. \A i \in 1 .. L : g[i] \in (from + 1) .. c /\ \A j \in 1 .. L : i < j => g[i] < g[j]
    BY <2>2 DEF Ordered
  <2> HIDE DEF all, L
  <2>7. from <= q /\ (whole => L + n = q - from)
    BY <2>1, <2>2
  <2>8. \A i \in 1 .. L : all[i] \in (from + 1) .. c /\ all[i] \in (from + 1) .. q
    <3>1. (from + 1) .. c \subseteq (from + 1) .. q
      BY <2>1, <2>2
    <3>2. QED BY <2>5, <2>6, <3>1
  <2>9. \A i \in 1 .. n : all[L + i] = q - n + i
    BY <2>3, <2>5, Zenon
  <2>10. \A i \in 1 .. n : q - n + i \in (from + 1) .. q /\ q - n + i > c
    BY <2>1, <2>2
  <2>11. \A i \in 1 .. L + n : i \in 1 .. L \/ (i - L \in 1 .. n /\ i = L + (i - L))
    BY <2>1
  <2>12. Ordered(all, from, q)
    <3>1. ASSUME NEW i \in 1 .. L + n PROVE all[i] \in (from + 1) .. q
      <4>1. CASE i \in 1 .. L
        BY <2>8, <4>1
      <4>2. CASE i - L \in 1 .. n /\ i = L + (i - L)
        BY <2>9, <2>10, <4>2, Zenon
      <4>3. QED BY <2>11, <3>1, <4>1, <4>2, Zenon
    <3>2. ASSUME NEW i \in 1 .. L + n, NEW j \in 1 .. L + n, i < j PROVE all[i] < all[j]
      <4>1. CASE i \in 1 .. L /\ j \in 1 .. L
        <5>1. g[i] < g[j] /\ all[i] = g[i] /\ all[j] = g[j]
          BY <2>5, <2>6, <3>2, <4>1, Zenon
        <5>2. QED BY <5>1
      <4>2. ASSUME NEW k \in 1 .. n, j = L + k, i \in 1 .. L PROVE all[i] < all[j]
        <5>1. all[j] = q - n + k /\ q - n + k > c /\ all[i] \in (from + 1) .. c
          BY <2>8, <2>9, <2>10, <4>2, Zenon
        <5>2. QED BY <2>1, <4>2, <5>1
      <4>3. ASSUME NEW k \in 1 .. n, NEW m \in 1 .. n, i = L + m, j = L + k PROVE all[i] < all[j]
        <5>1. all[j] = q - n + k /\ all[i] = q - n + m
          BY <2>9, <4>3, Zenon
        <5>2. m < k
          BY <2>1, <3>2, <4>3
        <5>3. QED BY <2>1, <4>3, <5>1, <5>2
      <4>4. i \in 1 .. L \/ ~(j \in 1 .. L)
        BY <2>1, <3>2
      <4>5. QED
        <5>1. CASE j \in 1 .. L
          BY <4>1, <4>4, <5>1
        <5>2. CASE j - L \in 1 .. n /\ j = L + (j - L)
          <6>1. CASE i \in 1 .. L
            BY <4>2, <5>2, <6>1
          <6>2. CASE i - L \in 1 .. n /\ i = L + (i - L)
            BY <4>3, <5>2, <6>2
          <6>3. QED BY <2>11, <3>2, <6>1, <6>2, Zenon
        <5>3. QED BY <2>11, <3>2, <5>1, <5>2, Zenon
    <3>3. QED BY <2>5, <3>1, <3>2 DEF Ordered
  <2>13. s.cursor = q /\ s.from = from /\ s.got = all
    BY <1>10 DEF q, from, all, g
  <2>14. q <= q
    BY <2>1
  <2>15. QED BY <2>5, <2>7, <2>12, <2>13, <2>14, Zenon DEF ReadUpTo, q, whole
<1>13. LogHub'
  <2>1. \A q \in Readers : rd'[q].at = rd[q].at
    BY <1>1, <1>2, <1>10, <1>11 DEF Reads
  <2>2. QED BY <1>1, <1>2, <2>1 DEF LogHub, HubExact, hubVars
<1>14. ReadUpTo(s, fol[s.fol])
  BY <1>10, <1>12
<1>15. QED BY <1>2, <1>10, <1>11, <1>13, <1>14, StreamMoves

\* A stream leaves the hub.
LEMMA LogStreamCloses ==
  ASSUME LogInv, NEW r \in Readers, StreamCloses(r)
  PROVE  LogInv'
<1>1. LogTyped /\ LogHub /\ rd \in [Readers -> ReaderType] /\ rd[r] \in ReaderType /\ StreamOK(r)
  BY DEF LogInv, LogTyped
<1> DEFINE s == [rd[r] EXCEPT !.at = "done"]
<1>2. rd[r].at = "open" /\ UNCHANGED <<fol, current>> /\ Reads(r, s) /\ HubRemove(r)
  BY DEF StreamCloses
<1>3. /\ s \in ReaderType /\ s.at = "done" /\ s.fol = rd[r].fol /\ s.cursor = rd[r].cursor
      /\ s.got = rd[r].got /\ s.from = rd[r].from
  BY <1>1 DEF ReaderType
<1> HIDE DEF s
<1>4. ReadUpTo(s, fol[s.fol])
  BY <1>1, <1>2, <1>3 DEF StreamOK, ReadUpTo
<1>5. LogHub'
  <2>1. /\ HubExact' /\ IsFiniteSet(conns') /\ byKind' \in [Kinds -> Nat]
        /\ conns' = {x \in conns : x[1] # r}
    BY <1>1, <1>2, HubRemoveKeeps DEF LogHub
  <2>2. \A q \in Readers : q # r => rd'[q] = rd[q]
    BY <1>1, <1>2 DEF Reads
  <2>3. ASSUME NEW q \in Readers, <<q, "logcenter">> \in conns' PROVE rd'[q].at = "open"
    <3>1. <<q, "logcenter">> \in conns /\ q # r
      BY <2>1, <2>3
    <3>2. QED BY <1>1, <2>2, <3>1 DEF LogHub
  <2>4. QED BY <2>1, <2>3 DEF LogHub
<1>6. QED BY <1>2, <1>3, <1>4, <1>5, StreamMoves

\* Streams of other pages come and go.
LEMMA LogOther ==
  ASSUME LogInv, OtherStream
  PROVE  LogInv'
<1>1. LogTyped /\ LogHub /\ NoFollowerForgotten
  BY DEF LogInv
<1>2. HubOther(Nobody, "agent") /\ UNCHANGED <<written, rotated, fol, missed, current, logClosed, rd>>
  BY DEF OtherStream
<1>3. LogTyped' /\ NoFollowerForgotten' /\ (\A f \in Followers : CountedUpTo(fol[f], missed[f])' /\ PushesOK(fol[f])')
  BY <1>1, <1>2 DEF LogInv, LogTyped, NoFollowerForgotten, CountedUpTo, LinesOf,
                    PushesOK, TwiceAhead, PollOK, UpTo, CountedOnly
<1>4. \A r \in Readers : StreamOK(r)'
  BY <1>2 DEF LogInv, StreamOK, ReadUpTo, Ordered
<1>5. LogHub'
  <2>1. CASE <<Nobody, "agent">> \in conns
    <3>1. HubRemove(Nobody)
      BY <1>2, <2>1 DEF HubOther
    <3>2. HubExact' /\ IsFiniteSet(conns') /\ byKind' \in [Kinds -> Nat]
          /\ conns' = {x \in conns : x[1] # Nobody}
      BY <1>1, <3>1, HubRemoveKeeps DEF LogHub
    <3>3. QED BY <1>1, <1>2, <3>2 DEF LogHub
  <2>2. CASE <<Nobody, "agent">> \notin conns
    <3>1. HubAdd(Nobody, "agent")
      BY <1>2, <2>2 DEF HubOther
    <3>2. HubExact' /\ IsFiniteSet(conns') /\ byKind' \in [Kinds -> Nat]
      BY <1>1, <2>2, <3>1, HubAddKeeps, LogAssumption DEF LogHub
    <3>3. ASSUME NEW r \in Readers, <<r, "logcenter">> \in conns' PROVE rd'[r].at = "open"
      BY <1>1, <1>2, <3>1, <3>3 DEF LogHub, HubAdd
    <3>4. QED BY <3>2, <3>3 DEF LogHub
  <2>3. QED BY <2>1, <2>2
<1>6. QED BY <1>3, <1>4, <1>5 DEF LogInv

\* No follower, no stream and an empty file.
LEMMA LogInitOK == LogInit => LogInv
<1> SUFFICES ASSUME LogInit PROVE LogInv
  OBVIOUS
<1>1. NewReader \in ReaderType /\ NewReader.at = "new" /\ NewReader.fol = Nobody
      /\ NewReader.cursor = 0 /\ NewReader.from = 0 /\ NewReader.got = <<>>
  BY DEF NewReader, ReaderType
<1>2. LogTyped /\ rotated = 0
  <2>1. \A f \in Followers : NewFollower \in FollowerType
    BY NewFollowerTyped
  <2>2. QED BY <1>1, <2>1 DEF LogInit, LogTyped
<1>3. \A f \in Followers : CountedUpTo(fol[f], missed[f]) /\ PushesOK(fol[f])
  <2>1. \A f \in Followers : fol[f].at = "new" /\ fol[f].base = 0 /\ fol[f].last = 0
                             /\ fol[f].seq = 0 /\ Len(fol[f].pushed) = 0
    BY NewFollowerTyped DEF LogInit
  <2>2. QED BY <1>2, <2>1 DEF CountedUpTo, PushesOK, TwiceAhead, PollOK
<1>4. \A r \in Readers : StreamOK(r)
  BY <1>1 DEF LogInit, StreamOK
<1>5. NoFollowerForgotten
  BY NewFollowerTyped DEF LogInit, NoFollowerForgotten
<1>6. LogHub
  <2>1. IsFiniteSet(conns) /\ Cardinality(conns) = 0 /\ conns = {}
    BY FS_EmptySet DEF LogInit, HubInit
  <2>2. \A k \in Kinds : {x \in conns : x[2] = k} = {}
    BY <2>1
  <2>3. HubExact
    BY <2>1, <2>2, FS_EmptySet, HubAssumption DEF HubExact, LogInit, HubInit
  <2>4. QED BY <2>1, <2>3 DEF LogHub, LogInit, HubInit
<1>7. QED BY <1>2, <1>3, <1>4, <1>5, <1>6 DEF LogInv

\* Every step keeps the invariant.
LEMMA LogNextKeeps == LogInv /\ [LogNext]_logVars => LogInv'
<1> SUFFICES ASSUME LogInv, [LogNext]_logVars PROVE LogInv'
  OBVIOUS
<1>1. CASE BoardWrites \/ BoardRotates
  BY <1>1, LogBoard
<1>2. CASE Follow
  BY <1>2, LogFollow
<1>3. CASE Unfollow \/ CloseLogs
  BY <1>3, LogUnfollow
<1>4. CASE OtherStream
  BY <1>4, LogOther
<1>5. ASSUME NEW f \in Followers, FollowerStep(f) \/ JournalDies(f) \/ StopKills(f) PROVE LogInv'
  BY <1>5, LogEnds, LogPollCount, LogPollTail, LogJournal, LogStopKills DEF FollowerStep
<1>6. ASSUME NEW r \in Readers, StreamFollows(r) \/ StreamJoins(r) \/ StreamPolls(r) \/ StreamCloses(r)
      PROVE  LogInv'
  BY <1>6, LogStreamFollows, LogStreamJoins, LogStreamPolls, LogStreamCloses
<1>7. CASE UNCHANGED logVars
  BY <1>7 DEF logVars, LogInv, LogTyped, CountedUpTo, StreamOK, ReadUpTo, NoFollowerForgotten, LogHub, HubExact,
                 LinesOf, Ordered, PushesOK, TwiceAhead, PollOK, UpTo, CountedOnly
<1>8. QED BY <1>1, <1>2, <1>3, <1>4, <1>5, <1>6, <1>7 DEF LogNext

\* For any number of followers, streams and lines and any size of the buffer:
\* a follower has pushed every line up to the one it reads next, unless a read
\* failed, skipped it, or a rotation hid it; a stream gets the pushes behind
\* its cursor in order, none again and, as long as the buffer drops none, all
\* of them; a line comes a second time only if it was first read ahead of the
\* count, and never a third time; at most the current follower runs without
\* having been told to stop; and the hub's counts are exact
\* (logcenter.py:59-66, 99-151, 295-333, handlers/logcenter.py:166-186).
THEOREM LogsAlwaysFaithful == LogSpec => []LogsFaithful
<1>1. LogInit => LogInv
  BY LogInitOK
<1>2. LogInv /\ [LogNext]_logVars => LogInv'
  BY LogNextKeeps
<1>3. LogInv => LogsFaithful
  BY LogImplies
<1>4. QED BY <1>1, <1>2, <1>3, PTL DEF LogSpec
=============================================================================
