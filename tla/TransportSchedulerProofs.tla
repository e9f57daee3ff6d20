---------------------- MODULE TransportSchedulerProofs ----------------------
(***************************************************************************)
(* Proofs about TransportScheduler, for every set of calls and devices and *)
(* every value of the limits.  The scheduler's counters, its queues and    *)
(* its lock discipline depend on each other (a grant relies on the queues  *)
(* being exact to find its waiter, a counter on the grant to move one      *)
(* call), so one inductive invariant, IInv, covers them together.  It adds *)
(* to the invariants of TransportScheduler that the counters respect the   *)
(* limits, that a settled sleeper's notification is pending, and that the  *)
(* foreground streak bounds the grants that bypassed the background.       *)
(***************************************************************************)
EXTENDS TransportScheduler, SequenceTheorems, FunctionTheorems,
        FiniteSetTheorems, TLAPS

(* Appending a new element keeps a sequence free of duplicates and adds    *)
(* exactly that element.                                                   *)
LEMMA AppendDistinct ==
  ASSUME NEW S, NEW s \in Seq(S), NEW x \in S, Distinct(s), ~InSeq(s, x)
  PROVE  /\ Append(s, x) \in Seq(S)
         /\ Distinct(Append(s, x))
         /\ \A y : InSeq(Append(s, x), y) <=> InSeq(s, y) \/ y = x
<1> DEFINE t == Append(s, x)
<1>1. /\ t \in Seq(S)
      /\ DOMAIN t = 1..(Len(s) + 1)
      /\ \A i \in 1..Len(s) : t[i] = s[i]
      /\ t[Len(s) + 1] = x
  OBVIOUS
<1> HIDE DEF t
<1>2. Distinct(t)
  BY <1>1 DEF Distinct, InSeq
<1>3. ASSUME NEW y, InSeq(t, y)
      PROVE  InSeq(s, y) \/ y = x
  BY <1>1, <1>3 DEF InSeq
<1>4. ASSUME NEW y, InSeq(s, y) \/ y = x
      PROVE  InSeq(t, y)
  BY <1>1, <1>4 DEF InSeq
<1>. QED BY <1>1, <1>2, <1>3, <1>4 DEF t

(* The tail of a sequence without duplicates has all its elements but the  *)
(* head.                                                                   *)
LEMMA TailDistinct ==
  ASSUME NEW S, NEW s \in Seq(S), s # <<>>, Distinct(s)
  PROVE  /\ Tail(s) \in Seq(S)
         /\ Distinct(Tail(s))
         /\ Head(s) \in S
         /\ InSeq(s, Head(s))
         /\ \A y : InSeq(Tail(s), y) <=> InSeq(s, y) /\ y # Head(s)
<1>1. Tail(s) \in Seq(S) /\ Head(s) \in S /\ InSeq(s, Head(s))
  BY DEF InSeq
<1>2. Distinct(Tail(s))
  BY DEF Distinct
<1>3. ASSUME NEW y, InSeq(Tail(s), y)
      PROVE  InSeq(s, y) /\ y # Head(s)
  BY <1>3 DEF InSeq, Distinct
<1>4. ASSUME NEW y, InSeq(s, y), y # Head(s)
      PROVE  InSeq(Tail(s), y)
  <2>1. PICK i \in DOMAIN s : s[i] = y
    BY <1>4 DEF InSeq
  <2>2. i # 1 /\ i - 1 \in DOMAIN Tail(s) /\ Tail(s)[i-1] = y
    BY <2>1, <1>4
  <2>. QED BY <2>2 DEF InSeq
<1>. QED BY <1>1, <1>2, <1>3, <1>4

(* Cutting out one position of a sequence without duplicates removes       *)
(* exactly the element that was there.                                     *)
LEMMA CutDistinct ==
  ASSUME NEW S, NEW s \in Seq(S), NEW i \in DOMAIN s, Distinct(s)
  PROVE  LET t == SubSeq(s, 1, i - 1) \o SubSeq(s, i + 1, Len(s))
         IN  /\ t \in Seq(S)
             /\ Len(t) = Len(s) - 1
             /\ Distinct(t)
             /\ \A y : InSeq(t, y) <=> InSeq(s, y) /\ y # s[i]
<1> DEFINE t == SubSeq(s, 1, i - 1) \o SubSeq(s, i + 1, Len(s))
<1> DEFINE front == SubSeq(s, 1, i - 1)
           back == SubSeq(s, i + 1, Len(s))
<1>a. i \in 1..Len(s) /\ Len(s) \in Nat
  OBVIOUS
<1>b. /\ front \in Seq(S) /\ Len(front) = i - 1
      /\ \A j \in 1..(i - 1) : front[j] = s[j]
  BY <1>a
<1>c. /\ back \in Seq(S) /\ Len(back) = Len(s) - i
      /\ \A j \in 1..(Len(s) - i) : back[j] = s[i + j]
  BY <1>a
<1>d. t = front \o back
  OBVIOUS
<1> HIDE DEF t, front, back
<1>e. /\ t \in Seq(S)
      /\ Len(t) = (i - 1) + (Len(s) - i)
      /\ \A j \in 1..((i - 1) + (Len(s) - i)) :
           t[j] = IF j <= i - 1 THEN front[j] ELSE back[j - (i - 1)]
  <2>1. /\ front \o back \in Seq(S)
        /\ Len(front \o back) = Len(front) + Len(back)
        /\ \A j \in 1..(Len(front) + Len(back)) :
             (front \o back)[j] = IF j <= Len(front) THEN front[j] ELSE back[j - Len(front)]
    BY <1>b, <1>c, ConcatProperties
  <2> QED
    BY <2>1, <1>b, <1>c, <1>d, Zenon
<1>f. (i - 1) + (Len(s) - i) = Len(s) - 1
  BY <1>a
<1>1. t \in Seq(S) /\ Len(t) = Len(s) - 1 /\ DOMAIN t = 1..(Len(s) - 1)
  BY <1>a, <1>e, <1>f
<1>2. \A j \in DOMAIN t : t[j] = IF j < i THEN s[j] ELSE s[j + 1]
  <2> SUFFICES ASSUME NEW j \in 1..(Len(s) - 1)
               PROVE  t[j] = IF j < i THEN s[j] ELSE s[j + 1]
    BY <1>1
  <2>1. t[j] = IF j <= i - 1 THEN front[j] ELSE back[j - (i - 1)]
    BY <1>e, <1>f, Zenon
  <2>2. CASE j < i
    <3>1. j \in 1..(i - 1) /\ j <= i - 1
      BY <2>2, <1>a
    <3> QED
      BY <2>1, <2>2, <3>1, <1>b, Zenon
  <2>3. CASE ~(j < i)
    <3>1. /\ ~(j <= i - 1)
          /\ j - (i - 1) \in 1..(Len(s) - i)
          /\ i + (j - (i - 1)) = j + 1
      BY <2>3, <1>a
    <3>2. back[j - (i - 1)] = s[i + (j - (i - 1))]
      BY <3>1, <1>c, Zenon
    <3> QED
      BY <2>1, <2>3, <3>1, <3>2, Zenon
  <2> QED
    BY <2>2, <2>3
<1>3. Distinct(t)
  BY <1>1, <1>2 DEF Distinct
<1>4. ASSUME NEW y, InSeq(t, y)
      PROVE  InSeq(s, y) /\ y # s[i]
  BY <1>1, <1>2, <1>4 DEF InSeq, Distinct
<1>5. ASSUME NEW y, InSeq(s, y), y # s[i]
      PROVE  InSeq(t, y)
  <2>1. PICK j \in DOMAIN s : s[j] = y
    BY <1>5 DEF InSeq
  <2>2. CASE j < i
    BY <2>1, <2>2, <1>1, <1>2 DEF InSeq
  <2>3. CASE j > i
    <3>1. j - 1 \in DOMAIN t /\ t[j - 1] = y
      BY <2>1, <2>3, <1>1, <1>2
    <3>. QED BY <3>1 DEF InSeq
  <2>. QED BY <2>1, <2>2, <2>3, <1>5
<1>. QED BY <1>1, <1>3, <1>4, <1>5 DEF t

(* Without removes exactly its element from a sequence without duplicates. *)
LEMMA WithoutDistinct ==
  ASSUME NEW S, NEW s \in Seq(S), NEW x, InSeq(s, x), Distinct(s)
  PROVE  /\ Without(s, x) \in Seq(S)
         /\ Len(Without(s, x)) = Len(s) - 1
         /\ Distinct(Without(s, x))
         /\ \A y : InSeq(Without(s, x), y) <=> InSeq(s, y) /\ y # x
<1> DEFINE i == CHOOSE j \in DOMAIN s : s[j] = x
<1>1. i \in DOMAIN s /\ s[i] = x
  BY DEF InSeq
<1>2. Without(s, x) = SubSeq(s, 1, i - 1) \o SubSeq(s, i + 1, Len(s))
  BY DEF Without
<1> HIDE DEF i
<1> DEFINE t == SubSeq(s, 1, i - 1) \o SubSeq(s, i + 1, Len(s))
<1>3. /\ t \in Seq(S) /\ Len(t) = Len(s) - 1 /\ Distinct(t)
      /\ \A y : InSeq(t, y) <=> InSeq(s, y) /\ y # s[i]
  BY <1>1, CutDistinct, Zenon
<1>4. Without(s, x) = t
  BY <1>2
<1> HIDE DEF t
<1>. QED BY <1>1, <1>3, <1>4, Zenon

(* Two sequences without duplicates and without a common element           *)
(* concatenate to one without duplicates.                                  *)
LEMMA ConcatDistinct ==
  ASSUME NEW S, NEW s \in Seq(S), NEW t \in Seq(S),
         Distinct(s), Distinct(t), \A y : ~(InSeq(s, y) /\ InSeq(t, y))
  PROVE  /\ s \o t \in Seq(S)
         /\ Distinct(s \o t)
         /\ \A y : InSeq(s \o t, y) <=> InSeq(s, y) \/ InSeq(t, y)
<1>1. s \o t \in Seq(S)
  OBVIOUS
<1>a. PICK u : u = s \o t
  OBVIOUS
<1>b. PICK m \in Nat : m = Len(s)
  OBVIOUS
<1>c. PICK n \in Nat : n = Len(t)
  OBVIOUS
<1>2. /\ DOMAIN s = 1..m /\ DOMAIN t = 1..n /\ DOMAIN u = 1..(m + n)
      /\ u = s \o t
      /\ \A i \in 1..m : u[i] = s[i]
      /\ \A i \in 1..(m + n) : i > m => u[i] = t[i - m]
  BY <1>a, <1>b, <1>c
<1>3. Distinct(u)
  <2> SUFFICES ASSUME NEW i \in DOMAIN u, NEW j \in DOMAIN u, u[i] = u[j]
               PROVE  i = j
    BY DEF Distinct
  <2>0. i \in 1..(m + n) /\ j \in 1..(m + n)
    BY <1>2
  <2>1. CASE i <= m /\ j <= m
    BY <1>2, <2>0, <2>1 DEF Distinct
  <2>2. CASE i > m /\ j > m
    <3>1. i - m \in 1..n /\ j - m \in 1..n
      BY <2>0, <2>2
    <3>2. u[i] = t[i - m] /\ u[j] = t[j - m]
      BY <1>2, <2>0, <2>2
    <3>3. i - m = j - m
      BY <1>2, <3>1, <3>2 DEF Distinct
    <3>. QED BY <3>3, <2>0
  <2>3. CASE i <= m /\ j > m
    <3>1. i \in 1..m /\ j - m \in 1..n
      BY <2>0, <2>3
    <3>2. u[i] = s[i] /\ u[j] = t[j - m]
      BY <1>2, <2>0, <2>3, <3>1
    <3>. QED BY <1>2, <3>1, <3>2 DEF InSeq
  <2>4. CASE i > m /\ j <= m
    <3>1. j \in 1..m /\ i - m \in 1..n
      BY <2>0, <2>4
    <3>2. u[j] = s[j] /\ u[i] = t[i - m]
      BY <1>2, <2>0, <2>4, <3>1
    <3>. QED BY <1>2, <3>1, <3>2 DEF InSeq
  <2>. QED BY <2>0, <2>1, <2>2, <2>3, <2>4
<1>4. ASSUME NEW y, InSeq(u, y)
      PROVE  InSeq(s, y) \/ InSeq(t, y)
  <2>1. PICK i \in 1..(m + n) : u[i] = y
    BY <1>2, <1>4 DEF InSeq
  <2>2. i \in 1..m \/ (i > m /\ i - m \in 1..n)
    BY <2>1
  <2>. QED BY <1>2, <2>1, <2>2 DEF InSeq
<1>5. ASSUME NEW y, InSeq(s, y)
      PROVE  InSeq(u, y)
  <2>1. PICK i \in 1..m : s[i] = y
    BY <1>2, <1>5 DEF InSeq
  <2>. QED BY <1>2, <2>1 DEF InSeq
<1>6. ASSUME NEW y, InSeq(t, y)
      PROVE  InSeq(u, y)
  <2>1. PICK i \in 1..n : t[i] = y
    BY <1>2, <1>6 DEF InSeq
  <2>2. /\ m + i \in 1..(m + n) /\ m + i > m
        /\ (m + i) - m = i
    BY <2>1
  <2>3. u[m + i] = y
    BY <1>2, <2>1, <2>2
  <2>. QED BY <1>2, <2>2, <2>3 DEF InSeq
<1>. QED BY <1>1, <1>2, <1>3, <1>4, <1>5, <1>6

(* A segment of a sequence without duplicates has none, and holds the      *)
(* elements at the positions of the segment.                               *)
LEMMA SubSeqDistinct ==
  ASSUME NEW S, NEW s \in Seq(S), NEW m \in 1..(Len(s) + 1), NEW n \in 0..Len(s),
         m <= n + 1, Distinct(s)
  PROVE  /\ SubSeq(s, m, n) \in Seq(S)
         /\ Distinct(SubSeq(s, m, n))
         /\ \A y : InSeq(SubSeq(s, m, n), y) <=> \E j \in m..n : s[j] = y
<1>1. SubSeq(s, m, n) \in Seq(S)
  OBVIOUS
<1>a. PICK t : t = SubSeq(s, m, n)
  OBVIOUS
<1>b. PICK l \in Nat : l = Len(s)
  OBVIOUS
<1>2. /\ DOMAIN s = 1..l /\ m \in 1..(l + 1) /\ n \in 0..l
      /\ DOMAIN t = 1..(n - m + 1)
      /\ t = SubSeq(s, m, n)
      /\ \A j \in 1..(n - m + 1) : t[j] = s[m + j - 1]
  BY <1>a, <1>b
<1>3. Distinct(t)
  <2> SUFFICES ASSUME NEW i \in 1..(n - m + 1), NEW j \in 1..(n - m + 1), t[i] = t[j]
               PROVE  i = j
    BY <1>2 DEF Distinct
  <2>1. m + i - 1 \in 1..l /\ m + j - 1 \in 1..l
    BY <1>2
  <2>2. m + i - 1 = m + j - 1
    BY <1>2, <2>1 DEF Distinct
  <2>. QED BY <2>2, <1>2
<1>4. ASSUME NEW y, InSeq(t, y)
      PROVE  \E j \in m..n : s[j] = y
  <2>1. PICK i \in 1..(n - m + 1) : t[i] = y
    BY <1>2, <1>4 DEF InSeq
  <2>2. m + i - 1 \in m..n /\ s[m + i - 1] = y
    BY <1>2, <2>1
  <2>. QED BY <2>2
<1>5. ASSUME NEW j \in m..n
      PROVE  InSeq(t, s[j])
  <2>1. j - m + 1 \in 1..(n - m + 1) /\ m + (j - m + 1) - 1 = j
    BY <1>2
  <2>2. t[j - m + 1] = s[j]
    BY <1>2, <2>1
  <2>. QED BY <1>2, <2>1, <2>2 DEF InSeq
<1>. QED BY <1>1, <1>2, <1>3, <1>4, <1>5

(* Rotate permutes a sequence without duplicates, dropping the served      *)
(* device exactly when it is not to be served again.                       *)
LEMMA RotateDistinct ==
  ASSUME NEW S, NEW s \in Seq(S), NEW i \in DOMAIN s, NEW again \in BOOLEAN,
         Distinct(s)
  PROVE  /\ Rotate(s, i, again) \in Seq(S)
         /\ Distinct(Rotate(s, i, again))
         /\ \A y : InSeq(Rotate(s, i, again), y)
                     <=> InSeq(s, y) /\ (again \/ y # s[i])
<1> DEFINE a == SubSeq(s, i + 1, Len(s))
           b == SubSeq(s, 1, i - 1)
           c == IF again THEN <<s[i]>> ELSE <<>>
<1>0. DOMAIN s = 1..Len(s) /\ Len(s) \in Nat /\ i \in 1..Len(s) /\ s[i] \in S
  OBVIOUS
<1>1. /\ a \in Seq(S) /\ Distinct(a)
      /\ \A y : InSeq(a, y) <=> \E j \in (i + 1)..Len(s) : s[j] = y
  BY <1>0, SubSeqDistinct
<1>2. /\ b \in Seq(S) /\ Distinct(b)
      /\ \A y : InSeq(b, y) <=> \E j \in 1..(i - 1) : s[j] = y
  BY <1>0, SubSeqDistinct
<1>3. /\ c \in Seq(S) /\ Distinct(c)
      /\ \A y : InSeq(c, y) <=> again /\ y = s[i]
  BY <1>0 DEF Distinct, InSeq
<1>4. Rotate(s, i, again) = (a \o b) \o c
  BY DEF Rotate
<1> HIDE DEF a, b, c
<1>5. \A y : ~(InSeq(a, y) /\ InSeq(b, y))
  <2> SUFFICES ASSUME NEW y, InSeq(a, y), InSeq(b, y) PROVE FALSE
    OBVIOUS
  <2>1. PICK j1 \in (i + 1)..Len(s) : s[j1] = y
    BY <1>1
  <2>2. PICK j2 \in 1..(i - 1) : s[j2] = y
    BY <1>2
  <2>3. j1 \in 1..Len(s) /\ j2 \in 1..Len(s) /\ j1 # j2
    BY <1>0
  <2>. QED BY <1>0, <2>1, <2>2, <2>3 DEF Distinct
<1>6. /\ a \o b \in Seq(S) /\ Distinct(a \o b)
      /\ \A y : InSeq(a \o b, y) <=> InSeq(a, y) \/ InSeq(b, y)
  BY <1>1, <1>2, <1>5, ConcatDistinct
<1>7. \A y : InSeq(a \o b, y) <=> InSeq(s, y) /\ y # s[i]
  <2>1. ASSUME NEW y, InSeq(a \o b, y) PROVE InSeq(s, y) /\ y # s[i]
    <3>1. PICK j \in ((i + 1)..Len(s)) \cup (1..(i - 1)) : s[j] = y
      BY <2>1, <1>1, <1>2, <1>6
    <3>2. j \in 1..Len(s) /\ j # i
      BY <1>0
    <3>. QED BY <1>0, <3>1, <3>2 DEF InSeq, Distinct
  <2>2. ASSUME NEW y, InSeq(s, y), y # s[i] PROVE InSeq(a \o b, y)
    <3>1. PICK j \in 1..Len(s) : s[j] = y /\ j # i
      BY <2>2, <1>0 DEF InSeq
    <3>2. j \in (i + 1)..Len(s) \/ j \in 1..(i - 1)
      BY <3>1, <1>0
    <3>. QED BY <3>1, <3>2, <1>1, <1>2, <1>6
  <2>. QED BY <2>1, <2>2
<1>8. \A y : ~(InSeq(a \o b, y) /\ InSeq(c, y))
  BY <1>3, <1>7
<1>9. InSeq(s, s[i])
  BY DEF InSeq
<1> DEFINE ab == a \o b
<1>10. /\ ab \o c \in Seq(S) /\ Distinct(ab \o c)
       /\ \A y : InSeq(ab \o c, y) <=> InSeq(ab, y) \/ InSeq(c, y)
  <2> HIDE DEF ab
  <2>1. ab \in Seq(S) /\ Distinct(ab) /\ \A y : ~(InSeq(ab, y) /\ InSeq(c, y))
    BY <1>6, <1>8 DEF ab
  <2>. QED BY <1>3, <2>1, ConcatDistinct
<1>. QED BY <1>3, <1>4, <1>7, <1>9, <1>10

(* A sequence without duplicates is as long as the set of its elements.    *)
LEMMA DistinctLen ==
  ASSUME NEW S, IsFiniteSet(S), NEW s \in Seq(S), Distinct(s)
  PROVE  Cardinality({y \in S : InSeq(s, y)}) = Len(s)
<1> DEFINE T == {y \in S : InSeq(s, y)}
<1>1. /\ s \in [1..Len(s) -> T] /\ Len(s) \in Nat
      /\ \A i, j \in 1..Len(s) : s[i] = s[j] => i = j
      /\ \A y \in T : \E i \in 1..Len(s) : s[i] = y
  BY DEF InSeq, Distinct
<1>2. s \in Bijection(1..Len(s), T)
  BY <1>1, Fun_IsBij
<1>3. ExistsBijection(1..Len(s), T)
  BY <1>2, Fun_ExistsBij
<1>. QED BY <1>1, <1>3, FS_CountingElements

-----------------------------------------------------------------------------
(* The inductive invariant.                                                *)

(* The counters themselves respect the limits.                             *)
CountersBounded ==
  /\ active <= GlobalLimit
  /\ waiting <= GlobalWaitLimit
  /\ \A d \in Devices :
       /\ activeByDevice[d] <= DeviceLimit
       /\ backgroundByDevice[d] <= BackgroundDeviceLimit
       /\ waitingByDevice[d] <= DeviceWaitLimit

(* A sleeping call whose waiter is settled will be notified by the method  *)
(* that holds the lock.                                                    *)
SleepersNotified ==
  \A c \in asleep :
    /\ pc[c] = "waiting"
    /\ outcome[c] # "none" => lock # Free /\ notify

IInv ==
  /\ TypeOK
  /\ Accounting
  /\ CountersBounded
  /\ QueueExact
  /\ RoundRobinExact
  /\ WorkConserving
  /\ SleepersNotified
  /\ bypassed <= streak

-----------------------------------------------------------------------------
(* The initial states satisfy the inductive invariant.                     *)
LEMMA InitIInv == Init => IInv
<1> SUFFICES ASSUME Init PROVE IInv
  OBVIOUS
<1> USE LimitsAssumption, IdentityAssumption
<1>1. TypeOK
  <2>1. TypeCalls
    BY DEF Init, TypeCalls, Phases, Outcomes
  <2>2. TypeLock
    BY DEF Init, TypeLock
  <2>3. TypeCounters
    BY DEF Init, TypeCounters
  <2>4. TypeQueues
    BY DEF Init, TypeQueues
  <2>5. TypeTurns
    BY DEF Init, TypeTurns
  <2>. QED BY <2>1, <2>2, <2>3, <2>4, <2>5 DEF TypeOK
<1>2. /\ Waiters = {} /\ Holders = {}
      /\ \A d \in Devices : WaitersOf(d) = {} /\ HoldersOf(d) = {}
                            /\ BackgroundHoldersOf(d) = {}
  BY DEF Init, Waiters, Holders, Queued, Holds, WaitersOf, HoldersOf,
         BackgroundHoldersOf
<1>3. Accounting
  BY <1>2, FS_EmptySet DEF Init, Accounting
<1>4. CountersBounded
  BY DEF Init, CountersBounded
<1>5. QueueExact
  BY DEF Init, QueueExact, Distinct, InSeq, Queued, Workloads
<1>6. RoundRobinExact
  BY DEF Init, RoundRobinExact, Distinct, InSeq, Workloads
<1>7. WorkConserving /\ SleepersNotified /\ bypassed <= streak
  BY DEF Init, WorkConserving, SleepersNotified, Queued
<1>. QED BY <1>1, <1>3, <1>4, <1>5, <1>6, <1>7 DEF IInv

(* What an iteration of _grant_locked does: it takes the head waiter c of  *)
(* a device d that the limits admit.                                       *)
LEMMA GrantFacts ==
  ASSUME IInv, NEW k \in Workloads, Grant(k)
  PROVE  \E i \in DOMAIN roundRobin[k], d \in Devices, c \in Calls :
           /\ d = roundRobin[k][i]
           /\ CanGrant(d, k)
           /\ queues[k][d] # <<>>
           /\ c = Head(queues[k][d])
           /\ Queued(c)
           /\ req[c] = [device |-> d, workload |-> k]
           /\ Admit(k, i)
<1>1. PICK i \in DOMAIN roundRobin[k] : i \in Eligible(k) /\ Admit(k, i)
  BY DEF Grant, IsTurn
<1> DEFINE d == roundRobin[k][i]
           c == Head(queues[k][d])
<1>2. d \in Devices /\ CanGrant(d, k)
  BY <1>1 DEF IInv, TypeOK, TypeQueues, Eligible
<1>3. queues[k][d] # <<>> /\ queues[k][d] \in Seq(Calls)
  <2>1. InSeq(roundRobin[k], d)
    BY DEF InSeq
  <2>. QED BY <1>2, <2>1 DEF IInv, TypeOK, TypeQueues, RoundRobinExact
<1>4. c \in Calls /\ InSeq(queues[k][d], c)
  <2>1. Distinct(queues[k][d])
    BY <1>2 DEF IInv, QueueExact
  <2>. QED BY <1>3, <2>1, TailDistinct
<1>5. Queued(c) /\ req[c] = [device |-> d, workload |-> k]
  BY <1>2, <1>4 DEF IInv, QueueExact
<1>. QED BY <1>1, <1>2, <1>3, <1>4, <1>5

-----------------------------------------------------------------------------
(* Every step preserves the types.                                         *)
LEMMA TypeCallsStep == IInv /\ [Next]_vars => TypeCalls'
<1> SUFFICES ASSUME IInv, [Next]_vars PROVE TypeCalls'
  OBVIOUS
<1> USE DEF callVars, Phases, Outcomes
<1>0. TypeCalls
  BY DEF IInv, TypeOK
<1>1. ASSUME NEW c \in Calls, NEW d \in Devices, NEW k \in Workloads, Acquire(c, d, k)
      PROVE  TypeCalls'
  BY <1>0, <1>1 DEF TypeCalls, Acquire, Requests
<1>2. ASSUME NEW c \in Calls, WaitAgain(c) \/ TimeOut(c) \/ Return(c)
      PROVE  TypeCalls'
  BY <1>0, <1>2 DEF TypeCalls, WaitAgain, TimeOut, Return, Queued
<1>3. ASSUME NEW c \in Calls, BeginRelease(c) \/ Release(c)
      PROVE  TypeCalls'
  BY <1>0, <1>3 DEF TypeCalls, BeginRelease, Release
<1>4. ASSUME NEW k \in Workloads, Grant(k)
      PROVE  TypeCalls'
  <2>1. PICK i \in DOMAIN roundRobin[k], d \in Devices, c \in Calls :
          /\ d = roundRobin[k][i] /\ c = Head(queues[k][d])
          /\ Queued(c) /\ Admit(k, i)
    BY <1>4, GrantFacts
  <2>2. outcome' = [outcome EXCEPT ![c] = "granted"]
    BY <2>1 DEF Admit
  <2>3. UNCHANGED <<pc, req>>
    BY <1>4 DEF Grant
  <2>. QED BY <1>0, <2>1, <2>2, <2>3 DEF TypeCalls, Queued
<1>5. CASE EndGrant
  BY <1>0, <1>5 DEF TypeCalls, EndGrant
<1>6. ASSUME NEW d \in Devices, RemoveDevice(d)
      PROVE  TypeCalls'
  <2>1. \A c \in Calls : (\E k \in Workloads : InSeq(queues[k][d], c)) => pc[c] = "waiting"
    BY DEF IInv, QueueExact, Queued
  <2>. QED BY <1>0, <1>6, <2>1 DEF TypeCalls, RemoveDevice
<1>7. CASE UNCHANGED vars
  BY <1>0, <1>7 DEF TypeCalls, vars
<1>. QED BY <1>1, <1>2, <1>3, <1>4, <1>5, <1>6, <1>7 DEF Next

(* Every step keeps the types of the lock and of the sleepers.             *)
LEMMA TypeLockStep == IInv /\ [Next]_vars => TypeLock'
<1> SUFFICES ASSUME IInv, [Next]_vars PROVE TypeLock'
  OBVIOUS
<1> USE DEF lockVars
<1>0. TypeLock
  BY DEF IInv, TypeOK
<1>1. ASSUME NEW c \in Calls, NEW d \in Devices, NEW k \in Workloads, Acquire(c, d, k)
      PROVE  TypeLock'
  BY <1>0, <1>1 DEF TypeLock, Acquire
<1>2. ASSUME NEW c \in Calls, WaitAgain(c) \/ TimeOut(c) \/ Return(c)
      PROVE  TypeLock'
  BY <1>0, <1>2 DEF TypeLock, WaitAgain, TimeOut, Return
<1>3. ASSUME NEW c \in Calls, BeginRelease(c) \/ Release(c)
      PROVE  TypeLock'
  BY <1>0, <1>3 DEF TypeLock, BeginRelease, Release
<1>4. ASSUME NEW k \in Workloads, Grant(k)
      PROVE  TypeLock'
  BY <1>0, <1>4 DEF TypeLock, Grant
<1>5. CASE EndGrant
  BY <1>0, <1>5 DEF TypeLock, EndGrant
<1>6. ASSUME NEW d \in Devices, RemoveDevice(d)
      PROVE  TypeLock'
  BY <1>0, <1>6 DEF TypeLock, RemoveDevice
<1>7. CASE UNCHANGED vars
  BY <1>0, <1>7 DEF TypeLock, vars
<1>. QED BY <1>1, <1>2, <1>3, <1>4, <1>5, <1>6, <1>7 DEF Next

(* Every step keeps the counters integers.                                 *)
LEMMA TypeCountersStep == IInv /\ [Next]_vars => TypeCounters'
<1> SUFFICES ASSUME IInv, [Next]_vars PROVE TypeCounters'
  OBVIOUS
<1> USE DEF activeVars, waitVars
<1>0. TypeCounters /\ TypeCalls /\ TypeQueues
  BY DEF IInv, TypeOK
<1>1. ASSUME NEW c \in Calls, NEW d \in Devices, NEW k \in Workloads, Acquire(c, d, k)
      PROVE  TypeCounters'
  BY <1>0, <1>1 DEF TypeCounters, Acquire
<1>2. ASSUME NEW c \in Calls, WaitAgain(c) \/ TimeOut(c) \/ Return(c)
      PROVE  TypeCounters'
  BY <1>0, <1>2 DEF TypeCounters, WaitAgain, TimeOut, Return
<1>3. ASSUME NEW c \in Calls, BeginRelease(c) \/ Release(c)
      PROVE  TypeCounters'
  BY <1>0, <1>3 DEF TypeCounters, BeginRelease, Release
<1>4. ASSUME NEW k \in Workloads, Grant(k)
      PROVE  TypeCounters'
  <2>1. PICK i \in DOMAIN roundRobin[k], d \in Devices, c \in Calls :
          /\ d = roundRobin[k][i] /\ c = Head(queues[k][d])
          /\ Queued(c) /\ Admit(k, i)
    BY <1>4, GrantFacts
  <2>2. /\ waiting' = waiting - 1 /\ active' = active + 1
        /\ waitingByDevice' = [waitingByDevice EXCEPT ![d] = @ - 1]
        /\ activeByDevice' = [activeByDevice EXCEPT ![d] = @ + 1]
        /\ \/ backgroundByDevice' = [backgroundByDevice EXCEPT ![d] = @ + 1]
           \/ backgroundByDevice' = backgroundByDevice
    BY <2>1 DEF Admit
  <2>. QED BY <1>0, <2>2 DEF TypeCounters
<1>5. CASE EndGrant
  BY <1>0, <1>5 DEF TypeCounters, EndGrant
<1>6. ASSUME NEW d \in Devices, RemoveDevice(d)
      PROVE  TypeCounters'
  <2>1. /\ Len(queues[Foreground][d]) \in Nat
        /\ Len(queues[Background][d]) \in Nat
    BY <1>0 DEF TypeQueues, Workloads
  <2>. QED BY <1>0, <1>6, <2>1 DEF TypeCounters, RemoveDevice
<1>7. CASE UNCHANGED vars
  BY <1>0, <1>7 DEF TypeCounters, vars
<1>. QED BY <1>1, <1>2, <1>3, <1>4, <1>5, <1>6, <1>7 DEF Next

(* Every step keeps the foreground streak within the burst, and the streak *)
(* at least as long as the run of bypassing grants.                        *)
LEMMA TypeTurnsStep == IInv /\ [Next]_vars => TypeTurns' /\ (bypassed <= streak)'
<1> SUFFICES ASSUME IInv, [Next]_vars PROVE TypeTurns' /\ (bypassed <= streak)'
  OBVIOUS
<1> USE LimitsAssumption DEF turnVars
<1>0. TypeTurns /\ bypassed <= streak
  BY DEF IInv, TypeOK
<1>1. CASE UNCHANGED turnVars
  BY <1>0, <1>1 DEF TypeTurns
<1>2. ASSUME NEW k \in Workloads, Grant(k)
      PROVE  TypeTurns' /\ (bypassed <= streak)'
  <2>1. k # Background /\ Eligible(Background) # {} => streak < ForegroundBurst
    BY <1>0, <1>2 DEF Grant, Serves, TypeTurns, Workloads
  <2>. QED BY <1>0, <1>2, <2>1 DEF Grant, TypeTurns
<1>. QED BY <1>1, <1>2 DEF Next, vars, Acquire, WaitAgain, TimeOut, Return,
                           BeginRelease, Release, EndGrant, RemoveDevice

(* Every step preserves the structure of the queues.                       *)
QueuesOK == TypeQueues /\ QueueExact /\ RoundRobinExact

(* A step that touches no queue and no queued call keeps the queues exact. *)
LEMMA QueuesUnchanged ==
  ASSUME QueuesOK, UNCHANGED <<queues, roundRobin>>,
         \A c \in Calls : /\ Queued(c)' <=> Queued(c)
                          /\ Queued(c) => req'[c] = req[c]
  PROVE  QueuesOK'
<1>1. TypeQueues' /\ RoundRobinExact'
  BY DEF QueuesOK, TypeQueues, RoundRobinExact
<1>2. QueueExact'
  <2> SUFFICES ASSUME NEW k \in Workloads, NEW d \in Devices
               PROVE  /\ Distinct(queues'[k][d])
                      /\ \A c \in Calls :
                           InSeq(queues'[k][d], c)
                             <=> Queued(c)' /\ req'[c] = [device |-> d, workload |-> k]
    BY DEF QueueExact
  <2>1. queues' = queues
    OBVIOUS
  <2>. QED BY <2>1 DEF QueuesOK, QueueExact
<1>. QED BY <1>1, <1>2 DEF QueuesOK

(* acquire keeps the queues and the round robin exact.                     *)
LEMMA QueuesAcquire ==
  ASSUME IInv, NEW c \in Calls, NEW d \in Devices, NEW k \in Workloads,
         Acquire(c, d, k)
  PROVE  QueuesOK'
<1> DEFINE q == queues[k][d]
<1>0. TypeCalls /\ TypeQueues /\ QueueExact /\ RoundRobinExact
  BY DEF IInv, TypeOK
<1>6. ~Queued(c)
  BY DEF Acquire, Queued
<1>1. q \in Seq(Calls) /\ Distinct(q) /\ ~InSeq(q, c)
  <2>1. q \in Seq(Calls)
    BY <1>0 DEF TypeQueues
  <2>2. Distinct(q) /\ ~InSeq(q, c)
    BY <1>0, <1>6 DEF QueueExact
  <2>. QED BY <2>1, <2>2
<1>2. /\ Append(q, c) \in Seq(Calls) /\ Distinct(Append(q, c))
      /\ \A y : InSeq(Append(q, c), y) <=> InSeq(q, y) \/ y = c
  BY <1>1, AppendDistinct
<1>3. queues' = [queues EXCEPT ![k][d] = Append(q, c)]
  BY DEF Acquire
<1>4. /\ queues' \in [Workloads -> [Devices -> Seq(Calls)]]
      /\ queues'[k][d] = Append(q, c)
      /\ \A k2 \in Workloads, d2 \in Devices :
           ~(k2 = k /\ d2 = d) => queues'[k2][d2] = queues[k2][d2]
  BY <1>0, <1>2, <1>3 DEF TypeQueues
<1>5. /\ \A b \in Calls : Queued(b)' <=> Queued(b) \/ b = c
      /\ \A b \in Calls : b # c => req'[b] = req[b]
      /\ req'[c] = [device |-> d, workload |-> k]
  BY <1>0 DEF Acquire, Queued, TypeCalls
<1> HIDE DEF q
<1>7. QueueExact'
  <2> SUFFICES ASSUME NEW k2 \in Workloads, NEW d2 \in Devices
               PROVE  /\ Distinct(queues'[k2][d2])
                      /\ \A b \in Calls :
                           InSeq(queues'[k2][d2], b)
                             <=> Queued(b)' /\ req'[b] = [device |-> d2, workload |-> k2]
    BY DEF QueueExact
  <2>1. CASE k2 = k /\ d2 = d
    <3>1. \A b \in Calls :
            InSeq(q, b) <=> Queued(b) /\ req[b] = [device |-> d, workload |-> k]
      BY <1>0 DEF QueueExact, q
    <3>. QED BY <2>1, <3>1, <1>2, <1>4, <1>5, <1>6
  <2>2. CASE ~(k2 = k /\ d2 = d)
    <3>1. \A b \in Calls :
            InSeq(queues[k2][d2], b)
              <=> Queued(b) /\ req[b] = [device |-> d2, workload |-> k2]
      BY <1>0 DEF QueueExact
    <3>2. req'[c] # [device |-> d2, workload |-> k2]
      BY <2>2, <1>5
    <3>3. queues'[k2][d2] = queues[k2][d2] /\ Distinct(queues[k2][d2])
      BY <2>2, <1>0, <1>4 DEF QueueExact
    <3>. QED BY <1>5, <1>6, <3>1, <3>2, <3>3
  <2>. QED BY <2>1, <2>2
<1>8. TypeQueues' /\ RoundRobinExact'
  <2>1. CASE q = <<>>
    <3>1. roundRobin' = [roundRobin EXCEPT ![k] = Append(@, d)]
      BY <2>1 DEF Acquire, q
    <3>2. ~InSeq(roundRobin[k], d) /\ roundRobin[k] \in Seq(Devices)
          /\ Distinct(roundRobin[k])
      BY <1>0, <2>1 DEF TypeQueues, RoundRobinExact, q
    <3>3. /\ Append(roundRobin[k], d) \in Seq(Devices)
          /\ Distinct(Append(roundRobin[k], d))
          /\ \A y : InSeq(Append(roundRobin[k], d), y) <=> InSeq(roundRobin[k], y) \/ y = d
      BY <3>2, AppendDistinct
    <3>4. TypeQueues'
      BY <1>0, <1>4, <3>1, <3>3 DEF TypeQueues
    <3>5. Append(q, c) # <<>>
      BY <1>2 DEF InSeq
    <3>6. RoundRobinExact'
      <4> SUFFICES ASSUME NEW k2 \in Workloads
                   PROVE  /\ Distinct(roundRobin'[k2])
                          /\ \A d2 \in Devices :
                               InSeq(roundRobin'[k2], d2) <=> queues'[k2][d2] # <<>>
        BY DEF RoundRobinExact
      <4>1. CASE k2 = k
        BY <4>1, <1>0, <1>4, <3>1, <3>3, <3>5 DEF TypeQueues, RoundRobinExact
      <4>2. CASE k2 # k
        BY <4>2, <1>0, <1>4, <3>1 DEF TypeQueues, RoundRobinExact
      <4>. QED BY <4>1, <4>2
    <3>. QED BY <3>4, <3>6
  <2>2. CASE q # <<>>
    <3>1. roundRobin' = roundRobin
      BY <2>2 DEF Acquire, q
    <3>2. Append(q, c) # <<>>
      BY <1>2 DEF InSeq
    <3>. QED BY <1>0, <1>4, <2>2, <3>1, <3>2 DEF TypeQueues, RoundRobinExact, q
  <2>. QED BY <2>1, <2>2
<1>. QED BY <1>7, <1>8 DEF QueuesOK

(* A waiter c leaves the queue of device d and workload k, and d leaves    *)
(* the round robin if that queue becomes empty.                            *)
LEMMA QueuesShrink ==
  ASSUME QueuesOK,
         NEW k \in Workloads, NEW d \in Devices, NEW c \in Calls,
         NEW q \in Seq(Calls), NEW r \in Seq(Devices),
         InSeq(queues[k][d], c),
         Distinct(q), \A y : InSeq(q, y) <=> InSeq(queues[k][d], y) /\ y # c,
         Distinct(r),
         \A y : InSeq(r, y) <=> InSeq(roundRobin[k], y) /\ (q # <<>> \/ y # d),
         queues' = [queues EXCEPT ![k][d] = q],
         roundRobin' = [roundRobin EXCEPT ![k] = r],
         \A b \in Calls : Queued(b)' <=> Queued(b) /\ b # c,
         \A b \in Calls : b # c => req'[b] = req[b]
  PROVE  QueuesOK'
<1>0. TypeQueues /\ QueueExact /\ RoundRobinExact
  BY DEF QueuesOK
<1>1. /\ queues' \in [Workloads -> [Devices -> Seq(Calls)]]
      /\ queues'[k][d] = q
      /\ \A k2 \in Workloads, d2 \in Devices :
           ~(k2 = k /\ d2 = d) => queues'[k2][d2] = queues[k2][d2]
  BY <1>0 DEF TypeQueues
<1>2. /\ roundRobin' \in [Workloads -> Seq(Devices)]
      /\ roundRobin'[k] = r
      /\ \A k2 \in Workloads : k2 # k => roundRobin'[k2] = roundRobin[k2]
  BY <1>0 DEF TypeQueues
<1>3. \A k2 \in Workloads, d2 \in Devices, b \in Calls :
        InSeq(queues[k2][d2], b)
          <=> Queued(b) /\ req[b] = [device |-> d2, workload |-> k2]
  BY <1>0 DEF QueueExact
<1>4. \A k2 \in Workloads, d2 \in Devices :
        ~(k2 = k /\ d2 = d) => ~InSeq(queues[k2][d2], c)
  <2> SUFFICES ASSUME NEW k2 \in Workloads, NEW d2 \in Devices, ~(k2 = k /\ d2 = d)
               PROVE  ~InSeq(queues[k2][d2], c)
    OBVIOUS
  <2>1. req[c] = [device |-> d, workload |-> k]
    BY <1>3
  <2>2. req[c] # [device |-> d2, workload |-> k2]
    BY <2>1
  <2>. QED BY <1>3, <2>2
<1>5. QueueExact'
  <2> SUFFICES ASSUME NEW k2 \in Workloads, NEW d2 \in Devices
               PROVE  /\ Distinct(queues'[k2][d2])
                      /\ \A b \in Calls :
                           InSeq(queues'[k2][d2], b)
                             <=> Queued(b)' /\ req'[b] = [device |-> d2, workload |-> k2]
    BY DEF QueueExact
  <2>1. CASE k2 = k /\ d2 = d
    BY <2>1, <1>1, <1>3
  <2>2. CASE ~(k2 = k /\ d2 = d)
    <3>1. queues'[k2][d2] = queues[k2][d2] /\ Distinct(queues[k2][d2])
      BY <2>2, <1>0, <1>1 DEF QueueExact
    <3>. QED BY <2>2, <3>1, <1>3, <1>4
  <2>. QED BY <2>1, <2>2
<1>6. RoundRobinExact'
  <2> SUFFICES ASSUME NEW k2 \in Workloads
               PROVE  /\ Distinct(roundRobin'[k2])
                      /\ \A d2 \in Devices :
                           InSeq(roundRobin'[k2], d2) <=> queues'[k2][d2] # <<>>
    BY DEF RoundRobinExact
  <2>0. queues[k][d] # <<>>
    BY DEF InSeq
  <2>1. CASE k2 = k
    BY <2>0, <2>1, <1>0, <1>1, <1>2 DEF RoundRobinExact
  <2>2. CASE k2 # k
    BY <2>2, <1>0, <1>1, <1>2 DEF RoundRobinExact
  <2>. QED BY <2>1, <2>2
<1>. QED BY <1>1, <1>2, <1>5, <1>6 DEF QueuesOK, TypeQueues

(* A time-out keeps the queues and the round robin exact.                  *)
LEMMA QueuesTimeOut ==
  ASSUME IInv, NEW c \in Calls, TimeOut(c)
  PROVE  QueuesOK'
<1> DEFINE d == req[c].device
           k == req[c].workload
           q == Without(queues[k][d], c)
           r == IF Len(queues[k][d]) = 1 THEN Without(roundRobin[k], d)
                ELSE roundRobin[k]
<1>0. TypeCalls /\ TypeQueues /\ QueueExact /\ RoundRobinExact /\ QueuesOK
  BY DEF IInv, TypeOK, QueuesOK
<1>1. Queued(c) /\ req[c] \in Requests
  BY <1>0 DEF TimeOut, TypeCalls, Queued
<1>2. d \in Devices /\ k \in Workloads /\ req[c] = [device |-> d, workload |-> k]
  BY <1>1 DEF Requests
<1>3. /\ queues' = [queues EXCEPT ![k][d] = q]
      /\ roundRobin' = IF Len(queues[k][d]) = 1
                       THEN [roundRobin EXCEPT ![k] = Without(@, d)]
                       ELSE roundRobin
  BY DEF TimeOut
<1>4. /\ \A b \in Calls : Queued(b)' <=> Queued(b) /\ b # c
      /\ \A b \in Calls : b # c => req'[b] = req[b]
  BY <1>0 DEF TimeOut, Queued, TypeCalls
<1> HIDE DEF d, k
<1>5. InSeq(queues[k][d], c) /\ Distinct(queues[k][d]) /\ queues[k][d] \in Seq(Calls)
  BY <1>0, <1>1, <1>2 DEF QueueExact, TypeQueues
<1>6. /\ q \in Seq(Calls) /\ Distinct(q) /\ Len(q) = Len(queues[k][d]) - 1
      /\ \A y : InSeq(q, y) <=> InSeq(queues[k][d], y) /\ y # c
  BY <1>5, WithoutDistinct
<1>7. InSeq(roundRobin[k], d) /\ Distinct(roundRobin[k]) /\ roundRobin[k] \in Seq(Devices)
  <2>1. queues[k][d] # <<>>
    BY <1>5 DEF InSeq
  <2>. QED BY <2>1, <1>0, <1>2 DEF RoundRobinExact, TypeQueues
<1>8. q # <<>> <=> Len(queues[k][d]) # 1
  <2> HIDE DEF q
  <2>1. q # <<>> <=> Len(q) # 0
    BY <1>6, EmptySeq
  <2>. QED BY <1>5, <1>6, <2>1
<1>9. /\ r \in Seq(Devices) /\ Distinct(r)
      /\ \A y : InSeq(r, y) <=> InSeq(roundRobin[k], y) /\ (q # <<>> \/ y # d)
  <2>1. CASE Len(queues[k][d]) = 1
    BY <2>1, <1>7, <1>8, WithoutDistinct
  <2>2. CASE Len(queues[k][d]) # 1
    BY <2>2, <1>7, <1>8
  <2>. QED BY <2>1, <2>2
<1>10. roundRobin' = [roundRobin EXCEPT ![k] = r]
  BY <1>0, <1>2, <1>3 DEF TypeQueues
<1> HIDE DEF q, r
<1>11. QueuesOK /\ queues' = [queues EXCEPT ![k][d] = q]
  BY <1>0, <1>3
<1>12. d \in Devices /\ k \in Workloads /\ q \in Seq(Calls) /\ r \in Seq(Devices)
  BY <1>2, <1>6, <1>9
<1>13. InSeq(queues[k][d], c) /\ Distinct(q) /\ Distinct(r)
  BY <1>5, <1>6, <1>9
<1>. QED BY <1>4, <1>6, <1>9, <1>10, <1>11, <1>12, <1>13, QueuesShrink, Zenon

(* A grant keeps the queues and the round robin exact.                     *)
LEMMA QueuesGrant ==
  ASSUME IInv, NEW k \in Workloads, Grant(k)
  PROVE  QueuesOK'
<1>0. TypeCalls /\ TypeQueues /\ QueueExact /\ RoundRobinExact /\ QueuesOK
  BY DEF IInv, TypeOK, QueuesOK
<1>1. PICK i \in DOMAIN roundRobin[k], d \in Devices, c \in Calls :
        /\ d = roundRobin[k][i] /\ queues[k][d] # <<>> /\ c = Head(queues[k][d])
        /\ Queued(c) /\ Admit(k, i)
  BY GrantFacts
<1> DEFINE q == Tail(queues[k][d])
           r == Rotate(roundRobin[k], i, Len(queues[k][d]) > 1)
<1>2. /\ queues' = [queues EXCEPT ![k][d] = q]
      /\ roundRobin' = [roundRobin EXCEPT ![k] = r]
      /\ outcome' = [outcome EXCEPT ![c] = "granted"]
  BY <1>1 DEF Admit
<1>3. UNCHANGED <<pc, req>>
  BY DEF Grant
<1>4. /\ \A b \in Calls : Queued(b)' <=> Queued(b) /\ b # c
      /\ \A b \in Calls : b # c => req'[b] = req[b]
  <2> HIDE DEF q, r
  <2>1. pc' = pc /\ req' = req
    BY <1>3
  <2>2. outcome'[c] = "granted" /\ \A b \in Calls : b # c => outcome'[b] = outcome[b]
    BY <1>0, <1>2 DEF TypeCalls
  <2> QED
    BY <2>1, <2>2 DEF Queued
<1>5. Distinct(queues[k][d]) /\ queues[k][d] \in Seq(Calls)
  <2>1. Distinct(queues[k][d])
    BY <1>0, Zenon DEF QueueExact
  <2>2. queues \in [Workloads -> [Devices -> Seq(Calls)]]
    BY <1>0, Zenon DEF TypeQueues
  <2> QED
    BY <2>1, <2>2, Zenon
<1>6. /\ q \in Seq(Calls) /\ Distinct(q) /\ InSeq(queues[k][d], c)
      /\ \A y : InSeq(q, y) <=> InSeq(queues[k][d], y) /\ y # c
  BY <1>1, <1>5, TailDistinct
<1>7. Distinct(roundRobin[k]) /\ roundRobin[k] \in Seq(Devices)
  <2>1. Distinct(roundRobin[k])
    BY <1>0, Zenon DEF RoundRobinExact
  <2>2. roundRobin \in [Workloads -> Seq(Devices)]
    BY <1>0, Zenon DEF TypeQueues
  <2> QED
    BY <2>1, <2>2, Zenon
<1>8. q # <<>> <=> Len(queues[k][d]) > 1
  <2>1. Len(q) = Len(queues[k][d]) - 1 /\ Len(queues[k][d]) \in Nat
    BY <1>1, <1>5, HeadTailProperties
  <2>2. q = <<>> <=> Len(q) = 0
    BY <1>6, EmptySeq
  <2> HIDE DEF q
  <2>. QED BY <2>1, <2>2
<1>9. /\ r \in Seq(Devices) /\ Distinct(r)
      /\ \A y : InSeq(r, y)
                  <=> InSeq(roundRobin[k], y) /\ (Len(queues[k][d]) > 1 \/ y # d)
  <2>1. (Len(queues[k][d]) > 1) \in BOOLEAN
    OBVIOUS
  <2>. QED BY <1>1, <1>7, <2>1, RotateDistinct, Zenon
<1> HIDE DEF q, r
<1>. QED BY <1>0, <1>2, <1>4, <1>6, <1>8, <1>9, QueuesShrink

(* remove_device keeps the queues and the round robin exact.               *)
LEMMA QueuesRemoveDevice ==
  ASSUME IInv, NEW d \in Devices, RemoveDevice(d)
  PROVE  QueuesOK'
<1>0. TypeCalls /\ TypeQueues /\ QueueExact /\ RoundRobinExact
  BY DEF IInv, TypeOK
<1>1. /\ queues' \in [Workloads -> [Devices -> Seq(Calls)]]
      /\ \A k \in Workloads : queues'[k][d] = <<>>
      /\ \A k \in Workloads, e \in Devices : e # d => queues'[k][e] = queues[k][e]
  BY <1>0 DEF RemoveDevice, TypeQueues
<1>2. \A k \in Workloads, e \in Devices, b \in Calls :
        InSeq(queues[k][e], b)
          <=> Queued(b) /\ req[b] = [device |-> e, workload |-> k]
  BY <1>0 DEF QueueExact
<1>3. \A b \in Calls : Queued(b)' <=> Queued(b) /\ ~\E k \in Workloads : InSeq(queues[k][d], b)
  BY <1>0 DEF RemoveDevice, Queued, TypeCalls
<1>4. req' = req
  BY DEF RemoveDevice
<1>5. QueueExact'
  <2> SUFFICES ASSUME NEW k \in Workloads, NEW e \in Devices
               PROVE  /\ Distinct(queues'[k][e])
                      /\ \A b \in Calls :
                           InSeq(queues'[k][e], b)
                             <=> Queued(b)' /\ req'[b] = [device |-> e, workload |-> k]
    BY DEF QueueExact
  <2>1. CASE e = d
    <3>1. Distinct(queues'[k][e]) /\ \A b : ~InSeq(queues'[k][e], b)
      BY <2>1, <1>1 DEF Distinct, InSeq
    <3>. QED BY <2>1, <3>1, <1>2, <1>3, <1>4
  <2>2. CASE e # d
    <3>1. queues'[k][e] = queues[k][e] /\ Distinct(queues[k][e])
      BY <2>2, <1>0, <1>1 DEF QueueExact
    <3>2. ASSUME NEW b \in Calls, req[b] = [device |-> e, workload |-> k]
          PROVE  ~\E k2 \in Workloads : InSeq(queues[k2][d], b)
      <4>1. \A k2 \in Workloads : req[b] # [device |-> d, workload |-> k2]
        BY <2>2, <3>2
      <4>. QED BY <4>1, <1>2
    <3>. QED BY <3>1, <3>2, <1>2, <1>3, <1>4
  <2>. QED BY <2>1, <2>2
<1>6. \A k \in Workloads :
        /\ roundRobin'[k] \in Seq(Devices)
        /\ Distinct(roundRobin'[k])
        /\ \A e \in Devices : InSeq(roundRobin'[k], e) <=> InSeq(roundRobin[k], e) /\ e # d
  <2> SUFFICES ASSUME NEW k \in Workloads
               PROVE  /\ roundRobin'[k] \in Seq(Devices)
                      /\ Distinct(roundRobin'[k])
                      /\ \A e \in Devices :
                           InSeq(roundRobin'[k], e) <=> InSeq(roundRobin[k], e) /\ e # d
    OBVIOUS
  <2>1. /\ roundRobin[k] \in Seq(Devices) /\ Distinct(roundRobin[k])
        /\ InSeq(roundRobin[k], d) <=> queues[k][d] # <<>>
    BY <1>0 DEF TypeQueues, RoundRobinExact
  <2>2. CASE queues[k][d] = <<>>
    <3>1. roundRobin'[k] = roundRobin[k]
      BY <2>2 DEF RemoveDevice
    <3>. QED BY <2>1, <2>2, <3>1
  <2>3. CASE queues[k][d] # <<>>
    <3>1. roundRobin'[k] = Without(roundRobin[k], d)
      BY <2>3 DEF RemoveDevice
    <3>. QED BY <2>1, <2>3, <3>1, WithoutDistinct
  <2>. QED BY <2>2, <2>3
<1>7. RoundRobinExact'
  <2>1. \A k \in Workloads, e \in Devices :
          InSeq(roundRobin[k], e) <=> queues[k][e] # <<>>
    BY <1>0 DEF RoundRobinExact
  <2>. QED BY <1>1, <1>6, <2>1 DEF RoundRobinExact
<1>8. TypeQueues'
  <2>1. DOMAIN roundRobin' = Workloads /\ roundRobin' = [k \in Workloads |-> roundRobin'[k]]
    BY DEF RemoveDevice
  <2>. QED BY <1>1, <1>6, <2>1 DEF TypeQueues
<1>. QED BY <1>5, <1>7, <1>8 DEF QueuesOK

(* Every step keeps the queues and the round robin exact.                  *)
LEMMA QueuesStep == IInv /\ [Next]_vars => QueuesOK'
<1> SUFFICES ASSUME IInv, [Next]_vars PROVE QueuesOK'
  OBVIOUS
<1>0. TypeCalls /\ QueuesOK
  BY DEF IInv, TypeOK, QueuesOK
<1>1. ASSUME NEW c \in Calls, NEW d \in Devices, NEW k \in Workloads, Acquire(c, d, k)
      PROVE  QueuesOK'
  BY <1>1, QueuesAcquire
<1>2. ASSUME NEW c \in Calls, TimeOut(c)
      PROVE  QueuesOK'
  BY <1>2, QueuesTimeOut
<1>3. ASSUME NEW c \in Calls,
             WaitAgain(c) \/ Return(c) \/ BeginRelease(c) \/ Release(c)
      PROVE  QueuesOK'
  <2>1. UNCHANGED <<queues, roundRobin>>
    BY <1>3 DEF WaitAgain, Return, BeginRelease, Release, waitVars
  <2>2. \A b \in Calls : /\ Queued(b)' <=> Queued(b)
                         /\ Queued(b) => req'[b] = req[b]
    BY <1>0, <1>3 DEF WaitAgain, Return, BeginRelease, Release, callVars, Queued, TypeCalls
  <2>. QED BY <1>0, <2>1, <2>2, QueuesUnchanged
<1>4. ASSUME NEW k \in Workloads, Grant(k)
      PROVE  QueuesOK'
  BY <1>4, QueuesGrant
<1>5. CASE EndGrant \/ UNCHANGED vars
  <2>1. UNCHANGED <<queues, roundRobin, pc, req, outcome>>
    BY <1>5 DEF EndGrant, vars, callVars, waitVars
  <2>2. \A b \in Calls : /\ Queued(b)' <=> Queued(b)
                         /\ Queued(b) => req'[b] = req[b]
    BY <2>1 DEF Queued
  <2>. QED BY <1>0, <2>1, <2>2, QueuesUnchanged
<1>6. ASSUME NEW d \in Devices, RemoveDevice(d)
      PROVE  QueuesOK'
  BY <1>6, QueuesRemoveDevice
<1>. QED BY <1>1, <1>2, <1>3, <1>4, <1>5, <1>6 DEF Next

-----------------------------------------------------------------------------
(* Every step preserves the agreement of the counters with the calls.      *)

(* The sets of calls that the counters count are finite.                   *)
LEMMA FiniteCalls ==
  /\ IsFiniteSet(Waiters) /\ IsFiniteSet(Holders)
  /\ \A d \in Devices : /\ IsFiniteSet(WaitersOf(d))
                        /\ IsFiniteSet(HoldersOf(d))
                        /\ IsFiniteSet(BackgroundHoldersOf(d))
<1>1. \A T \in SUBSET Calls : IsFiniteSet(T)
  BY IdentityAssumption, FS_Subset
<1>2. /\ Waiters \in SUBSET Calls /\ Holders \in SUBSET Calls
      /\ \A d \in Devices : /\ WaitersOf(d) \in SUBSET Calls
                            /\ HoldersOf(d) \in SUBSET Calls
                            /\ BackgroundHoldersOf(d) \in SUBSET Calls
  BY DEF Waiters, Holders, WaitersOf, HoldersOf, BackgroundHoldersOf
<1>. QED BY <1>1, <1>2

(* A step that moves no call in or out of the queues or of the holders.    *)
LEMMA AccountingUnchanged ==
  ASSUME Accounting,
         UNCHANGED <<active, activeByDevice, backgroundByDevice, waiting, waitingByDevice>>,
         \A b \in Calls : /\ Queued(b)' <=> Queued(b)
                          /\ Holds(b)' <=> Holds(b)
                          /\ Queued(b) \/ Holds(b) => req'[b] = req[b]
  PROVE  Accounting'
<1>1. /\ Waiters' = Waiters /\ Holders' = Holders
      /\ \A b \in Waiters \cup Holders : req'[b] = req[b]
  BY DEF Waiters, Holders
<1>2. \A d \in Devices : /\ WaitersOf(d)' = WaitersOf(d)
                         /\ HoldersOf(d)' = HoldersOf(d)
                         /\ BackgroundHoldersOf(d)' = BackgroundHoldersOf(d)
  BY <1>1 DEF WaitersOf, HoldersOf, BackgroundHoldersOf
<1>. QED BY <1>1, <1>2 DEF Accounting

(* acquire counts the new waiter once.                                     *)
LEMMA AccountingAcquire ==
  ASSUME IInv, NEW c \in Calls, NEW d \in Devices, NEW k \in Workloads,
         Acquire(c, d, k)
  PROVE  Accounting'
<1>0. TypeCalls /\ TypeCounters /\ Accounting
  BY DEF IInv, TypeOK
<1>1. /\ \A b \in Calls : /\ Queued(b)' <=> Queued(b) \/ b = c
                          /\ Holds(b)' <=> Holds(b)
                          /\ b # c => req'[b] = req[b]
      /\ ~Queued(c) /\ ~Holds(c)
      /\ req'[c].device = d
  BY <1>0 DEF Acquire, Queued, Holds, TypeCalls, Phases
<1>2. /\ Waiters' = Waiters \cup {c} /\ c \notin Waiters
      /\ Holders' = Holders /\ c \notin Holders
  BY <1>1 DEF Waiters, Holders
<1>3. \A e \in Devices :
        /\ WaitersOf(e)' = IF e = d THEN WaitersOf(e) \cup {c} ELSE WaitersOf(e)
        /\ HoldersOf(e)' = HoldersOf(e)
        /\ BackgroundHoldersOf(e)' = BackgroundHoldersOf(e)
        /\ c \notin WaitersOf(e)
  <2>1. \A b \in Waiters \cup Holders : b # c /\ req'[b] = req[b]
    BY <1>1, <1>2 DEF Waiters, Holders
  <2>. QED BY <1>1, <1>2, <2>1 DEF WaitersOf, HoldersOf, BackgroundHoldersOf
<1>4. /\ waiting' = waiting + 1
      /\ \A e \in Devices : waitingByDevice'[e] =
           IF e = d THEN waitingByDevice[e] + 1 ELSE waitingByDevice[e]
      /\ UNCHANGED <<active, activeByDevice, backgroundByDevice>>
  BY <1>0 DEF Acquire, TypeCounters, activeVars
<1>5. Cardinality(Waiters') = Cardinality(Waiters) + 1
  BY <1>2, FiniteCalls, FS_AddElement
<1>6. Cardinality(WaitersOf(d)') = Cardinality(WaitersOf(d)) + 1
  BY <1>3, FiniteCalls, FS_AddElement
<1>. QED BY <1>0, <1>2, <1>3, <1>4, <1>5, <1>6 DEF Accounting

(* A time-out takes the waiter off both waiting counters.                  *)
LEMMA AccountingTimeOut ==
  ASSUME IInv, NEW c \in Calls, TimeOut(c)
  PROVE  Accounting'
<1>0. TypeCalls /\ TypeCounters /\ Accounting
  BY DEF IInv, TypeOK
<1>b. PICK d \in Devices : d = req[c].device
  BY <1>0 DEF TimeOut, Queued, TypeCalls, Requests
<1>1. /\ \A b \in Calls : /\ Queued(b)' <=> Queued(b) /\ b # c
                          /\ Holds(b)' <=> Holds(b)
                          /\ b # c => req'[b] = req[b]
      /\ Queued(c) /\ ~Holds(c)
  BY <1>0 DEF TimeOut, Queued, Holds, TypeCalls
<1>2. /\ Waiters' = Waiters \ {c} /\ c \in Waiters
      /\ Holders' = Holders /\ c \notin Holders
  BY <1>1 DEF Waiters, Holders
<1>3. \A e \in Devices :
        /\ WaitersOf(e)' = IF e = d THEN WaitersOf(e) \ {c} ELSE WaitersOf(e)
        /\ HoldersOf(e)' = HoldersOf(e)
        /\ BackgroundHoldersOf(e)' = BackgroundHoldersOf(e)
  <2>1. \A b \in (Waiters \ {c}) \cup Holders : req'[b] = req[b]
    BY <1>1, <1>2 DEF Waiters, Holders
  <2>. QED BY <1>2, <1>b, <2>1 DEF WaitersOf, HoldersOf, BackgroundHoldersOf
<1>a. c \in WaitersOf(d)
  BY <1>2, <1>b DEF WaitersOf
<1>4. /\ waiting' = waiting - 1
      /\ \A e \in Devices : waitingByDevice'[e] =
           IF e = d THEN waitingByDevice[e] - 1 ELSE waitingByDevice[e]
      /\ UNCHANGED <<active, activeByDevice, backgroundByDevice>>
  BY <1>0, <1>b DEF TimeOut, TypeCounters, activeVars
<1>5. Cardinality(Waiters') = Cardinality(Waiters) - 1
  BY <1>2, FiniteCalls, FS_RemoveElement
<1>6. Cardinality(WaitersOf(d)') = Cardinality(WaitersOf(d)) - 1
  BY <1>3, <1>a, FiniteCalls, FS_RemoveElement
<1>. QED BY <1>0, <1>2, <1>3, <1>4, <1>5, <1>6 DEF Accounting

(* _release takes the lease off every counter that counted it.             *)
LEMMA AccountingRelease ==
  ASSUME IInv, NEW c \in Calls, Release(c)
  PROVE  Accounting'
<1>0. TypeCalls /\ TypeCounters /\ Accounting
  BY DEF IInv, TypeOK
<1>b. PICK d \in Devices, k \in Workloads : d = req[c].device /\ k = req[c].workload
  BY <1>0 DEF Release, TypeCalls, Requests
<1>1. /\ \A b \in Calls : /\ Queued(b)' <=> Queued(b)
                          /\ Holds(b)' <=> Holds(b) /\ b # c
                          /\ b # c => req'[b] = req[b]
      /\ Holds(c) /\ ~Queued(c)
  BY <1>0 DEF Release, Queued, Holds, TypeCalls
<1>2. /\ Waiters' = Waiters /\ c \notin Waiters
      /\ Holders' = Holders \ {c} /\ c \in Holders
  BY <1>1 DEF Waiters, Holders
<1>3. \A e \in Devices :
        /\ WaitersOf(e)' = WaitersOf(e)
        /\ HoldersOf(e)' = IF e = d THEN HoldersOf(e) \ {c} ELSE HoldersOf(e)
        /\ BackgroundHoldersOf(e)' =
             IF e = d /\ k = Background THEN BackgroundHoldersOf(e) \ {c}
             ELSE BackgroundHoldersOf(e)
  <2>1. \A b \in Waiters \cup (Holders \ {c}) : req'[b] = req[b]
    BY <1>1, <1>2 DEF Waiters, Holders
  <2>. QED BY <1>2, <1>b, <2>1 DEF WaitersOf, HoldersOf, BackgroundHoldersOf
<1>a. c \in HoldersOf(d) /\ (k = Background => c \in BackgroundHoldersOf(d))
  BY <1>2, <1>b DEF HoldersOf, BackgroundHoldersOf
<1>4. /\ active' = active - 1
      /\ \A e \in Devices :
           /\ activeByDevice'[e] =
                IF e = d THEN activeByDevice[e] - 1 ELSE activeByDevice[e]
           /\ backgroundByDevice'[e] =
                IF e = d /\ k = Background THEN backgroundByDevice[e] - 1
                ELSE backgroundByDevice[e]
      /\ UNCHANGED <<waiting, waitingByDevice>>
  BY <1>0, <1>b DEF Release, TypeCounters, waitVars
<1>5. Cardinality(Holders') = Cardinality(Holders) - 1
  BY <1>2, FiniteCalls, FS_RemoveElement
<1>6. Cardinality(HoldersOf(d)') = Cardinality(HoldersOf(d)) - 1
  BY <1>3, <1>a, FiniteCalls, FS_RemoveElement
<1>7. k = Background => Cardinality(BackgroundHoldersOf(d)')
                      = Cardinality(BackgroundHoldersOf(d)) - 1
  BY <1>3, <1>a, FiniteCalls, FS_RemoveElement
<1>. QED BY <1>0, <1>2, <1>3, <1>4, <1>5, <1>6, <1>7 DEF Accounting

(* A grant moves the waiter from the waiting to the active counters.       *)
LEMMA AccountingGrant ==
  ASSUME IInv, NEW k \in Workloads, Grant(k)
  PROVE  Accounting'
<1>0. TypeCalls /\ TypeCounters /\ Accounting
  BY DEF IInv, TypeOK
<1>b. PICK i \in DOMAIN roundRobin[k], d \in Devices, c \in Calls :
        /\ d = roundRobin[k][i] /\ c = Head(queues[k][d])
        /\ Queued(c) /\ req[c] = [device |-> d, workload |-> k] /\ Admit(k, i)
  BY GrantFacts
<1>c. UNCHANGED <<pc, req>> /\ outcome' = [outcome EXCEPT ![c] = "granted"]
  BY <1>b DEF Grant, Admit
<1>1. /\ \A b \in Calls : /\ Queued(b)' <=> Queued(b) /\ b # c
                          /\ Holds(b)' <=> Holds(b) \/ b = c
      /\ ~Holds(c)
  BY <1>0, <1>b, <1>c DEF Queued, Holds, TypeCalls
<1>2. /\ Waiters' = Waiters \ {c} /\ c \in Waiters
      /\ Holders' = Holders \cup {c} /\ c \notin Holders
  BY <1>b, <1>1 DEF Waiters, Holders
<1>3. \A e \in Devices :
        /\ WaitersOf(e)' = IF e = d THEN WaitersOf(e) \ {c} ELSE WaitersOf(e)
        /\ HoldersOf(e)' = IF e = d THEN HoldersOf(e) \cup {c} ELSE HoldersOf(e)
        /\ BackgroundHoldersOf(e)' =
             IF e = d /\ k = Background THEN BackgroundHoldersOf(e) \cup {c}
             ELSE BackgroundHoldersOf(e)
  <2>1. req' = req /\ req[c].device = d /\ req[c].workload = k
    <3>1. req' = req
      BY <1>c
    <3>2. req[c].device = d /\ req[c].workload = k
      BY <1>b
    <3>. QED BY <3>1, <3>2
  <2>2. ASSUME NEW e \in Devices
        PROVE  /\ WaitersOf(e)' = IF e = d THEN WaitersOf(e) \ {c} ELSE WaitersOf(e)
               /\ HoldersOf(e)' = IF e = d THEN HoldersOf(e) \cup {c} ELSE HoldersOf(e)
    <3>1. CASE e = d
      <4>1. WaitersOf(e)' = WaitersOf(e) \ {c}
        BY <1>2, <2>1, <3>1 DEF WaitersOf
      <4>2. HoldersOf(e)' = HoldersOf(e) \cup {c}
        BY <1>2, <2>1, <3>1 DEF HoldersOf
      <4>. QED BY <3>1, <4>1, <4>2
    <3>2. CASE e # d
      <4>1. WaitersOf(e)' = WaitersOf(e)
        BY <1>2, <2>1, <3>2 DEF WaitersOf
      <4>2. HoldersOf(e)' = HoldersOf(e)
        BY <1>2, <2>1, <3>2 DEF HoldersOf
      <4>. QED BY <3>2, <4>1, <4>2
    <3>. QED BY <3>1, <3>2
  <2>3. ASSUME NEW e \in Devices
        PROVE  BackgroundHoldersOf(e)' =
                 IF e = d /\ k = Background THEN BackgroundHoldersOf(e) \cup {c}
                 ELSE BackgroundHoldersOf(e)
    BY <2>1, <2>2 DEF BackgroundHoldersOf
  <2>. QED BY <2>2, <2>3
<1>4. c \in WaitersOf(d) /\ c \notin HoldersOf(d) /\ c \notin BackgroundHoldersOf(d)
  <2>1. c \in WaitersOf(d)
    <3>1. c \in Waiters
      BY <1>2, Zenon
    <3>2. req[c].device = d
      BY <1>b
    <3>. QED BY <3>1, <3>2, Zenon DEF WaitersOf
  <2>2. c \notin HoldersOf(d)
    BY <1>2 DEF HoldersOf
  <2>. QED BY <2>1, <2>2 DEF BackgroundHoldersOf
<1>5. /\ waiting' = waiting - 1 /\ active' = active + 1
      /\ \A e \in Devices :
           /\ waitingByDevice'[e] =
                IF e = d THEN waitingByDevice[e] - 1 ELSE waitingByDevice[e]
           /\ activeByDevice'[e] =
                IF e = d THEN activeByDevice[e] + 1 ELSE activeByDevice[e]
           /\ backgroundByDevice'[e] =
                IF e = d /\ k = Background THEN backgroundByDevice[e] + 1
                ELSE backgroundByDevice[e]
  BY <1>0, <1>b DEF Admit, TypeCounters
<1>6. /\ Cardinality(Waiters') = Cardinality(Waiters) - 1
      /\ Cardinality(WaitersOf(d)') = Cardinality(WaitersOf(d)) - 1
  <2>1. Cardinality(Waiters') = Cardinality(Waiters) - 1
    BY <1>2, FiniteCalls, FS_RemoveElement
  <2>2. WaitersOf(d)' = WaitersOf(d) \ {c}
    BY <1>3
  <2>3. Cardinality(WaitersOf(d)') = Cardinality(WaitersOf(d)) - 1
    BY <1>4, <2>2, FiniteCalls, FS_RemoveElement
  <2>. QED BY <2>1, <2>3
<1>7. /\ Cardinality(Holders') = Cardinality(Holders) + 1
      /\ Cardinality(HoldersOf(d)') = Cardinality(HoldersOf(d)) + 1
  BY <1>2, <1>3, <1>4, FiniteCalls, FS_AddElement
<1>8. k = Background => Cardinality(BackgroundHoldersOf(d)')
                          = Cardinality(BackgroundHoldersOf(d)) + 1
  BY <1>3, <1>4, FiniteCalls, FS_AddElement
<1>. QED BY <1>0, <1>2, <1>3, <1>5, <1>6, <1>7, <1>8 DEF Accounting

(* remove_device takes exactly the waiters of the device off the waiting   *)
(* counters.                                                               *)
LEMMA AccountingRemoveDevice ==
  ASSUME IInv, NEW d \in Devices, RemoveDevice(d)
  PROVE  Accounting'
<1>0. TypeCalls /\ TypeCounters /\ TypeQueues /\ QueueExact /\ Accounting
  BY DEF IInv, TypeOK
<1>1. \A b \in Calls : (\E k \in Workloads : InSeq(queues[k][d], b)) <=> b \in WaitersOf(d)
  <2>1. \A b \in Calls, k \in Workloads :
          InSeq(queues[k][d], b) <=> Queued(b) /\ req[b] = [device |-> d, workload |-> k]
    BY <1>0 DEF QueueExact
  <2>2. \A b \in Calls : Queued(b) => req[b] \in Requests
    BY <1>0 DEF TypeCalls, Queued
  <2>3. ASSUME NEW b \in Calls, b \in WaitersOf(d)
        PROVE  \E k \in Workloads : InSeq(queues[k][d], b)
    <3>1. Queued(b) /\ req[b].device = d
      BY <2>3 DEF WaitersOf, Waiters
    <3>2. req[b] \in Requests
      BY <2>2, <3>1
    <3>3. PICK k \in Workloads : req[b] = [device |-> d, workload |-> k]
      BY <3>1, <3>2 DEF Requests
    <3>. QED BY <2>1, <3>1, <3>3
  <2>4. ASSUME NEW b \in Calls, NEW k \in Workloads, InSeq(queues[k][d], b)
        PROVE  b \in WaitersOf(d)
    <3>1. Queued(b) /\ req[b] = [device |-> d, workload |-> k]
      BY <2>1, <2>4
    <3>2. req[b].device = d
      BY <3>1
    <3>. QED BY <3>1, <3>2 DEF WaitersOf, Waiters
  <2>. QED BY <2>3, <2>4
<1>2. outcome' = [b \in Calls |-> IF b \in WaitersOf(d) THEN "removed" ELSE outcome[b]]
  BY <1>1 DEF RemoveDevice
<1>3. UNCHANGED <<pc, req, active, activeByDevice, backgroundByDevice>>
  BY DEF RemoveDevice, activeVars
<1>4. /\ Waiters' = Waiters \ WaitersOf(d)
      /\ Holders' = Holders
  BY <1>0, <1>2, <1>3 DEF Waiters, Holders, WaitersOf, Queued, Holds, TypeCalls
<1>5. \A e \in Devices :
        /\ WaitersOf(e)' = IF e = d THEN {} ELSE WaitersOf(e)
        /\ HoldersOf(e)' = HoldersOf(e)
        /\ BackgroundHoldersOf(e)' = BackgroundHoldersOf(e)
  BY <1>3, <1>4 DEF WaitersOf, HoldersOf, BackgroundHoldersOf
<1> DEFINE F == {b \in Calls : InSeq(queues[Foreground][d], b)}
           B == {b \in Calls : InSeq(queues[Background][d], b)}
<1>6. WaitersOf(d) = F \cup B
  BY <1>1 DEF Workloads, WaitersOf, Waiters
<1>7. F \cap B = {}
  <2>1. \A b \in Calls, k \in Workloads :
          InSeq(queues[k][d], b) => req[b] = [device |-> d, workload |-> k]
    BY <1>0 DEF QueueExact
  <2>2. Foreground # Background /\ Foreground \in Workloads /\ Background \in Workloads
    BY DEF Foreground, Background, Workloads
  <2>3. ASSUME NEW b \in F \cap B
        PROVE  FALSE
    <3>1. /\ req[b] = [device |-> d, workload |-> Foreground]
          /\ req[b] = [device |-> d, workload |-> Background]
      BY <2>1, <2>2
    <3>2. req[b].workload = Foreground /\ req[b].workload = Background
      BY <3>1
    <3>. QED BY <2>2, <3>2
  <2>. QED BY <2>3
<1>8. /\ Cardinality(F) = Len(queues[Foreground][d]) /\ Cardinality(F) \in Nat
      /\ Cardinality(B) = Len(queues[Background][d]) /\ Cardinality(B) \in Nat
      /\ IsFiniteSet(F) /\ IsFiniteSet(B)
  <2>1. \A k \in Workloads : queues[k][d] \in Seq(Calls) /\ Distinct(queues[k][d])
    <3>1. \A k \in Workloads : queues[k][d] \in Seq(Calls)
      BY <1>0 DEF TypeQueues
    <3>2. \A k \in Workloads : Distinct(queues[k][d])
      BY <1>0 DEF QueueExact
    <3>. QED BY <3>1, <3>2
  <2>2. Foreground \in Workloads /\ Background \in Workloads
    BY DEF Workloads
  <2>3. F \in SUBSET Calls /\ B \in SUBSET Calls
    OBVIOUS
  <2>4. IsFiniteSet(F) /\ IsFiniteSet(B)
    <3> HIDE DEF F, B
    <3>. QED BY <2>3, IdentityAssumption, FS_Subset
  <2>5. Cardinality(F) \in Nat /\ Cardinality(B) \in Nat
    <3> HIDE DEF F, B
    <3>. QED BY <2>4, FS_CardinalityType
  <2>6. \A k \in Workloads :
          Cardinality({b \in Calls : InSeq(queues[k][d], b)}) = Len(queues[k][d])
    BY <2>1, IdentityAssumption, DistinctLen
  <2>. QED BY <2>2, <2>4, <2>5, <2>6
<1>9. Cardinality(WaitersOf(d)) = Len(queues[Foreground][d]) + Len(queues[Background][d])
  <2> HIDE DEF F, B
  <2>1. Cardinality(F \cup B) = Cardinality(F) + Cardinality(B) - Cardinality({})
    BY <1>7, <1>8, FS_Union
  <2>2. Cardinality({}) = 0
    BY FS_EmptySet
  <2>3. PICK m \in Nat, n \in Nat : m = Cardinality(F) /\ n = Cardinality(B)
    BY <1>8
  <2>4. Cardinality(F \cup B) = m + n - 0
    BY <2>1, <2>2, <2>3
  <2>5. Cardinality(F \cup B) = Cardinality(F) + Cardinality(B)
    BY <2>3, <2>4
  <2>. QED BY <1>6, <1>8, <2>5
<1>10. Cardinality(Waiters') = Cardinality(Waiters) - Cardinality(WaitersOf(d))
  <2>1. Waiters \cap WaitersOf(d) = WaitersOf(d)
    BY DEF WaitersOf
  <2>2. Waiters' = Waiters \ WaitersOf(d) /\ IsFiniteSet(Waiters)
    BY <1>4, FiniteCalls
  <2> DEFINE S == Waiters
             T == WaitersOf(d)
  <2>3. IsFiniteSet(S) /\ S \cap T = T /\ Waiters' = S \ T
    BY <2>1, <2>2
  <2> HIDE DEF S, T
  <2>4. Cardinality(S \ T) = Cardinality(S) - Cardinality(S \cap T)
    BY <2>3, FS_Difference, Zenon
  <2>5. Cardinality(Waiters') = Cardinality(S) - Cardinality(T)
    BY <2>3, <2>4, Zenon
  <2>. QED BY <2>5 DEF S, T
<1>11. waiting' = waiting - Len(queues[Foreground][d]) - Len(queues[Background][d])
  BY DEF RemoveDevice
<1>12. waiting' = Cardinality(Waiters')
  <2> HIDE DEF F, B
  <2>1. PICK m \in Nat, n \in Nat : m = Len(queues[Foreground][d]) /\ n = Len(queues[Background][d])
    BY <1>8
  <2>2. waiting = Cardinality(Waiters) /\ waiting \in Int
    BY <1>0 DEF Accounting, TypeCounters
  <2>3. waiting' = waiting - m - n
    BY <1>11, <2>1
  <2>4. Cardinality(WaitersOf(d)) = m + n
    BY <1>9, <2>1
  <2>5. Cardinality(Waiters') = waiting - (m + n)
    BY <1>10, <2>2, <2>4
  <2>6. PICK w \in Int : w = waiting
    BY <2>2
  <2>7. w - m - n = w - (m + n)
    OBVIOUS
  <2>. QED BY <2>3, <2>5, <2>6, <2>7
<1>13. \A e \in Devices : waitingByDevice'[e] = Cardinality(WaitersOf(e)')
  <2>1. CASE \A k \in Workloads : queues[k][d] = <<>>
    <3>1. WaitersOf(d) = {}
      BY <2>1, <1>1 DEF InSeq, WaitersOf, Waiters
    <3>2. waitingByDevice' = waitingByDevice
      BY <1>0, <2>1 DEF RemoveDevice, TypeCounters
    <3>. QED BY <1>0, <1>5, <3>1, <3>2 DEF Accounting
  <2>2. CASE ~\A k \in Workloads : queues[k][d] = <<>>
    <3>1. waitingByDevice' = [waitingByDevice EXCEPT ![d] = 0]
      BY <2>2 DEF RemoveDevice
    <3>. QED BY <1>0, <1>5, <3>1, FS_EmptySet DEF Accounting, TypeCounters
  <2>. QED BY <2>1, <2>2
<1>. QED BY <1>0, <1>3, <1>4, <1>5, <1>12, <1>13 DEF Accounting

(* Every step keeps every counter equal to the number of calls it counts.  *)
LEMMA AccountingStep == IInv /\ [Next]_vars => Accounting'
<1> SUFFICES ASSUME IInv, [Next]_vars PROVE Accounting'
  OBVIOUS
<1>0. TypeCalls /\ Accounting
  BY DEF IInv, TypeOK
<1>1. ASSUME NEW c \in Calls, NEW d \in Devices, NEW k \in Workloads, Acquire(c, d, k)
      PROVE  Accounting'
  BY <1>1, AccountingAcquire
<1>2. ASSUME NEW c \in Calls, TimeOut(c)
      PROVE  Accounting'
  BY <1>2, AccountingTimeOut
<1>3. ASSUME NEW c \in Calls, Release(c)
      PROVE  Accounting'
  BY <1>3, AccountingRelease
<1>4. ASSUME NEW c \in Calls, WaitAgain(c) \/ Return(c) \/ BeginRelease(c)
      PROVE  Accounting'
  <2>1. UNCHANGED <<active, activeByDevice, backgroundByDevice, waiting, waitingByDevice>>
    BY <1>4 DEF WaitAgain, Return, BeginRelease, activeVars, waitVars
  <2>2. \A b \in Calls : /\ Queued(b)' <=> Queued(b)
                         /\ Holds(b)' <=> Holds(b)
                         /\ Queued(b) \/ Holds(b) => req'[b] = req[b]
    BY <1>0, <1>4 DEF WaitAgain, Return, BeginRelease, callVars, Queued, Holds, TypeCalls
  <2>. QED BY <1>0, <2>1, <2>2, AccountingUnchanged
<1>5. ASSUME NEW k \in Workloads, Grant(k)
      PROVE  Accounting'
  BY <1>5, AccountingGrant
<1>6. CASE EndGrant \/ UNCHANGED vars
  <2>1. UNCHANGED <<active, activeByDevice, backgroundByDevice, waiting,
                    waitingByDevice, pc, req, outcome>>
    BY <1>6 DEF EndGrant, vars, callVars, waitVars, activeVars
  <2>2. \A b \in Calls : /\ Queued(b)' <=> Queued(b)
                         /\ Holds(b)' <=> Holds(b)
                         /\ Queued(b) \/ Holds(b) => req'[b] = req[b]
    BY <2>1 DEF Queued, Holds
  <2>. QED BY <1>0, <2>1, <2>2, AccountingUnchanged
<1>7. ASSUME NEW d \in Devices, RemoveDevice(d)
      PROVE  Accounting'
  BY <1>7, AccountingRemoveDevice
<1>. QED BY <1>1, <1>2, <1>3, <1>4, <1>5, <1>6, <1>7 DEF Next

-----------------------------------------------------------------------------
(* Every step keeps the counters within the limits: only Acquire and Grant *)
(* raise one, and each checks the limit of every counter it raises.        *)
LEMMA BoundedStep == IInv /\ [Next]_vars => CountersBounded'
<1> SUFFICES ASSUME IInv, [Next]_vars PROVE CountersBounded'
  OBVIOUS
<1> USE LimitsAssumption
<1>0. TypeCalls /\ TypeCounters /\ TypeQueues /\ CountersBounded
  BY DEF IInv, TypeOK
<1>1. ASSUME NEW c \in Calls, NEW d \in Devices, NEW k \in Workloads, Acquire(c, d, k)
      PROVE  CountersBounded'
  BY <1>0, <1>1 DEF Acquire, QueueFull, activeVars, TypeCounters, CountersBounded
<1>2. ASSUME NEW c \in Calls, TimeOut(c)
      PROVE  CountersBounded'
  <2>1. PICK d \in Devices : d = req[c].device
    BY <1>0, <1>2 DEF TimeOut, Queued, TypeCalls, Requests
  <2>. QED BY <1>0, <1>2, <2>1 DEF TimeOut, activeVars, TypeCounters, CountersBounded
<1>3. ASSUME NEW c \in Calls, Release(c)
      PROVE  CountersBounded'
  <2>1. PICK d \in Devices : d = req[c].device
    BY <1>0, <1>3 DEF Release, TypeCalls, Requests
  <2>. QED BY <1>0, <1>3, <2>1 DEF Release, waitVars, TypeCounters, CountersBounded
<1>4. ASSUME NEW k \in Workloads, Grant(k)
      PROVE  CountersBounded'
  <2>1. PICK i \in DOMAIN roundRobin[k], d \in Devices, c \in Calls :
          d = roundRobin[k][i] /\ CanGrant(d, k) /\ Admit(k, i)
    BY <1>4, GrantFacts
  <2>2. /\ waiting' = waiting - 1 /\ active' = active + 1
        /\ \A e \in Devices :
             /\ waitingByDevice'[e] =
                  IF e = d THEN waitingByDevice[e] - 1 ELSE waitingByDevice[e]
             /\ activeByDevice'[e] =
                  IF e = d THEN activeByDevice[e] + 1 ELSE activeByDevice[e]
             /\ backgroundByDevice'[e] =
                  IF e = d /\ k = Background THEN backgroundByDevice[e] + 1
                  ELSE backgroundByDevice[e]
    BY <1>0, <2>1 DEF Admit, TypeCounters
  <2>3. active < GlobalLimit /\ activeByDevice[d] < DeviceLimit
        /\ (k = Background => backgroundByDevice[d] < BackgroundDeviceLimit)
    BY <2>1 DEF CanGrant
  <2>4. active' <= GlobalLimit /\ waiting' <= GlobalWaitLimit
    BY <1>0, <2>2, <2>3 DEF TypeCounters, CountersBounded
  <2>5. ASSUME NEW e \in Devices
        PROVE  /\ activeByDevice'[e] <= DeviceLimit
               /\ backgroundByDevice'[e] <= BackgroundDeviceLimit
               /\ waitingByDevice'[e] <= DeviceWaitLimit
    BY <1>0, <2>2, <2>3 DEF TypeCounters, CountersBounded
  <2>. QED BY <2>4, <2>5 DEF CountersBounded
<1>5. ASSUME NEW d \in Devices, RemoveDevice(d)
      PROVE  CountersBounded'
  <2>1. PICK m \in Nat, n \in Nat : m = Len(queues[Foreground][d]) /\ n = Len(queues[Background][d])
    BY <1>0 DEF TypeQueues, Workloads
  <2>2. waiting' = waiting - m - n
    BY <1>5, <2>1 DEF RemoveDevice
  <2>3. \A e \in Devices : waitingByDevice'[e] = waitingByDevice[e] \/ waitingByDevice'[e] = 0
    BY <1>0, <1>5 DEF RemoveDevice, TypeCounters
  <2>4. UNCHANGED <<active, activeByDevice, backgroundByDevice>>
    BY <1>5 DEF RemoveDevice, activeVars
  <2>5. PICK w \in Int : w = waiting /\ w <= GlobalWaitLimit
    BY <1>0 DEF TypeCounters, CountersBounded
  <2>6. w - m - n <= GlobalWaitLimit
    BY <2>5
  <2>7. waiting' <= GlobalWaitLimit
    BY <2>2, <2>5, <2>6
  <2>8. \A e \in Devices : waitingByDevice'[e] <= DeviceWaitLimit
    BY <1>0, <2>3 DEF TypeCounters, CountersBounded
  <2>. QED BY <1>0, <2>4, <2>7, <2>8 DEF CountersBounded
<1>6. ASSUME \/ \E c \in Calls : WaitAgain(c) \/ Return(c) \/ BeginRelease(c)
             \/ EndGrant
             \/ UNCHANGED vars
      PROVE  CountersBounded'
  <2>1. UNCHANGED <<active, activeByDevice, backgroundByDevice, waiting, waitingByDevice>>
    BY <1>6 DEF WaitAgain, Return, BeginRelease, EndGrant, vars, activeVars, waitVars
  <2>. QED BY <1>0, <2>1 DEF CountersBounded
<1>. QED BY <1>1, <1>2, <1>3, <1>4, <1>5, <1>6 DEF Next

-----------------------------------------------------------------------------
(* When the loop of _grant_locked has ended there is no waiter left that   *)
(* the limits admit: it would be in a queue, its device in the round robin *)
(* and so at a position the loop could still have stopped at.              *)
LEMMA EndGrantConserves ==
  ASSUME IInv, EndGrant, NEW c \in Calls, Queued(c)
  PROVE  ~CanGrant(req[c].device, req[c].workload)
<1>0. TypeCalls /\ TypeQueues /\ QueueExact /\ RoundRobinExact
  BY DEF IInv, TypeOK
<1>1. PICK d \in Devices, k \in Workloads : req[c] = [device |-> d, workload |-> k]
  BY <1>0 DEF Queued, TypeCalls, Requests
<1>2. InSeq(queues[k][d], c)
  BY <1>0, <1>1 DEF QueueExact
<1>3. queues[k][d] # <<>>
  BY <1>2 DEF InSeq
<1>4. PICK i \in DOMAIN roundRobin[k] : roundRobin[k][i] = d
  BY <1>0, <1>3 DEF RoundRobinExact, InSeq
<1>5. Eligible(k) = {}
  BY DEF EndGrant
<1>6. ~CanGrant(d, k)
  BY <1>4, <1>5 DEF Eligible
<1>7. req[c].device = d /\ req[c].workload = k
  BY <1>1
<1>. QED BY <1>6, <1>7

(* Every step that leaves the lock free leaves no admissible waiter.       *)
LEMMA WorkConservingStep == IInv /\ [Next]_vars => WorkConserving'
<1> SUFFICES ASSUME IInv, [Next]_vars PROVE WorkConserving'
  OBVIOUS
<1>0. TypeCalls /\ TypeLock /\ WorkConserving
  BY DEF IInv, TypeOK
<1>1. ASSUME \/ \E c \in Calls, d \in Devices, k \in Workloads : Acquire(c, d, k)
             \/ \E c \in Calls : TimeOut(c) \/ Release(c)
             \/ \E k \in Workloads : Grant(k)
             \/ \E d \in Devices : RemoveDevice(d)
      PROVE  WorkConserving'
  <2>1. lock' # Free
    BY <1>1, IdentityAssumption DEF Acquire, TimeOut, Release, Grant, RemoveDevice
  <2>. QED BY <2>1 DEF WorkConserving
<1>2. ASSUME \/ \E c \in Calls : WaitAgain(c) \/ Return(c) \/ BeginRelease(c)
             \/ UNCHANGED vars
      PROVE  WorkConserving'
  <2>1. UNCHANGED <<lock, active, activeByDevice, backgroundByDevice>>
    BY <1>2 DEF WaitAgain, Return, BeginRelease, vars, lockVars, activeVars
  <2>2. \A b \in Calls : Queued(b)' => Queued(b) /\ req'[b] = req[b]
    BY <1>0, <1>2 DEF WaitAgain, Return, BeginRelease, vars, callVars, Queued, TypeCalls
  <2>. QED BY <1>0, <2>1, <2>2 DEF WorkConserving, CanGrant
<1>3. CASE EndGrant
  <2>1. UNCHANGED <<pc, req, outcome, active, activeByDevice, backgroundByDevice>>
    BY <1>3 DEF EndGrant, callVars, activeVars
  <2>2. \A b \in Calls : Queued(b) => ~CanGrant(req[b].device, req[b].workload)
    BY <1>3, EndGrantConserves
  <2>. QED BY <2>1, <2>2 DEF WorkConserving, Queued, CanGrant
<1>. QED BY <1>1, <1>2, <1>3 DEF Next

(* Every step that settles a sleeping call's waiter holds the lock and     *)
(* will notify, and the lock is let go only with the notification.         *)
LEMMA SleepersStep == IInv /\ [Next]_vars => SleepersNotified'
<1> SUFFICES ASSUME IInv, [Next]_vars PROVE SleepersNotified'
  OBVIOUS
<1> USE IdentityAssumption
<1>0. TypeCalls /\ TypeLock /\ SleepersNotified
  BY DEF IInv, TypeOK
<1>1. ASSUME NEW c \in Calls, NEW d \in Devices, NEW k \in Workloads, Acquire(c, d, k)
      PROVE  SleepersNotified'
  BY <1>0, <1>1 DEF Acquire, SleepersNotified, TypeCalls, TypeLock
<1>2. ASSUME NEW c \in Calls, TimeOut(c)
      PROVE  SleepersNotified'
  BY <1>0, <1>2 DEF TimeOut, SleepersNotified, TypeCalls, TypeLock
<1>3. ASSUME NEW c \in Calls, Release(c)
      PROVE  SleepersNotified'
  BY <1>0, <1>3 DEF Release, SleepersNotified, TypeCalls, TypeLock
<1>4. ASSUME NEW k \in Workloads, Grant(k)
      PROVE  SleepersNotified'
  BY <1>0, <1>4 DEF Grant, SleepersNotified
<1>5. ASSUME NEW d \in Devices, RemoveDevice(d)
      PROVE  SleepersNotified'
  BY <1>0, <1>5 DEF RemoveDevice, SleepersNotified
<1>6. ASSUME NEW c \in Calls, WaitAgain(c) \/ Return(c) \/ BeginRelease(c)
      PROVE  SleepersNotified'
  BY <1>0, <1>6 DEF WaitAgain, Return, BeginRelease, lockVars, callVars, Queued,
                    SleepersNotified, TypeCalls, TypeLock
<1>7. CASE EndGrant
  BY <1>0, <1>7 DEF EndGrant, callVars, Queued, SleepersNotified
<1>8. CASE UNCHANGED vars
  BY <1>0, <1>8 DEF vars, callVars, lockVars, SleepersNotified
<1>. QED BY <1>1, <1>2, <1>3, <1>4, <1>5, <1>6, <1>7, <1>8 DEF Next

-----------------------------------------------------------------------------
(* The inductive invariant holds in every reachable state, for every set   *)
(* of calls and devices and every value of the limits.                     *)
THEOREM InductiveInvariant == Spec => []IInv
<1>1. IInv /\ [Next]_vars => IInv'
  BY TypeCallsStep, TypeLockStep, TypeCountersStep, TypeTurnsStep, QueuesStep,
     AccountingStep, BoundedStep, WorkConservingStep, SleepersStep
     DEF IInv, TypeOK, QueuesOK
<1>. QED BY <1>1, InitIInv, PTL DEF Spec

(* The state of acquire, release and remove_device always has its type.    *)
THEOREM TypeCorrect == Spec => []TypeOK
<1>1. IInv => TypeOK
  BY DEF IInv
<1>. QED BY <1>1, InductiveInvariant, PTL

(* _active, _waiting and the per-device counters always equal the number   *)
(* of calls they stand for: no underflow error of _release can be raised.  *)
THEOREM AccountingExact == Spec => []Accounting
<1>1. IInv => Accounting
  BY DEF IInv
<1>. QED BY <1>1, InductiveInvariant, PTL

(* No interleaving of acquire, release, time-outs and removals lets more   *)
(* calls hold or wait for a channel than the limits of the constructor.    *)
THEOREM LimitsRespected == Spec => []AdmissionBounded
<1>1. IInv => AdmissionBounded
  BY DEF IInv, Accounting, CountersBounded, AdmissionBounded
<1>. QED BY <1>1, InductiveInvariant, PTL

(* A waiter is in exactly one queue, and its device in the round robin,    *)
(* from acquire until it is granted, removed or timed out.                 *)
THEOREM QueuesExact == Spec => []WaitersExact
<1>1. IInv => WaitersExact
  BY DEF IInv, WaitersExact
<1>. QED BY <1>1, InductiveInvariant, PTL

(* The lock is never let go while a waiter could be granted.               *)
THEOREM NothingGrantableWaits == Spec => []WorkConserving
<1>1. IInv => WorkConserving
  BY DEF IInv
<1>. QED BY <1>1, InductiveInvariant, PTL

(* A call whose waiter is granted or removed is never left asleep.         *)
THEOREM WakeupsDelivered == Spec => []NoLostWakeup
<1>1. IInv => NoLostWakeup
  BY DEF IInv, TypeOK, TypeCalls, TypeLock, SleepersNotified, NoLostWakeup, Queued
<1>. QED BY <1>1, InductiveInvariant, PTL

(* Types, counters and queues agree in every reachable state.              *)
THEOREM StateAlwaysExact == Spec => []StateExact
<1>1. TypeOK /\ Accounting /\ WaitersExact => StateExact
  BY DEF StateExact
<1>. QED BY <1>1, TypeCorrect, AccountingExact, QueuesExact, PTL

(* FOREGROUND_BURST bounds the foreground grants that pass over a          *)
(* grantable background waiter.                                            *)
THEOREM BackgroundBypassBounded == Spec => []BoundedBypass
<1>1. IInv => BoundedBypass
  BY LimitsAssumption DEF IInv, TypeOK, TypeTurns, BoundedBypass
<1>. QED BY <1>1, InductiveInvariant, PTL

(* No grantable waiter is left queued or passed over for longer than a     *)
(* burst, and no waiter that was served is left asleep.                    *)
THEOREM NobodyWaitsInVain == Spec => []NobodyForgotten
<1>1. WorkConserving /\ NoLostWakeup /\ BoundedBypass => NobodyForgotten
  BY DEF NobodyForgotten
<1>. QED BY <1>1, NothingGrantableWaits, WakeupsDelivered, BackgroundBypassBounded, PTL

-----------------------------------------------------------------------------
(* The leases the callers see are those of the holders.                    *)
LEMMA LeasesAreHolders ==
  ASSUME TypeCalls
  PROVE  /\ Leases \in [Calls -> Requests \cup {NoRequest}]
         /\ \A c \in Calls : Leases[c] # NoRequest <=> Holds(c)
         /\ Abstract!Owners = Holders
         /\ \A d \in Devices : /\ Abstract!OwnersOf(d) = HoldersOf(d)
                               /\ Abstract!BackgroundOwnersOf(d) = BackgroundHoldersOf(d)
<1>1. \A c \in Calls : Holds(c) => req[c] \in Requests
  BY DEF TypeCalls, Holds
<1>2. NoRequest \notin Requests
  BY IdentityAssumption DEF Requests, Workloads, Foreground, Background
<1>3. /\ Leases \in [Calls -> Requests \cup {NoRequest}]
      /\ \A c \in Calls : Leases[c] = IF Holds(c) THEN req[c] ELSE NoRequest
  BY <1>1 DEF Leases
<1>4. \A c \in Calls : Leases[c] # NoRequest <=> Holds(c)
  BY <1>1, <1>2, <1>3
<1>5. Abstract!Owners = Holders
  BY <1>4 DEF Abstract!Owners, Holders
<1>6. \A c \in Holders : Leases[c] = req[c]
  BY <1>3 DEF Holders
<1>7. ASSUME NEW d \in Devices
      PROVE  Abstract!OwnersOf(d) = HoldersOf(d)
  BY <1>5, <1>6 DEF Abstract!OwnersOf, HoldersOf
<1>8. ASSUME NEW d \in Devices
      PROVE  Abstract!BackgroundOwnersOf(d) = BackgroundHoldersOf(d)
  BY <1>6, <1>7 DEF Abstract!BackgroundOwnersOf, BackgroundHoldersOf, HoldersOf, Background
<1>. QED BY <1>3, <1>4, <1>5, <1>7, <1>8

(* The instance counts the elements of a set as this module does.          *)
LEMMA SameCardinality == \A S : Abstract!Cardinality(S) = Cardinality(S)
BY DEF Abstract!Cardinality, Cardinality

(* A step that makes no call a holder and takes capacity from none is      *)
(* invisible to the callers.                                               *)
LEMMA LeasesUnchanged ==
  ASSUME \A b \in Calls : /\ Holds(b)' <=> Holds(b)
                          /\ Holds(b) => req'[b] = req[b]
  PROVE  UNCHANGED Leases
BY DEF Leases

(* Every step of the scheduler is an Open, a Close or invisible.           *)
LEMMA RefinementStep == IInv /\ [Next]_vars => [Abstract!Next]_Leases
<1> SUFFICES ASSUME IInv, [Next]_vars PROVE [Abstract!Next]_Leases
  OBVIOUS
<1>0. TypeCalls /\ TypeCounters /\ TypeQueues /\ QueueExact /\ Accounting
  BY DEF IInv, TypeOK
<1>1. ASSUME NEW c \in Calls, NEW d \in Devices, NEW k \in Workloads, Acquire(c, d, k)
      PROVE  UNCHANGED Leases
  <2>1. \A b \in Calls : /\ Holds(b)' <=> Holds(b)
                         /\ Holds(b) => req'[b] = req[b]
    BY <1>0, <1>1 DEF Acquire, Holds, TypeCalls
  <2>. QED BY <2>1, LeasesUnchanged
<1>2. ASSUME NEW c \in Calls, TimeOut(c)
      PROVE  UNCHANGED Leases
  <2>1. \A b \in Calls : /\ Holds(b)' <=> Holds(b)
                         /\ Holds(b) => req'[b] = req[b]
    BY <1>0, <1>2 DEF TimeOut, Holds, Queued, TypeCalls
  <2>. QED BY <2>1, LeasesUnchanged
<1>3. ASSUME NEW c \in Calls, Release(c)
      PROVE  Abstract!Next
  <2>1. /\ \A b \in Calls : /\ Holds(b)' <=> Holds(b) /\ b # c
                            /\ b # c => req'[b] = req[b]
        /\ Holds(c)
    BY <1>0, <1>3 DEF Release, Holds, TypeCalls
  <2>2. Leases' = [Leases EXCEPT ![c] = NoRequest]
    BY <2>1 DEF Leases
  <2>3. Leases[c] # NoRequest
    BY <1>0, <2>1, LeasesAreHolders
  <2>. QED BY <2>2, <2>3 DEF Abstract!Next, Abstract!Close
<1>4. ASSUME NEW c \in Calls, WaitAgain(c) \/ Return(c) \/ BeginRelease(c)
      PROVE  UNCHANGED Leases
  <2>1. \A b \in Calls : /\ Holds(b)' <=> Holds(b)
                         /\ Holds(b) => req'[b] = req[b]
    BY <1>0, <1>4 DEF WaitAgain, Return, BeginRelease, callVars, Holds, TypeCalls
  <2>. QED BY <2>1, LeasesUnchanged
<1>5. ASSUME NEW k \in Workloads, Grant(k)
      PROVE  Abstract!Next
  <2>1. PICK i \in DOMAIN roundRobin[k], d \in Devices, c \in Calls :
          /\ d = roundRobin[k][i] /\ CanGrant(d, k) /\ c = Head(queues[k][d])
          /\ Queued(c) /\ req[c] = [device |-> d, workload |-> k] /\ Admit(k, i)
    BY <1>5, GrantFacts
  <2>2. UNCHANGED <<pc, req>> /\ outcome' = [outcome EXCEPT ![c] = "granted"]
    BY <1>5, <2>1 DEF Grant, Admit
  <2>3. /\ \A b \in Calls : Holds(b)' <=> Holds(b) \/ b = c
        /\ ~Holds(c)
    BY <1>0, <2>1, <2>2 DEF Queued, Holds, TypeCalls
  <2>4. Leases' = [Leases EXCEPT ![c] = req[c]]
    BY <2>2, <2>3 DEF Leases
  <2>5. Leases[c] = NoRequest
    BY <1>0, <2>3, LeasesAreHolders
  <2>6. req[c].device = d /\ req[c].workload = k
    BY <2>1
  <2>7. /\ Cardinality(Abstract!Owners) = active
        /\ Cardinality(Abstract!OwnersOf(d)) = activeByDevice[d]
        /\ Cardinality(Abstract!BackgroundOwnersOf(d)) = backgroundByDevice[d]
    BY <1>0, LeasesAreHolders DEF Accounting
  <2>8. Abstract!Fits(req[c])
    <3>1. /\ Cardinality(Abstract!Owners) < GlobalLimit
          /\ Cardinality(Abstract!OwnersOf(d)) < DeviceLimit
          /\ k = "background" =>
               Cardinality(Abstract!BackgroundOwnersOf(d)) < BackgroundDeviceLimit
      BY <2>1, <2>7 DEF CanGrant, Background
    <3>2. /\ Cardinality(Abstract!OwnersOf(req[c].device)) < DeviceLimit
          /\ req[c].workload = "background" =>
               Cardinality(Abstract!BackgroundOwnersOf(req[c].device)) < BackgroundDeviceLimit
      BY <2>6, <3>1, Zenon
    <3>. QED BY <3>1, <3>2, SameCardinality DEF Abstract!Fits
  <2>9. req[c] \in Abstract!Requests
    BY <2>1 DEF Abstract!Requests, Workloads, Foreground, Background
  <2>. QED BY <2>4, <2>5, <2>8, <2>9 DEF Abstract!Next, Abstract!Open
<1>6. CASE EndGrant \/ UNCHANGED vars
  BY <1>6 DEF EndGrant, vars, callVars, Leases, Holds
<1>7. ASSUME NEW d \in Devices, RemoveDevice(d)
      PROVE  UNCHANGED Leases
  <2>1. \A b \in Calls, k \in Workloads : InSeq(queues[k][d], b) => Queued(b)
    BY <1>0 DEF QueueExact
  <2>2. \A b \in Calls : /\ Holds(b)' <=> Holds(b)
                         /\ Holds(b) => req'[b] = req[b]
    BY <1>0, <1>7, <2>1 DEF RemoveDevice, Holds, Queued, TypeCalls
  <2>. QED BY <2>2, LeasesUnchanged
<1>. QED BY <1>1, <1>2, <1>3, <1>4, <1>5, <1>6, <1>7 DEF Next

(* The scheduler implements Admission: its callers cannot tell it from a   *)
(* component that only opens a lease when the limits have room for it and  *)
(* closes it once.                                                         *)
THEOREM RefinesAdmission == Spec => ImplementsAdmission
<1>1. Init => Abstract!Init
  BY DEF Init, Abstract!Init, Leases, Holds
<1>. QED BY <1>1, RefinementStep, InductiveInvariant, PTL
         DEF Spec, ImplementsAdmission, Abstract!Spec
=============================================================================
