----------------------------- MODULE DataLemmas -----------------------------
(***************************************************************************)
(* Induction over the natural numbers, and what it gives for sequences and *)
(* for the tables of module Tables.  The induction theorems of the library *)
(* take an operator, which no installed prover can instantiate; here the   *)
(* statement to prove is a set of numbers, and the induction rests on <    *)
(* being well-founded.                                                     *)
(***************************************************************************)
EXTENDS Tables, WellFoundedInduction, FiniteSetTheorems, TLAPS

(* A set with 0 that contains the successor of each of its numbers has all *)
(* natural numbers.                                                        *)
LEMMA SetInduction ==
  ASSUME NEW S, 0 \in S, \A n \in Nat : n \in S => n + 1 \in S
  PROVE  \A n \in Nat : n \in S
<1> DEFINE R == OpToRel(<, Nat)
<1> DEFINE T == {n \in Nat : n \notin S}
<1>1. IsWellFoundedOn(R, Nat)
  BY NatLessThanWellFounded
<1>2. \A x, y \in Nat : <<x, y>> \in R <=> x < y
  BY DEF OpToRel
<1> HIDE DEF R
<1>3. SUFFICES ASSUME T # {} PROVE FALSE
  OBVIOUS
<1>4. PICK x \in T : \A y \in T : ~(<<y, x>> \in R)
  BY <1>1, <1>3, WFMin
<1>5. x \in Nat /\ x # 0 /\ x - 1 \in Nat /\ x - 1 < x /\ (x - 1) + 1 = x
  BY <1>4
<1>6. x - 1 \in S
  BY <1>2, <1>4, <1>5
<1>7. QED BY <1>4, <1>5, <1>6

(* n steps, each a function on X. *)
Steps(n, X) == [1 .. n -> [X -> X]]

(* g[i] is what the first i steps make of x0. *)
Iterates(g, n, X, x0, next) ==
  g \in [0 .. n -> X] /\ g[0] = x0 /\ \A i \in 1 .. n : g[i] = next[i][g[i - 1]]

(* Steps can be taken one after the other, any number of times. *)
LEMMA Iteration ==
  ASSUME NEW n \in Nat, NEW X, NEW x0 \in X, NEW next \in Steps(n, X)
  PROVE  \E g : Iterates(g, n, X, x0, next)
<1>0. SUFFICES ASSUME next \in [1 .. n -> [X -> X]]
               PROVE  \E g \in [0 .. n -> X] : g[0] = x0 /\ \A i \in 1 .. n : g[i] = next[i][g[i - 1]]
  BY DEF Steps, Iterates
<1> DEFINE Good(m, g) == g \in [0 .. m -> X] /\ g[0] = x0 /\ \A i \in 1 .. m : g[i] = next[i][g[i - 1]]
<1> DEFINE S == {m \in Nat : m <= n => \E g \in [0 .. m -> X] : Good(m, g)}
<1>1. 0 \in S
  <2>1. Good(0, [i \in 0 .. 0 |-> x0])
    OBVIOUS
  <2>2. QED BY <2>1
<1>2. ASSUME NEW m \in Nat, m \in S PROVE m + 1 \in S
  <2>1. SUFFICES ASSUME m + 1 <= n PROVE \E g \in [0 .. m + 1 -> X] : Good(m + 1, g)
    OBVIOUS
  <2>2. PICK g : Good(m, g)
    BY <1>2, <2>1
  <2> DEFINE h == [i \in 0 .. m + 1 |-> IF i = m + 1 THEN next[m + 1][g[m]] ELSE g[i]]
  <2>3. m + 1 \in 1 .. n /\ m \in 0 .. m /\ g[m] \in X /\ next[m + 1][g[m]] \in X
    BY <1>0, <2>1, <2>2
  <2>4. h \in [0 .. m + 1 -> X]
    BY <2>2, <2>3
  <2>5. h[0] = x0 
    BY <2>2
  <2>6. ASSUME NEW i \in 1 .. m + 1 PROVE h[i] = next[i][h[i - 1]]
    <3>1. CASE i = m + 1
      BY <2>3, <3>1
    <3>2. CASE i # m + 1
      <4>1. i \in 1 .. m /\ i - 1 \in 0 .. m /\ i \in 0 .. m + 1 /\ i - 1 \in 0 .. m + 1 /\ i - 1 # m + 1
        BY <3>2
      <4>2. h[i] = g[i] /\ h[i - 1] = g[i - 1]
        BY <3>2, <4>1
      <4>3. QED BY <2>2, <4>1, <4>2
    <3>3. QED BY <3>1, <3>2
  <2>7. QED BY <2>4, <2>5, <2>6
<1> HIDE DEF S
<1>3. \A m \in Nat : m \in S
  BY <1>1, <1>2, SetInduction
<1>4. QED BY <1>3 DEF S

-----------------------------------------------------------------------------
(* No key is listed twice. *)
Distinct(tab) == \A i, j \in 1 .. Len(tab) : tab[i] = tab[j] => i = j

(* k[i] is what Without keeps of the first i keys. *)
Keeps(k, E, tab, gone) ==
  /\ k \in [0 .. Len(tab) -> Seq(E)]
  /\ k[0] = <<>> /\ Without(tab, gone) = k[Len(tab)]
  /\ \A i \in 1 .. Len(tab) : k[i] = IF tab[i] \in gone THEN k[i - 1] ELSE Append(k[i - 1], tab[i])

(* The recursive function of Without is defined for every table. *)
LEMMA WithoutRec ==
  ASSUME NEW E, NEW tab \in Seq(E), NEW gone
  PROVE  \E k : Keeps(k, E, tab, gone)
<1> DEFINE n == Len(tab)
<1> DEFINE next == [i \in 1 .. n |-> [s \in Seq(E) |-> IF tab[i] \in gone THEN s ELSE Append(s, tab[i])]]
<1> DEFINE f(g) == [i \in 0 .. n |-> IF i = 0 THEN <<>> ELSE IF tab[i] \in gone THEN g[i - 1] ELSE Append(g[i - 1], tab[i])]
<1>1. n \in Nat /\ \A i \in 1 .. n : tab[i] \in E
  OBVIOUS
<1>2. next \in [1 .. n -> [Seq(E) -> Seq(E)]] /\ <<>> \in Seq(E)
  BY <1>1
<1> HIDE DEF n, next
<1>3. \E g \in [0 .. n -> Seq(E)] : g[0] = <<>> /\ \A i \in 1 .. n : g[i] = next[i][g[i - 1]]
  <2> DEFINE X == Seq(E)
  <2> DEFINE x0 == <<>>
  <2>1. n \in Nat /\ x0 \in X /\ next \in Steps(n, X)
    BY <1>1, <1>2 DEF Steps
  <2> HIDE DEF X, x0
  <2>2. \E g : Iterates(g, n, X, x0, next)
    BY <2>1, Iteration
  <2>3. QED BY <2>2 DEF X, x0, Iterates
<1>3a. PICK g \in [0 .. n -> Seq(E)] : g[0] = <<>> /\ \A i \in 1 .. n : g[i] = next[i][g[i - 1]]
  BY <1>3
<1>4. \A i \in 1 .. n : i - 1 \in 0 .. n /\ g[i - 1] \in Seq(E)
  BY <1>1, <1>3a
<1>5. \A i \in 1 .. n : g[i] = IF tab[i] \in gone THEN g[i - 1] ELSE Append(g[i - 1], tab[i])
  BY <1>3a, <1>4 DEF next
<1>6. g = f(g)
  <2>1. \A i \in 0 .. n : g[i] = IF i = 0 THEN <<>> ELSE IF tab[i] \in gone THEN g[i - 1] ELSE Append(g[i - 1], tab[i])
    <3>1. \A i \in 0 .. n : i = 0 \/ (i # 0 /\ i \in 1 .. n)
      BY <1>1
    <3>2. QED BY <1>3a, <1>5, <3>1, Zenon
  <2>2. g = [i \in 0 .. n |-> g[i]]
    BY <1>3a
  <2>3. QED BY <2>1, <2>2, Zenon
<1> DEFINE kept == CHOOSE h : h = f(h)
<1>7. kept = f(kept)
  BY <1>6
<1>8. Without(tab, gone) = kept[n]
  BY DEF Without, n
<1> HIDE DEF kept
<1>9. kept[0] = <<>> /\ \A i \in 1 .. n : kept[i] = IF tab[i] \in gone THEN kept[i - 1] ELSE Append(kept[i - 1], tab[i])
  <2>1. \A i \in 0 .. n : kept[i] = IF i = 0 THEN <<>> ELSE IF tab[i] \in gone THEN kept[i - 1] ELSE Append(kept[i - 1], tab[i])
    BY <1>7, Zenon
  <2>2. QED BY <1>1, <2>1
<1>10. kept = [i \in 0 .. n |-> kept[i]]
  BY <1>7
<1> HIDE DEF f
<1> DEFINE S == {i \in Nat : i <= n => kept[i] \in Seq(E)}
<1>11. 0 \in S
  BY <1>2, <1>9, Zenon
<1>12. ASSUME NEW i \in Nat, i \in S PROVE i + 1 \in S
  <2>1. SUFFICES ASSUME i + 1 <= n PROVE kept[i + 1] \in Seq(E)
    OBVIOUS
  <2>2. i + 1 \in 1 .. n /\ (i + 1) - 1 = i /\ kept[i] \in Seq(E)
    BY <1>1, <1>12, <2>1
  <2>3. kept[i + 1] = IF tab[i + 1] \in gone THEN kept[i] ELSE Append(kept[i], tab[i + 1])
    BY <1>9, <2>2
  <2>4. QED BY <1>1, <2>2, <2>3
<1> HIDE DEF S
<1>13. \A i \in Nat : i \in S
  BY <1>11, <1>12, SetInduction
<1>14. \A i \in 0 .. n : kept[i] \in Seq(E)
  BY <1>1, <1>13 DEF S
<1>15. kept \in [0 .. n -> Seq(E)]
  BY <1>10, <1>14
<1>16. QED
  BY <1>8, <1>9, <1>15, Zenon DEF n, Keeps

(* Without keeps the keys that are not in gone, each once if the table     *)
(* lists each once.                                                        *)
LEMMA WithoutFacts ==
  ASSUME NEW E, NEW tab \in Seq(E), NEW gone
  PROVE  /\ Without(tab, gone) \in Seq(E) /\ Len(Without(tab, gone)) <= Len(tab)
         /\ Listed(Without(tab, gone)) = Listed(tab) \ gone
         /\ Distinct(tab) => Distinct(Without(tab, gone))
<1> DEFINE n == Len(tab)
<1>0. PICK k : Keeps(k, E, tab, gone)
  BY WithoutRec
<1>1. /\ k \in [0 .. Len(tab) -> Seq(E)]
      /\ k[0] = <<>> /\ Without(tab, gone) = k[Len(tab)]
      /\ \A i \in 1 .. Len(tab) : k[i] = IF tab[i] \in gone THEN k[i - 1] ELSE Append(k[i - 1], tab[i])
  BY <1>0 DEF Keeps
<1>2. n \in Nat /\ \A i \in 1 .. n : tab[i] \in E
  OBVIOUS
<1> DEFINE Good(i) == /\ Len(k[i]) <= i
                      /\ \A j \in 1 .. Len(k[i]) : \E l \in 1 .. i : tab[l] = k[i][j] /\ tab[l] \notin gone
                      /\ \A l \in 1 .. i : tab[l] \notin gone => \E j \in 1 .. Len(k[i]) : k[i][j] = tab[l]
                      /\ Distinct(tab) => Distinct(k[i])
<1> DEFINE S == {i \in Nat : i <= n => Good(i)}
<1>3. 0 \in S
  <2>1. Good(0)
    BY <1>1 DEF Distinct
  <2>2. QED BY <2>1
<1>4. ASSUME NEW i \in Nat, i \in S PROVE i + 1 \in S
  <2>1. SUFFICES ASSUME i + 1 <= n PROVE Good(i + 1)
    OBVIOUS
  <2>2. Good(i)
    BY <1>2, <1>4, <2>1
  <2>3. /\ i + 1 \in 1 .. n /\ (i + 1) - 1 = i /\ i \in 0 .. n /\ k[i] \in Seq(E)
        /\ 1 .. i \subseteq 1 .. n /\ \A l \in 1 .. i + 1 : l \in 1 .. i \/ l = i + 1
    BY <1>1, <1>2, <2>1
  <2>4. k[i + 1] = IF tab[i + 1] \in gone THEN k[i] ELSE Append(k[i], tab[i + 1])
    BY <1>1, <2>3
  <2>5. CASE tab[i + 1] \in gone
    <3>1. k[i + 1] = k[i]
      BY <2>4, <2>5
    <3>2. Len(k[i + 1]) <= i + 1
      BY <2>2, <2>3, <3>1
    <3>3. QED BY <2>2, <2>3, <2>5, <3>1, <3>2
  <2>6. CASE tab[i + 1] \notin gone
    <3> DEFINE a == k[i]
    <3> DEFINE b == k[i + 1]
    <3>1. b = Append(a, tab[i + 1]) /\ tab[i + 1] \in E
      BY <1>2, <2>3, <2>4, <2>6
    <3>2. /\ Len(b) = Len(a) + 1 /\ b[Len(a) + 1] = tab[i + 1] /\ Len(a) \in Nat
          /\ \A j \in 1 .. Len(a) : b[j] = a[j]
      BY <2>3, <3>1
    <3> HIDE DEF a, b
    <3>3. Len(b) <= i + 1
      BY <2>2, <3>2 DEF a
    <3>4. ASSUME NEW j \in 1 .. Len(b) PROVE \E l \in 1 .. i + 1 : tab[l] = b[j] /\ tab[l] \notin gone
      <4>1. CASE j = Len(a) + 1
        BY <2>6, <3>2, <4>1
      <4>2. CASE j \in 1 .. Len(a)
        <5>1. PICK l \in 1 .. i : tab[l] = a[j] /\ tab[l] \notin gone
          BY <2>2, <4>2 DEF a
        <5>2. l \in 1 .. i + 1
          OBVIOUS
        <5>3. QED BY <3>2, <4>2, <5>1, <5>2
      <4>3. QED BY <3>2, <4>1, <4>2
    <3>5. ASSUME NEW l \in 1 .. i + 1, tab[l] \notin gone PROVE \E j \in 1 .. Len(b) : b[j] = tab[l]
      <4>1. CASE l = i + 1
        BY <3>2, <4>1
      <4>2. CASE l \in 1 .. i
        <5>1. PICK j \in 1 .. Len(a) : a[j] = tab[l]
          BY <2>2, <3>5, <4>2 DEF a
        <5>2. j \in 1 .. Len(b) /\ b[j] = tab[l]
          BY <3>2, <5>1
        <5>3. QED BY <5>2
      <4>3. QED BY <2>3, <4>1, <4>2
    <3>6. ASSUME Distinct(tab) PROVE Distinct(b)
      <4>1. Distinct(a)
        BY <2>2, <3>6 DEF a
      <4>2. ASSUME NEW j \in 1 .. Len(a) PROVE a[j] # tab[i + 1]
        <5>1. PICK l \in 1 .. i : tab[l] = a[j]
          BY <2>2 DEF a
        <5>2. l \in 1 .. Len(tab) /\ i + 1 \in 1 .. Len(tab) /\ l # i + 1
          BY <2>3
        <5>3. QED BY <3>6, <5>1, <5>2 DEF Distinct
      <4>3. \A j \in 1 .. Len(b) : j \in 1 .. Len(a) \/ j = Len(a) + 1
        BY <3>2
      <4>4. QED BY <3>2, <4>1, <4>2, <4>3 DEF Distinct
    <3>7. QED BY <3>3, <3>4, <3>5, <3>6 DEF b
  <2>7. QED BY <2>5, <2>6
<1> HIDE DEF S
<1>5. \A i \in Nat : i \in S
  BY <1>3, <1>4, SetInduction
<1>6. Good(n) /\ k[n] \in Seq(E) /\ Without(tab, gone) = k[n]
  <2>1. n \in S /\ n \in 0 .. n /\ n <= n
    BY <1>2, <1>5
  <2>2. Good(n)
    BY <2>1, Zenon DEF S
  <2>3. QED BY <1>1, <2>1, <2>2
<1>7. Listed(k[n]) = Listed(tab) \ gone
  <2>1. DOMAIN tab = 1 .. n /\ DOMAIN k[n] = 1 .. Len(k[n])
    BY <1>6
  <2>2. ASSUME NEW x, x \in Listed(k[n]) PROVE x \in Listed(tab) \ gone
    <3>1. PICK j \in 1 .. Len(k[n]) : k[n][j] = x
      BY <2>1, <2>2, Zenon DEF Listed
    <3>2. PICK l \in 1 .. n : tab[l] = x /\ tab[l] \notin gone
      BY <1>6, <3>1, Zenon
    <3>3. QED BY <2>1, <3>2, Zenon DEF Listed
  <2>3. ASSUME NEW x, x \in Listed(tab) \ gone PROVE x \in Listed(k[n])
    <3>1. PICK l \in 1 .. n : tab[l] = x /\ tab[l] \notin gone
      BY <2>1, <2>3, Zenon DEF Listed
    <3>2. PICK j \in 1 .. Len(k[n]) : k[n][j] = x
      BY <1>6, <3>1, Zenon
    <3>3. QED BY <2>1, <3>2, Zenon DEF Listed
  <2>4. QED BY <2>2, <2>3, Zenon
<1>8. QED BY <1>6, <1>7

(* A table that lists each of its keys once is as long as it has keys.     *)
LEMMA DistinctCount ==
  ASSUME NEW E, NEW tab \in Seq(E), Distinct(tab)
  PROVE  IsFiniteSet(Listed(tab)) /\ Cardinality(Listed(tab)) = Len(tab)
<1> DEFINE n == Len(tab)
<1>1. n \in Nat /\ DOMAIN tab = 1 .. n /\ Listed(tab) = {tab[i] : i \in 1 .. n}
  BY DEF Listed
<1> DEFINE b == [i \in 1 .. n |-> tab[i]]
<1>2. b \in Bijection(1 .. n, Listed(tab))
  <2>1. b \in [1 .. n -> Listed(tab)]
    BY <1>1
  <2>2. b \in Injection(1 .. n, Listed(tab))
    BY <1>1, <2>1 DEF Injection, Distinct, IsInjective
  <2>3. b \in Surjection(1 .. n, Listed(tab))
    BY <1>1, <2>1 DEF Surjection
  <2>4. QED BY <2>2, <2>3 DEF Bijection
<1>3. IsFiniteSet(1 .. n) /\ Cardinality(1 .. n) = n
  BY <1>1, FS_Interval
<1>4. QED BY <1>2, <1>3, FS_Bijection DEF ExistsBijection

(* A sequence with one more entry. *)
LEMMA AppendEntries ==
  ASSUME NEW E, NEW h \in Seq(E), NEW m \in E
  PROVE  /\ Append(h, m) \in Seq(E) /\ Append(h, m) # <<>>
         /\ Len(Append(h, m)) = Len(h) + 1 /\ Len(h) \in Nat
         /\ Append(h, m)[Len(h) + 1] = m
         /\ \A i \in 1 .. Len(h) : Append(h, m)[i] = h[i] /\ i \in 1 .. Len(h) + 1
         /\ \A i \in 1 .. Len(h) + 1 : i \in 1 .. Len(h) \/ i = Len(h) + 1
<1>1. /\ Append(h, m) \in Seq(E) /\ Len(Append(h, m)) = Len(h) + 1 /\ Len(h) \in Nat
      /\ Append(h, m)[Len(h) + 1] = m
      /\ \A i \in 1 .. Len(h) : Append(h, m)[i] = h[i]
  OBVIOUS
<1>2. Append(h, m) # <<>>
  BY <1>1
<1>3. /\ \A i \in 1 .. Len(h) : i \in 1 .. Len(h) + 1
      /\ \A i \in 1 .. Len(h) + 1 : i \in 1 .. Len(h) \/ i = Len(h) + 1
  BY <1>1
<1>4. QED BY <1>1, <1>2, <1>3

(* A key that is not listed joins the end of the table. *)
LEMMA AppendListed ==
  ASSUME NEW E, NEW tab \in Seq(E), NEW s \in E, s \notin Listed(tab), Distinct(tab)
  PROVE  /\ Append(tab, s) \in Seq(E) /\ Len(Append(tab, s)) = Len(tab) + 1
         /\ Distinct(Append(tab, s)) /\ Listed(Append(tab, s)) = Listed(tab) \cup {s}
<1> DEFINE g == Append(tab, s)
<1>1. /\ g \in Seq(E) /\ Len(g) = Len(tab) + 1 /\ Len(tab) \in Nat /\ g[Len(tab) + 1] = s
      /\ \A i \in 1 .. Len(tab) : g[i] = tab[i] /\ i \in 1 .. Len(tab) + 1
      /\ \A i \in 1 .. Len(tab) + 1 : i \in 1 .. Len(tab) \/ i = Len(tab) + 1
  BY AppendEntries
<1>2. DOMAIN tab = 1 .. Len(tab) /\ DOMAIN g = 1 .. Len(g)
  BY <1>1
<1> HIDE DEF g
<1>3. \A i \in 1 .. Len(tab) : tab[i] # s
  BY <1>2 DEF Listed
<1>4. Distinct(g)
  BY <1>1, <1>3 DEF Distinct
<1>5. Listed(g) = Listed(tab) \cup {s}
  <2>1. \A x \in Listed(g) : x \in Listed(tab) \cup {s}
    BY <1>1, <1>2 DEF Listed
  <2>2. \A x \in Listed(tab) : x \in Listed(g)
    <3>1. ASSUME NEW i \in 1 .. Len(tab) PROVE tab[i] \in Listed(g)
      <4>1. i \in 1 .. Len(g) /\ g[i] = tab[i]
        BY <1>1
      <4>2. QED BY <1>2, <4>1 DEF Listed
    <3>2. QED BY <1>2, <3>1 DEF Listed
  <2>3. s \in Listed(g)
    <3>1. Len(tab) + 1 \in 1 .. Len(g)
      BY <1>1
    <3>2. QED BY <1>1, <1>2, <3>1 DEF Listed
  <2>4. QED BY <2>1, <2>2, <2>3
<1>6. QED BY <1>1, <1>4, <1>5 DEF g
=============================================================================
