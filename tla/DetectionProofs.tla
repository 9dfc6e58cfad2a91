-------------------------- MODULE DetectionProofs --------------------------
(***************************************************************************)
(* The sliding window, and what detection makes of a log: the alerts of    *)
(* the rules over one batch and the list they are added to, for every log, *)
(* every way to cut it into batches, and every limit of the rules.         *)
(***************************************************************************)
EXTENDS SlidingWindow, Detection, FiniteSetTheorems, WellFoundedInduction, TLAPS

(* Numbers.                                                                *)

LEMMA LeastNatural ==
    ASSUME NEW S, S \subseteq Nat, S # {}
    PROVE  \E x \in S : \A y \in S : x <= y
<1> DEFINE less == {ss \in Nat \X Nat : ss[1] < ss[2]}
<1>1. IsWellFoundedOn(less, Nat)
  BY NatLessThanWellFounded DEF OpToRel
<1>2. PICK x \in S : \A y \in S : <<y, x>> \notin less
  BY <1>1, WFMin
<1>3. ASSUME NEW y \in S
      PROVE  x <= y
  <2>1. x \in Nat /\ y \in Nat
    OBVIOUS
  <2>2. ~ (y < x)
    BY <1>2, <2>1
  <2> QED
    BY <2>1, <2>2
<1> QED
  BY <1>3

(* What holds of 0 and of the next number holds of all of them.            *)
LEMMA Stepwise ==
    ASSUME NEW n \in Nat, NEW S, 0 \in S,
           \A i \in 0 .. n - 1 : i \in S => i + 1 \in S
    PROVE  \A i \in 0 .. n : i \in S
<1> DEFINE missing == (0 .. n) \ S
<1>1. SUFFICES ASSUME missing # {} PROVE FALSE
  OBVIOUS
<1>2. missing \subseteq Nat
  OBVIOUS
<1>3. PICK i \in missing : \A j \in missing : i <= j
  BY <1>1, <1>2, LeastNatural
<1>4. i \in 1 .. n /\ i - 1 \in 0 .. n - 1 /\ i \notin S
  OBVIOUS
<1>5. i - 1 \in S
  <2>1. i - 1 \notin missing
    <3> HIDE DEF missing
    <3> QED  BY <1>3, <1>4
  <2> QED  BY <1>4, <2>1
<1>6. (i - 1) + 1 \in S
  BY <1>4, <1>5
<1> QED
  BY <1>4, <1>6

LEMMA IntervalFacts ==
    ASSUME NEW n \in Nat
    PROVE  IsFiniteSet(1 .. n) /\ Cardinality(1 .. n) = n
<1>1. 1 \in Int /\ n \in Int
  OBVIOUS
<1>2. IsFiniteSet(1 .. n) /\ Cardinality(1 .. n) = IF 1 > n THEN 0 ELSE n - 1 + 1
  BY <1>1, FS_Interval
<1> QED
  BY <1>2

LEMMA SmallestAndLargest ==
    ASSUME NEW n \in Nat, NEW S, S \subseteq 1 .. n, S # {}
    PROVE  /\ Min(S) \in S /\ \A x \in S : Min(S) <= x
           /\ Max(S) \in S /\ \A x \in S : x <= Max(S)
<1>1. \E x \in S : \A y \in S : x <= y
  <2>1. S \subseteq Nat
    OBVIOUS
  <2> QED  BY <2>1, LeastNatural
<1>2. \E x \in S : \A y \in S : x >= y
  <2> DEFINE bounds == {b \in Nat : \A y \in S : y <= b}
  <2>1. n \in bounds /\ bounds \subseteq Nat
    OBVIOUS
  <2>2. PICK b \in bounds : \A c \in bounds : b <= c
    BY <2>1, LeastNatural
  <2>3. b \in Nat /\ \A y \in S : y <= b
    BY <2>2
  <2>4. ASSUME b \notin S PROVE FALSE
    <3>1. \A y \in S : y \in Nat /\ y >= 1 /\ y < b
      BY <2>3, <2>4
    <3>2. PICK y \in S : TRUE
      OBVIOUS
    <3>3. b - 1 \in Nat
      BY <2>3, <3>1, <3>2
    <3>4. b - 1 \in bounds
      BY <2>3, <3>1, <3>3
    <3> HIDE DEF bounds
    <3>5. b <= b - 1
      BY <2>2, <3>4
    <3> QED  BY <2>3, <3>5
  <2>5. \A y \in S : b >= y
    BY <2>3
  <2> QED  BY <2>4, <2>5
<1> QED
  BY <1>1, <1>2 DEF Min, Max

(* A set has subsets of every smaller size.                                *)
LEMMA SubsetOfSize ==
    ASSUME NEW S, IsFiniteSet(S), NEW n \in Nat, n <= Cardinality(S)
    PROVE  \E T \in SUBSET S : Cardinality(T) = n
<1> DEFINE sizes == {m \in Nat : m >= n /\ \E T \in SUBSET S : Cardinality(T) = m}
<1>1. Cardinality(S) \in sizes
  BY FS_CardinalityType
<1>2. PICK m \in sizes : \A k \in sizes : m <= k
  BY <1>1, LeastNatural
<1>3. PICK T \in SUBSET S : Cardinality(T) = m
  OBVIOUS
<1>4. m \in Nat /\ m >= n
  OBVIOUS
<1>5. ASSUME m # n PROVE FALSE
  <2>1. m >= 1 /\ m - 1 >= n /\ m - 1 \in Nat
    BY <1>4, <1>5
  <2>2. IsFiniteSet(T) /\ T # {}
    BY <1>3, <2>1, FS_Subset, FS_EmptySet
  <2>3. PICK x \in T : TRUE
    BY <2>2
  <2>4. Cardinality(T \ {x}) = m - 1
    BY <1>3, <2>2, FS_RemoveElement
  <2>5. m - 1 \in sizes
    BY <2>1, <2>4
  <2> HIDE DEF sizes
  <2> QED  BY <1>2, <1>4, <2>5
<1> QED
  BY <1>3, <1>5

(* Different elements of S with different images in U.                     *)
LEMMA CountedInto ==
    ASSUME NEW S, NEW U, IsFiniteSet(U), NEW f,
           \A i \in S : f[i] \in U,
           \A i, j \in S : i # j => f[i] # f[j]
    PROVE  Cardinality(S) <= Cardinality(U)
<1> DEFINE g == [i \in S |-> f[i]]
<1>1. g \in Injection(S, U)
  BY DEF Injection, IsInjective
<1> QED
  BY <1>1, FS_Injection

-----------------------------------------------------------------------------
(* Lists.                                                                  *)

IsList(s) == s \in Seq(ToSet(s))

LEMMA ListFacts ==
    ASSUME NEW s, IsList(s)
    PROVE  /\ Len(s) \in Nat /\ DOMAIN s = 1 .. Len(s)
           /\ IsFiniteSet(DOMAIN s)
           /\ \A i \in 1 .. Len(s) : s[i] \in ToSet(s)
<1>1. Len(s) \in Nat /\ DOMAIN s = 1 .. Len(s)
  BY DEF IsList
<1> QED
  BY <1>1, IntervalFacts DEF ToSet

LEMMA ListMade ==
    ASSUME NEW n \in Nat, NEW s, DOMAIN s = 1 .. n, s = [i \in 1 .. n |-> s[i]]
    PROVE  IsList(s) /\ Len(s) = n
<1>1. s \in [1 .. n -> ToSet(s)]
  BY DEF ToSet
<1>2. s \in Seq(ToSet(s))
  BY <1>1
<1> QED
  BY <1>1, <1>2 DEF IsList

LEMMA Concatenated ==
    ASSUME NEW s, NEW t, IsList(s), IsList(t)
    PROVE  /\ IsList(s \o t)
           /\ ToSet(s \o t) = ToSet(s) \union ToSet(t)
           /\ Len(s \o t) = Len(s) + Len(t)
           /\ \A i \in 1 .. Len(s) : (s \o t)[i] = s[i]
           /\ \A i \in 1 .. Len(t) : (s \o t)[Len(s) + i] = t[i]
<1> DEFINE all == ToSet(s) \union ToSet(t)
<1>1. s \in Seq(all) /\ t \in Seq(all)
  <2>1. ToSet(s) \subseteq all /\ ToSet(t) \subseteq all
    OBVIOUS
  <2>2. s \in [1 .. Len(s) -> ToSet(s)] /\ t \in [1 .. Len(t) -> ToSet(t)]
        /\ Len(s) \in Nat /\ Len(t) \in Nat
    BY DEF IsList
  <2>3. s \in [1 .. Len(s) -> all] /\ t \in [1 .. Len(t) -> all]
    BY <2>1, <2>2
  <2> HIDE DEF all
  <2> QED  BY <2>2, <2>3
<1>2. Len(s) \in Nat /\ Len(t) \in Nat /\ DOMAIN s = 1 .. Len(s) /\ DOMAIN t = 1 .. Len(t)
  BY ListFacts
<1> HIDE DEF all
<1>3. s \o t \in Seq(all) /\ Len(s \o t) = Len(s) + Len(t)
  BY <1>1
<1>4. \A i \in 1 .. Len(s) : (s \o t)[i] = s[i]
  BY <1>1, <1>2
<1>5. \A i \in 1 .. Len(t) : (s \o t)[Len(s) + i] = t[i]
  BY <1>1, <1>2
<1>6. ToSet(s \o t) = all
  <2>1. DOMAIN (s \o t) = 1 .. Len(s) + Len(t)
    BY <1>2, <1>3
  <2>2. ASSUME NEW i \in DOMAIN (s \o t)
        PROVE  (s \o t)[i] \in all
    BY <1>3, <2>2
  <2>3. ASSUME NEW i \in DOMAIN s
        PROVE  s[i] \in ToSet(s \o t)
    BY <1>2, <1>4, <2>1, <2>3 DEF ToSet
  <2>4. ASSUME NEW i \in DOMAIN t
        PROVE  t[i] \in ToSet(s \o t)
    <3>1. i \in 1 .. Len(t) /\ Len(s) + i \in DOMAIN (s \o t)
      BY <1>2, <2>1, <2>4
    <3> QED  BY <1>5, <3>1 DEF ToSet
  <2> QED  BY <2>2, <2>3, <2>4 DEF ToSet, all
<1> QED
  BY <1>3, <1>4, <1>5, <1>6 DEF IsList, all

(* pos lists the members of P, each once, and list has the entries of s    *)
(* at these.                                                               *)
Lists(list, s, pos, P) ==
    /\ Cardinality(P) \in Nat
    /\ list = [n \in 1 .. Cardinality(P) |-> s[pos[n]]]
    /\ pos \in [1 .. Cardinality(P) -> P]
    /\ \A m, n \in 1 .. Cardinality(P) : m # n => pos[m] # pos[n]
    /\ \A i \in P : \E n \in 1 .. Cardinality(P) : pos[n] = i

(* upTo gives every member of P those that do not come after it.           *)
Ranks(upTo, P) ==
    /\ DOMAIN upTo = P
    /\ \A i \in P : i \in upTo[i] /\ upTo[i] \subseteq P
    /\ \A i, j \in P : i # j =>
          \/ upTo[i] \subseteq upTo[j] /\ j \notin upTo[i]
          \/ upTo[j] \subseteq upTo[i] /\ i \notin upTo[j]

InOrder(pos, upTo, P) ==
    \A m, n \in 1 .. Cardinality(P) : m < n => upTo[pos[m]] \subseteq upTo[pos[n]]

LEMMA ArrangedLists ==
    ASSUME NEW s, NEW P, IsFiniteSet(P), NEW upTo, Ranks(upTo, P)
    PROVE  \E pos : Lists(Arranged(s, upTo), s, pos, P) /\ InOrder(pos, upTo, P)
<1> DEFINE N == Cardinality(P)
           rank == [i \in P |-> Cardinality(upTo[i])]
           pos == [n \in 1 .. N |-> CHOOSE i \in P : Cardinality(upTo[i]) = n]
<1>0. /\ DOMAIN upTo = P
      /\ \A i \in P : i \in upTo[i] /\ upTo[i] \subseteq P
      /\ \A i, j \in P : i # j =>
            \/ upTo[i] \subseteq upTo[j] /\ j \notin upTo[i]
            \/ upTo[j] \subseteq upTo[i] /\ i \notin upTo[j]
  BY DEF Ranks
<1>1. N \in Nat /\ IsFiniteSet(1 .. N) /\ Cardinality(1 .. N) = N
  BY FS_CardinalityType, IntervalFacts
<1>2. \A i \in P : /\ IsFiniteSet(upTo[i]) /\ Cardinality(upTo[i]) \in 1 .. N
  <2> SUFFICES ASSUME NEW i \in P
               PROVE  IsFiniteSet(upTo[i]) /\ Cardinality(upTo[i]) \in 1 .. N
    OBVIOUS
  <2>1. IsFiniteSet(upTo[i]) /\ Cardinality(upTo[i]) <= N
    BY <1>0, FS_Subset
  <2>2. Cardinality(upTo[i]) \in Nat /\ Cardinality(upTo[i]) # 0
    BY <1>0, <2>1, FS_CardinalityType, FS_EmptySet
  <2> QED  BY <1>1, <2>1, <2>2
<1>3. ASSUME NEW i \in P, NEW j \in P, upTo[i] \subseteq upTo[j], j \notin upTo[i]
      PROVE  Cardinality(upTo[i]) < Cardinality(upTo[j])
  <2>1. upTo[i] \subseteq upTo[j] \ {j} /\ IsFiniteSet(upTo[j]) /\ j \in upTo[j]
    BY <1>0, <1>2, <1>3
  <2>2. IsFiniteSet(upTo[j] \ {j})
        /\ Cardinality(upTo[j] \ {j}) = Cardinality(upTo[j]) - 1
    BY <2>1, FS_RemoveElement
  <2>3. Cardinality(upTo[i]) <= Cardinality(upTo[j] \ {j})
    BY <2>1, <2>2, FS_Subset
  <2>4. Cardinality(upTo[i]) \in Nat /\ Cardinality(upTo[j]) \in Nat
    BY <1>2
  <2> QED  BY <2>2, <2>3, <2>4
<1>4. ASSUME NEW i \in P, NEW j \in P, rank[i] = rank[j]
      PROVE  i = j
  <2>1. Cardinality(upTo[i]) = Cardinality(upTo[j]) /\ Cardinality(upTo[i]) \in Nat
    BY <1>2, <1>4
  <2> QED  BY <1>0, <1>3, <2>1
<1>5. rank \in Surjection(P, 1 .. N)
  <2>1. rank \in Injection(P, 1 .. N)
    <3>1. rank \in [P -> 1 .. N]
      BY <1>2
    <3> HIDE DEF rank
    <3> QED  BY <1>4, <3>1 DEF Injection, IsInjective
  <2>2. Cardinality(P) = Cardinality(1 .. N)
    BY <1>1
  <2> HIDE DEF rank, N
  <2> QED  BY <1>1, <2>1, <2>2, FS_Injection
<1>6. \A n \in 1 .. N : pos[n] \in P /\ Cardinality(upTo[pos[n]]) = n
  <2> SUFFICES ASSUME NEW n \in 1 .. N
               PROVE  pos[n] \in P /\ Cardinality(upTo[pos[n]]) = n
    OBVIOUS
  <2>1. \E i \in P : Cardinality(upTo[i]) = n
    BY <1>5 DEF Surjection
  <2> QED  BY <2>1
<1>7. Arranged(s, upTo) = [n \in 1 .. N |-> s[pos[n]]]
  BY <1>0 DEF Arranged
<1> HIDE DEF pos
<1>8. pos \in [1 .. N -> P]
  BY <1>6 DEF pos
<1>9. \A m, n \in 1 .. N : m # n => pos[m] # pos[n]
  BY <1>6
<1>10. ASSUME NEW i \in P
       PROVE  \E n \in 1 .. N : pos[n] = i
  <2>1. rank[i] \in 1 .. N /\ rank[pos[rank[i]]] = rank[i] /\ pos[rank[i]] \in P
    BY <1>2, <1>6
  <2> HIDE DEF rank
  <2> QED  BY <1>4, <2>1
<1>11. ASSUME NEW m \in 1 .. N, NEW n \in 1 .. N, m < n
       PROVE  upTo[pos[m]] \subseteq upTo[pos[n]]
  <2>1. ASSUME upTo[pos[n]] \subseteq upTo[pos[m]], pos[m] \notin upTo[pos[n]]
        PROVE  FALSE
    <3>1. Cardinality(upTo[pos[n]]) < Cardinality(upTo[pos[m]])
      BY <1>3, <1>6, <2>1
    <3> QED  BY <1>1, <1>6, <1>11, <3>1
  <2>2. pos[m] \in P /\ pos[n] \in P /\ pos[m] # pos[n]
    BY <1>6, <1>9, <1>11
  <2> QED  BY <1>0, <2>1, <2>2
<1>12. Lists(Arranged(s, upTo), s, pos, P)
  BY <1>1, <1>7, <1>8, <1>9, <1>10 DEF Lists
<1> QED
  BY <1>11, <1>12 DEF InOrder

LEMMA KeptLists ==
    ASSUME NEW s, NEW P, IsFiniteSet(P), P \subseteq Nat
    PROVE  \E pos : /\ Lists(Kept(s, P), s, pos, P)
                    /\ \A m, n \in 1 .. Cardinality(P) : m < n => pos[m] <= pos[n]
<1> DEFINE upTo == [i \in P |-> {j \in P : j <= i}]
<1>1. DOMAIN upTo = P /\ \A i \in P : upTo[i] = {j \in P : j <= i}
  OBVIOUS
<1>2. Kept(s, P) = Arranged(s, upTo)
  BY DEF Kept
<1> HIDE DEF upTo
<1>3. \A i \in P : i \in upTo[i] /\ upTo[i] \subseteq P
  BY <1>1
<1>4. ASSUME NEW i \in P, NEW j \in P, i # j
      PROVE  \/ upTo[i] \subseteq upTo[j] /\ j \notin upTo[i]
             \/ upTo[j] \subseteq upTo[i] /\ i \notin upTo[j]
  <2>1. i \in Nat /\ j \in Nat /\ \A k \in P : k \in Nat
    OBVIOUS
  <2>2. upTo[i] = {k \in P : k <= i} /\ upTo[j] = {k \in P : k <= j}
    BY <1>1
  <2>3. CASE i < j
    <3>1. (\A k \in P : k <= i => k <= j) /\ ~ (j <= i)
      BY <2>1, <2>3
    <3> QED  BY <2>2, <3>1
  <2>4. CASE j < i
    <3>1. (\A k \in P : k <= j => k <= i) /\ ~ (i <= j)
      BY <2>1, <2>4
    <3> QED  BY <2>2, <3>1
  <2> QED  BY <1>4, <2>1, <2>3, <2>4
<1>5. Ranks(upTo, P)
  BY <1>1, <1>3, <1>4 DEF Ranks
<1>6. PICK pos : Lists(Kept(s, P), s, pos, P) /\ InOrder(pos, upTo, P)
  BY <1>2, <1>5, ArrangedLists
<1>7. ASSUME NEW m \in 1 .. Cardinality(P), NEW n \in 1 .. Cardinality(P), m < n
      PROVE  pos[m] <= pos[n]
  <2>1. pos[m] \in P /\ pos[n] \in P
    BY <1>6 DEF Lists
  <2>2. pos[m] \in upTo[pos[n]]
    BY <1>3, <1>6, <1>7, <2>1 DEF InOrder
  <2> QED  BY <1>1, <2>1, <2>2
<1> QED
  BY <1>6, <1>7

NotLater(t, j, i) == t[j] < t[i] \/ (t[j] = t[i] /\ j <= i)

LEMMA SortedLists ==
    ASSUME NEW s, NEW P, IsFiniteSet(P), P \subseteq Nat,
           \A i \in P : s[i].time \in Int
    PROVE  \E pos : /\ Lists(SortedByTime(s, P), s, pos, P)
                    /\ \A m, n \in 1 .. Cardinality(P) :
                          m < n => s[pos[m]].time <= s[pos[n]].time
<1> DEFINE t == [i \in P |-> s[i].time]
           upTo == [i \in P |-> {j \in P : NotLater(t, j, i)}]
<1>1. t \in [P -> Int] /\ \A i \in P : t[i] = s[i].time
  OBVIOUS
<1>2. SortedByTime(s, P) = Arranged(s, upTo)
  <2> SUFFICES upTo = [i \in P |-> {j \in P : \/ s[j].time < s[i].time
                                              \/ s[j].time = s[i].time /\ j <= i}]
    BY DEF SortedByTime
  <2>1. \A i \in P : upTo[i] = {j \in P : \/ s[j].time < s[i].time
                                          \/ s[j].time = s[i].time /\ j <= i}
    BY <1>1 DEF NotLater
  <2> HIDE DEF t
  <2> QED  BY <2>1
<1> HIDE DEF t
<1>3. \A i \in P : t[i] \in Int /\ i \in Nat
  BY <1>1
<1>4. /\ \A i \in P : NotLater(t, i, i)
      /\ \A i, j, k \in P : NotLater(t, i, j) /\ NotLater(t, j, k) => NotLater(t, i, k)
      /\ \A i, j \in P : i # j => (NotLater(t, i, j) <=> ~NotLater(t, j, i))
  <2>1. ASSUME NEW i \in P, NEW j \in P, NEW k \in P
        PROVE  /\ NotLater(t, i, i)
               /\ NotLater(t, i, j) /\ NotLater(t, j, k) => NotLater(t, i, k)
               /\ i # j => (NotLater(t, i, j) <=> ~NotLater(t, j, i))
    <3>1. /\ t[i] \in Int /\ t[j] \in Int /\ t[k] \in Int
          /\ i \in Nat /\ j \in Nat /\ k \in Nat
      BY <1>3
    <3> QED  BY <3>1 DEF NotLater
  <2> QED  BY <2>1
<1>5. DOMAIN upTo = P /\ \A i \in P : upTo[i] = {j \in P : NotLater(t, j, i)}
  OBVIOUS
<1> HIDE DEF upTo
<1>6. \A i \in P : i \in upTo[i] /\ upTo[i] \subseteq P
  BY <1>4, <1>5
<1>7. ASSUME NEW i \in P, NEW j \in P, i # j
      PROVE  \/ upTo[i] \subseteq upTo[j] /\ j \notin upTo[i]
             \/ upTo[j] \subseteq upTo[i] /\ i \notin upTo[j]
  <2>1. ASSUME NEW k \in P, NEW l \in P, k # l, NotLater(t, k, l)
        PROVE  upTo[k] \subseteq upTo[l] /\ l \notin upTo[k]
    <3>1. ~NotLater(t, l, k)
      BY <1>4, <2>1
    <3>2. l \notin upTo[k]
      BY <1>5, <3>1
    <3>3. ASSUME NEW m \in upTo[k]
          PROVE  m \in upTo[l]
      <4>1. m \in P /\ NotLater(t, m, k)
        BY <1>5
      <4>2. NotLater(t, m, l)
        BY <1>4, <2>1, <4>1
      <4> QED  BY <1>5, <4>1, <4>2
    <3> QED  BY <3>2, <3>3
  <2>2. NotLater(t, i, j) \/ NotLater(t, j, i)
    BY <1>4, <1>7
  <2> QED  BY <1>7, <2>1, <2>2
<1>8. Ranks(upTo, P)
  BY <1>5, <1>6, <1>7 DEF Ranks
<1>9. PICK pos : Lists(SortedByTime(s, P), s, pos, P) /\ InOrder(pos, upTo, P)
  BY <1>2, <1>8, ArrangedLists
<1>10. ASSUME NEW m \in 1 .. Cardinality(P), NEW n \in 1 .. Cardinality(P), m < n
       PROVE  s[pos[m]].time <= s[pos[n]].time
  <2>1. pos[m] \in P /\ pos[n] \in P
    BY <1>9 DEF Lists
  <2>2. pos[m] \in upTo[pos[n]]
    BY <1>6, <1>9, <1>10, <2>1 DEF InOrder
  <2>3. NotLater(t, pos[m], pos[n]) /\ t[pos[m]] \in Int /\ t[pos[n]] \in Int
    BY <1>3, <1>5, <2>1, <2>2
  <2>4. t[pos[m]] <= t[pos[n]]
    BY <2>3 DEF NotLater
  <2> QED  BY <1>1, <2>1, <2>4
<1> QED
  BY <1>9, <1>10

LEMMA ListsFacts ==
    ASSUME NEW list, NEW s, NEW pos, NEW P, Lists(list, s, pos, P)
    PROVE  /\ IsList(list) /\ Len(list) = Cardinality(P)
           /\ \A n \in 1 .. Len(list) : list[n] = s[pos[n]] /\ pos[n] \in P
           /\ ToSet(list) = {s[i] : i \in P}
<1>1. IsList(list) /\ Len(list) = Cardinality(P) /\ DOMAIN list = 1 .. Cardinality(P)
  BY ListMade DEF Lists
<1>2. \A n \in 1 .. Len(list) : list[n] = s[pos[n]] /\ pos[n] \in P
  BY <1>1 DEF Lists
<1>3. ToSet(list) = {s[i] : i \in P}
  BY <1>1, <1>2 DEF ToSet, Lists
<1> QED
  BY <1>1, <1>2, <1>3

(* Different members in the order they come first.                         *)
LEMMA DistinctFacts ==
    ASSUME NEW s, IsList(s)
    PROVE  /\ IsList(Distinct(s))
           /\ ToSet(Distinct(s)) = ToSet(s)
           /\ \A m, n \in 1 .. Len(Distinct(s)) :
                 m # n => Distinct(s)[m] # Distinct(s)[n]
<1> DEFINE P == {i \in DOMAIN s : \A j \in 1 .. i - 1 : s[j] # s[i]}
<1>1. Len(s) \in Nat /\ DOMAIN s = 1 .. Len(s) /\ IsFiniteSet(DOMAIN s)
  BY ListFacts
<1>2. IsFiniteSet(P) /\ P \subseteq Nat
  BY <1>1, FS_Subset
<1>3. PICK pos : Lists(Distinct(s), s, pos, P)
  BY <1>2, KeptLists DEF Distinct
<1>4. /\ IsList(Distinct(s)) /\ Len(Distinct(s)) = Cardinality(P)
      /\ \A n \in 1 .. Len(Distinct(s)) : Distinct(s)[n] = s[pos[n]] /\ pos[n] \in P
      /\ ToSet(Distinct(s)) = {s[i] : i \in P}
  <2> HIDE DEF P
  <2> QED  BY <1>3, ListsFacts
<1>5. \A i, j \in P : i # j => s[i] # s[j]
  BY <1>1
<1>6. ASSUME NEW i \in DOMAIN s
      PROVE  \E j \in P : s[j] = s[i]
  <2> DEFINE same == {j \in DOMAIN s : s[j] = s[i]}
  <2>1. same \subseteq Nat /\ same # {}
    BY <1>1
  <2>2. PICK j \in same : \A k \in same : j <= k
    BY <2>1, LeastNatural
  <2>3. ASSUME NEW k \in 1 .. j - 1
        PROVE  s[k] # s[j]
    <3>1. k \in DOMAIN s /\ k < j
      BY <1>1
    <3>2. k \notin same
      BY <2>1, <2>2, <3>1
    <3> QED  BY <3>1, <3>2
  <2> QED  BY <2>3
<1>7. ToSet(Distinct(s)) = ToSet(s)
  <2>1. \A i \in P : s[i] \in ToSet(s)
    BY DEF ToSet
  <2> HIDE DEF P
  <2> QED  BY <1>4, <1>6, <2>1, ZenonT(30) DEF ToSet
<1>8. ASSUME NEW m \in 1 .. Len(Distinct(s)), NEW n \in 1 .. Len(Distinct(s)), m # n
      PROVE  Distinct(s)[m] # Distinct(s)[n]
  <2>1. pos[m] # pos[n] /\ pos[m] \in P /\ pos[n] \in P
    BY <1>3, <1>4, <1>8 DEF Lists
  <2> HIDE DEF P
  <2> QED  BY <1>4, <1>5, <2>1
<1> QED
  BY <1>4, <1>7, <1>8

(* The joined list of n lists: each of its places comes from a place of    *)
(* one of them, and different places from different ones.                  *)
Origin(flat, ss, n, of, at) ==
    /\ \A k \in 1 .. Len(flat) :
          /\ of[k] \in 1 .. n /\ at[k] \in 1 .. Len(ss[of[k]])
          /\ flat[k] = ss[of[k]][at[k]]
    /\ \A k, l \in 1 .. Len(flat) : of[k] = of[l] /\ at[k] = at[l] => k = l

Joined(flat, ss, n) ==
    /\ IsList(flat)
    /\ \A i \in 1 .. n : ToSet(ss[i]) \subseteq ToSet(flat)
    /\ \E of, at : Origin(flat, ss, n, of, at)

LEMMA OneMoreJoined ==
    ASSUME NEW ss, NEW n \in Nat, NEW flat, Joined(flat, ss, n), IsList(ss[n + 1])
    PROVE  Joined(flat \o ss[n + 1], ss, n + 1)
<1> DEFINE new == ss[n + 1]
           all == flat \o new
<1>1. /\ IsList(all) /\ ToSet(all) = ToSet(flat) \union ToSet(new)
      /\ Len(all) = Len(flat) + Len(new)
      /\ \A i \in 1 .. Len(flat) : all[i] = flat[i]
      /\ \A i \in 1 .. Len(new) : all[Len(flat) + i] = new[i]
      /\ Len(flat) \in Nat /\ Len(new) \in Nat
  BY Concatenated, ListFacts DEF Joined
<1>2. PICK of, at : Origin(flat, ss, n, of, at)
  BY DEF Joined
<1> DEFINE of1 == [k \in 1 .. Len(all) |-> IF k <= Len(flat) THEN of[k] ELSE n + 1]
           at1 == [k \in 1 .. Len(all) |->
                      IF k <= Len(flat) THEN at[k] ELSE k - Len(flat)]
<1>3. ASSUME NEW k \in 1 .. Len(all)
      PROVE  /\ k <= Len(flat) => /\ k \in 1 .. Len(flat)
                                  /\ of1[k] = of[k] /\ at1[k] = at[k]
                                  /\ of[k] \in 1 .. n
             /\ k > Len(flat) => /\ of1[k] = n + 1 /\ at1[k] = k - Len(flat)
                                 /\ k - Len(flat) \in 1 .. Len(new)
                                 /\ Len(flat) + (k - Len(flat)) = k
  <2>1. k \in Nat
    BY <1>1
  <2> QED  BY <1>1, <1>2, <2>1 DEF Origin
<1> HIDE DEF of1, at1, all
<1>4. ASSUME NEW k \in 1 .. Len(all)
      PROVE  /\ of1[k] \in 1 .. n + 1 /\ at1[k] \in 1 .. Len(ss[of1[k]])
             /\ all[k] = ss[of1[k]][at1[k]]
  <2>1. CASE k <= Len(flat)
    <3>1. k \in 1 .. Len(flat) /\ of1[k] = of[k] /\ at1[k] = at[k]
      BY <1>3, <2>1
    <3>2. /\ of[k] \in 1 .. n /\ at[k] \in 1 .. Len(ss[of[k]])
          /\ flat[k] = ss[of[k]][at[k]]
      BY <1>2, <3>1 DEF Origin
    <3> QED  BY <1>1, <3>1, <3>2
  <2>2. CASE k > Len(flat)
    <3>1. /\ of1[k] = n + 1 /\ at1[k] = k - Len(flat)
          /\ k - Len(flat) \in 1 .. Len(new) /\ Len(flat) + (k - Len(flat)) = k
      BY <1>3, <2>2
    <3>2. all[k] = new[k - Len(flat)]
      BY <1>1, <3>1
    <3> QED  BY <3>1, <3>2
  <2>3. k \in Nat
    BY <1>1
  <2> QED  BY <1>1, <2>1, <2>2, <2>3
<1>5. ASSUME NEW k \in 1 .. Len(all), NEW l \in 1 .. Len(all),
             of1[k] = of1[l], at1[k] = at1[l]
      PROVE  k = l
  <2>1. k \in Nat /\ l \in Nat
    BY <1>1
  <2>2. CASE k <= Len(flat) /\ l <= Len(flat)
    BY <1>2, <1>3, <1>5, <2>2 DEF Origin
  <2>3. CASE k > Len(flat) /\ l > Len(flat)
    BY <1>1, <1>3, <1>5, <2>1, <2>3
  <2>4. CASE k <= Len(flat) /\ l > Len(flat)
    BY <1>3, <1>5, <2>4
  <2>5. CASE k > Len(flat) /\ l <= Len(flat)
    BY <1>3, <1>5, <2>5
  <2> QED  BY <1>1, <2>1, <2>2, <2>3, <2>4, <2>5
<1>6. Origin(all, ss, n + 1, of1, at1)
  BY <1>4, <1>5 DEF Origin
<1>7. \A i \in 1 .. n + 1 : ToSet(ss[i]) \subseteq ToSet(all)
  BY <1>1 DEF Joined
<1> QED
  BY <1>1, <1>6, <1>7 DEF Joined, all

(* The function by which FlattenSeq is defined.                            *)
Flattens(f, ss, n) ==
    f = [i \in 1 .. n |-> IF i = 1 THEN ss[i] ELSE f[i - 1] \o ss[i]]

LEMMA FlattensExists ==
    ASSUME NEW ss, NEW n \in Nat
    PROVE  \E f : Flattens(f, ss, n)
<1> DEFINE S == {m \in 0 .. n : \E f : Flattens(f, ss, m)}
<1>1. 0 \in S
  <2>1. Flattens([i \in {} |-> 0], ss, 0)
    BY DEF Flattens
  <2> QED  BY <2>1
<1>2. ASSUME NEW m \in 0 .. n - 1, m \in S
      PROVE  m + 1 \in S
  <2>1. PICK f : Flattens(f, ss, m)
    BY <1>2
  <2> DEFINE next == IF m = 0 THEN ss[1] ELSE f[m] \o ss[m + 1]
             g == [i \in 1 .. m + 1 |-> IF i = m + 1 THEN next ELSE f[i]]
  <2>2. \A i \in 1 .. m : f[i] = IF i = 1 THEN ss[i] ELSE f[i - 1] \o ss[i]
    BY <2>1 DEF Flattens
  <2>3. (\A i \in 1 .. m : g[i] = f[i]) /\ g[m + 1] = next
    <3>1. \A i \in 1 .. m : i \in 1 .. m + 1 /\ i # m + 1
      OBVIOUS
    <3>2. m + 1 \in 1 .. m + 1
      OBVIOUS
    <3> HIDE DEF next
    <3> QED  BY <3>1, <3>2
  <2>4. \A i \in 1 .. m + 1 : g[i] = IF i = 1 THEN ss[i] ELSE g[i - 1] \o ss[i]
    <3> HIDE DEF g
    <3>1. ASSUME NEW i \in 1 .. m
          PROVE  g[i] = IF i = 1 THEN ss[i] ELSE g[i - 1] \o ss[i]
      <4>1. i # 1 => i - 1 \in 1 .. m
        OBVIOUS
      <4> QED  BY <2>2, <2>3, <4>1
    <3>2. g[m + 1] = IF m + 1 = 1 THEN ss[m + 1] ELSE g[(m + 1) - 1] \o ss[m + 1]
      <4>1. m + 1 # 1 => m \in 1 .. m /\ (m + 1) - 1 = m
        OBVIOUS
      <4> QED  BY <2>3, <4>1
    <3> QED  BY <3>1, <3>2
  <2>5. g = [i \in 1 .. m + 1 |-> IF i = 1 THEN ss[i] ELSE g[i - 1] \o ss[i]]
    BY <2>4
  <2>6. Flattens(g, ss, m + 1)
    BY <2>5 DEF Flattens
  <2> QED  BY <2>6
<1>3. n \in 0 .. n /\ \A m \in 0 .. n - 1 : m \in S => m + 1 \in S
  BY <1>2
<1> HIDE DEF S
<1>4. n \in S
  BY <1>1, <1>3, Stepwise
<1> QED
  BY <1>4 DEF S

LEMMA Flattened ==
    ASSUME NEW ss, IsList(ss), \A i \in 1 .. Len(ss) : IsList(ss[i])
    PROVE  Joined(FlattenSeq(ss), ss, Len(ss))
<1> DEFINE n == Len(ss)
           F == CHOOSE f : Flattens(f, ss, n)
<1>1. n \in Nat /\ DOMAIN ss = 1 .. n
  BY ListFacts
<1>2. CASE n = 0
  <2>1. FlattenSeq(ss) = ss
    BY <1>2 DEF FlattenSeq
  <2>2. Origin(ss, ss, 0, ss, ss)
    BY <1>2 DEF Origin
  <2> QED  BY <1>2, <2>1, <2>2 DEF Joined
<1>3. CASE n # 0
  <2>1. FlattenSeq(ss) = F[n]
    BY <1>3 DEF FlattenSeq, Flattens
  <2>2. Flattens(F, ss, n)
    BY <1>1, FlattensExists
  <2>3. \A i \in 1 .. n : F[i] = IF i = 1 THEN ss[i] ELSE F[i - 1] \o ss[i]
    BY <2>2 DEF Flattens
  <2> HIDE DEF F
  <2> DEFINE S == {i \in 0 .. n : i = 0 \/ Joined(F[i], ss, i)}
  <2>4. ASSUME NEW i \in 0 .. n - 1, i \in S
        PROVE  i + 1 \in S
    <3>1. i + 1 \in 1 .. n /\ IsList(ss[i + 1])
      BY <1>1
    <3>2. CASE i = 0
      <4>1. F[1] = ss[1]
        BY <2>3, <3>1, <3>2
      <4> DEFINE k == [j \in 1 .. Len(ss[1]) |-> j]
                 o == [j \in 1 .. Len(ss[1]) |-> 1]
      <4>2. Origin(ss[1], ss, 1, o, k)
        BY DEF Origin
      <4>3. Joined(F[1], ss, 1)
        BY <3>1, <3>2, <4>1, <4>2 DEF Joined
      <4> QED  BY <3>1, <3>2, <4>3
    <3>3. CASE i # 0
      <4>1. i \in Nat /\ Joined(F[i], ss, i)
        BY <2>4, <3>3
      <4>2. F[i + 1] = F[i] \o ss[i + 1]
        <5>1. (i + 1) - 1 = i /\ i + 1 # 1
          BY <3>3
        <5> QED  BY <2>3, <3>1, <5>1
      <4>3. Joined(F[i + 1], ss, i + 1)
        BY <3>1, <4>1, <4>2, OneMoreJoined
      <4> QED  BY <3>1, <4>3
    <3> QED  BY <3>2, <3>3
  <2>5. 0 \in S /\ n \in 0 .. n
    BY <1>1
  <2> HIDE DEF S
  <2>6. n \in S
    BY <1>1, <2>4, <2>5, Stepwise
  <2> QED  BY <1>3, <2>1, <2>6 DEF S
<1> QED
  BY <1>2, <1>3

(* A member of the joined list is a member of one of the lists.            *)
LEMMA JoinedFrom ==
    ASSUME NEW flat, NEW ss, NEW n, Joined(flat, ss, n), NEW x \in ToSet(flat)
    PROVE  \E i \in 1 .. n : \E j \in 1 .. Len(ss[i]) : x = ss[i][j]
<1>1. PICK of, at : Origin(flat, ss, n, of, at)
  BY DEF Joined
<1>2. PICK k \in 1 .. Len(flat) : x = flat[k]
  BY ListFacts DEF Joined, ToSet
<1> QED
  BY <1>1, <1>2 DEF Origin

-----------------------------------------------------------------------------
(* The sliding window.  What the two properties need is what the window    *)
(* itself keeps: it is below the threshold, its events are close, it       *)
(* shares nothing with an alert, and an event is missing from it only      *)
(* because it is too old or in an alert.                                   *)

Sorted(t) ==
    t \in Seq(Nat) /\ \A j, k \in 1 .. Len(t) : j <= k => t[j] <= t[k]

IsLimit(limit) == limit.seconds \in Nat /\ limit.events \in Nat \ {0}

ScanTyped(s, i) ==
    s \in [window : SUBSET (1 .. i), fired : Seq(SUBSET (1 .. i))]

WindowSound(limit, t, s) ==
    /\ IsFiniteSet(s.window)
    /\ Cardinality(s.window) < limit.events
    /\ Close(limit, t, s.window)
    /\ \A n \in DOMAIN s.fired : s.fired[n] \intersect s.window = {}

NoneLost(limit, t, s, i) ==
    \A j \in 1 .. i : \/ j \in s.window
                      \/ \E n \in DOMAIN s.fired : j \in s.fired[n]
                      \/ t[i] - t[j] > limit.seconds

ScanInvariant(limit, t, s, i) ==
    /\ ScanTyped(s, i)
    /\ WindowSound(limit, t, s)
    /\ NoneLost(limit, t, s, i)
    /\ Exact(limit, t, s.fired)
    /\ Unmissed(limit, t, 1 .. i, s.fired)

(* A turn keeps of the window what is in reach of its event.               *)
Reach(limit, t, s, i) == {j \in s.window : t[i] - t[j] <= limit.seconds} \union {i}

(* The window a turn builds: finite, at most the threshold, close, and     *)
(* made of events that no alert has.                                       *)
LEMMA ReachFacts ==
    ASSUME NEW limit, IsLimit(limit), NEW t, Sorted(t), NEW s,
           NEW i \in 1 .. Len(t), ScanInvariant(limit, t, s, i - 1)
    PROVE  /\ Reach(limit, t, s, i) \subseteq 1 .. i
           /\ IsFiniteSet(Reach(limit, t, s, i))
           /\ Cardinality(Reach(limit, t, s, i)) \in Nat
           /\ Cardinality(Reach(limit, t, s, i)) <= limit.events
           /\ Close(limit, t, Reach(limit, t, s, i))
           /\ \A n \in DOMAIN s.fired :
                 s.fired[n] \intersect Reach(limit, t, s, i) = {}
<1> DEFINE stay == {j \in s.window : t[i] - t[j] <= limit.seconds}
           reach == Reach(limit, t, s, i)
<1>1. /\ t \in Seq(Nat) /\ Len(t) \in Nat /\ i \in Nat
      /\ s.window \subseteq 1 .. i - 1
      /\ \A j, k \in 1 .. Len(t) : j <= k => t[j] <= t[k]
      /\ limit.seconds \in Nat /\ limit.events \in Nat \ {0}
      /\ \A n \in DOMAIN s.fired : s.fired[n] \subseteq 1 .. i - 1
  BY DEF ScanInvariant, ScanTyped, Sorted, IsLimit
<1>2. \A j \in 1 .. Len(t) : t[j] \in Nat
  BY <1>1
<1>3. reach = stay \union {i} /\ reach \subseteq 1 .. i
  BY <1>1 DEF Reach
<1>4. IsFiniteSet(stay) /\ Cardinality(stay) <= Cardinality(s.window)
  BY FS_Subset DEF ScanInvariant, WindowSound
<1>5. Cardinality(stay) \in Nat /\ Cardinality(s.window) \in Nat
      /\ Cardinality(s.window) < limit.events
  BY <1>4, FS_CardinalityType DEF ScanInvariant, WindowSound
<1>6. i \notin stay
  BY <1>1
<1>7. IsFiniteSet(reach) /\ Cardinality(reach) = Cardinality(stay) + 1
  <2> HIDE DEF stay, reach
  <2> QED  BY <1>3, <1>4, <1>6, FS_AddElement
<1>8. Cardinality(reach) \in Nat /\ Cardinality(reach) <= limit.events
  BY <1>1, <1>4, <1>5, <1>7
<1>9. Close(limit, t, reach)
  <2> SUFFICES ASSUME NEW j \in reach, NEW k \in reach
               PROVE  t[k] - t[j] <= limit.seconds
    BY DEF Close
  <2>1. j \in 1 .. Len(t) /\ k \in 1 .. Len(t)
    BY <1>1, <1>3
  <2>2. t[k] \in Nat /\ t[j] \in Nat /\ t[k] <= t[i] /\ t[i] \in Nat
    BY <1>1, <1>2, <1>3, <2>1
  <2>3. CASE j = i
    BY <1>1, <2>2, <2>3
  <2>4. CASE j # i /\ k = i
    BY <1>3, <2>4
  <2>5. CASE j # i /\ k # i
    BY <1>3, <2>5 DEF ScanInvariant, WindowSound, Close
  <2> QED  BY <2>3, <2>4, <2>5
<1>10. ASSUME NEW n \in DOMAIN s.fired
       PROVE  s.fired[n] \intersect reach = {}
  <2>1. i \notin s.fired[n]
    BY <1>1
  <2>2. s.fired[n] \intersect s.window = {}
    BY DEF ScanInvariant, WindowSound
  <2> QED  BY <1>3, <2>1, <2>2
<1> HIDE DEF reach
<1> QED  BY <1>3, <1>7, <1>8, <1>9, <1>10 DEF reach

(* What a turn makes of the window and of the alerts.                      *)
LEMMA SlideFacts ==
    ASSUME NEW limit, NEW t, NEW s, NEW i, ScanTyped(s, i - 1)
    PROVE  LET w == Reach(limit, t, s, i)
               next == Slide(limit, t, s, i)
           IN  /\ Cardinality(w) >= limit.events =>
                      /\ next.window = {} /\ next.fired = Append(s.fired, w)
                      /\ next = [window |-> {}, fired |-> next.fired]
               /\ ~ (Cardinality(w) >= limit.events) =>
                      /\ next.window = w /\ next.fired = s.fired
                      /\ next = [window |-> w, fired |-> s.fired]
  BY DEF Slide, Reach

(* Every event in reach of the new one is in the window the turn builds or *)
(* in an alert already raised.                                             *)
LEMMA InReach ==
    ASSUME NEW limit, IsLimit(limit), NEW t, Sorted(t), NEW s,
           NEW i \in 1 .. Len(t), ScanInvariant(limit, t, s, i - 1),
           NEW j \in 1 .. i, t[i] - t[j] <= limit.seconds
    PROVE  \/ j \in Reach(limit, t, s, i)
           \/ \E n \in DOMAIN s.fired : j \in s.fired[n]
<1>1. /\ t \in Seq(Nat) /\ limit.seconds \in Nat /\ i \in Nat /\ j \in Nat
      /\ \A k, l \in 1 .. Len(t) : k <= l => t[k] <= t[l]
  BY DEF Sorted, IsLimit
<1>2. CASE j = i
  BY <1>2 DEF Reach
<1>3. CASE j # i
  <2>1. j \in 1 .. i - 1 /\ i - 1 \in 1 .. Len(t) /\ j \in 1 .. Len(t)
    BY <1>1, <1>3
  <2>2. t[i - 1] <= t[i] /\ t[i - 1] \in Nat /\ t[i] \in Nat /\ t[j] \in Nat
    BY <1>1, <2>1, SMTT(30)
  <2>3. ~ (t[i - 1] - t[j] > limit.seconds)
    BY <1>1, <2>2, SMTT(30)
  <2> QED  BY <2>1, <2>3 DEF ScanInvariant, NoneLost, Reach
<1> QED  BY <1>2, <1>3

LEMMA ScanInvariantInitially ==
    ASSUME NEW limit, IsLimit(limit), NEW t
    PROVE  ScanInvariant(limit, t, NothingScanned, 0)
<1> DEFINE s == NothingScanned
<1>1. s.window = {} /\ s.fired = <<>> /\ s = [window |-> {}, fired |-> <<>>]
  BY DEF NothingScanned
<1>2. ScanTyped(s, 0)
  BY <1>1 DEF ScanTyped
<1> HIDE DEF s
<1>3. WindowSound(limit, t, s)
  BY <1>1, FS_EmptySet DEF WindowSound, Close, IsLimit
<1>4. NoneLost(limit, t, s, 0) /\ Exact(limit, t, s.fired)
  BY <1>1 DEF NoneLost, Exact
<1>5. Unmissed(limit, t, 1 .. 0, s.fired)
  <2> SUFFICES ASSUME NEW run \in SUBSET (1 .. 0), Cardinality(run) = limit.events
               PROVE  FALSE
    BY DEF Unmissed
  <2>1. run = {}
    OBVIOUS
  <2> QED  BY <2>1, FS_EmptySet DEF IsLimit
<1> QED  BY <1>2, <1>3, <1>4, <1>5 DEF ScanInvariant, s

(* One turn of the loop.                                                   *)
LEMMA SlideKeeps ==
    ASSUME NEW limit, IsLimit(limit), NEW t, Sorted(t), NEW s,
           NEW i \in 1 .. Len(t), ScanInvariant(limit, t, s, i - 1)
    PROVE  ScanInvariant(limit, t, Slide(limit, t, s, i), i)
<1> DEFINE w == Reach(limit, t, s, i)
           next == Slide(limit, t, s, i)
           fires == Cardinality(w) >= limit.events
<1>1. /\ w \subseteq 1 .. i /\ IsFiniteSet(w) /\ Cardinality(w) \in Nat
      /\ Cardinality(w) <= limit.events /\ Close(limit, t, w)
      /\ \A n \in DOMAIN s.fired : s.fired[n] \intersect w = {}
      /\ limit.events \in Nat \ {0} /\ limit.seconds \in Nat /\ i \in Nat
      /\ \A j \in 1 .. i : t[i] - t[j] \in Int
  BY ReachFacts, SMTT(30) DEF IsLimit, Sorted
<1>2. /\ ScanTyped(s, i - 1) /\ WindowSound(limit, t, s)
      /\ Exact(limit, t, s.fired) /\ Unmissed(limit, t, 1 .. i - 1, s.fired)
  BY DEF ScanInvariant
<1>3. /\ fires => /\ next.window = {} /\ next.fired = Append(s.fired, w)
                  /\ next = [window |-> {}, fired |-> next.fired]
      /\ ~ fires => /\ next.window = w /\ next.fired = s.fired
                    /\ next = [window |-> w, fired |-> s.fired]
  BY <1>2, SlideFacts
<1>4. \A j \in 1 .. i :
         t[i] - t[j] <= limit.seconds =>
             j \in w \/ \E n \in DOMAIN s.fired : j \in s.fired[n]
  BY InReach
<1> HIDE DEF w, next
<1>5. s.fired \in Seq(SUBSET (1 .. i))
  <2>1. s.fired \in Seq(SUBSET (1 .. i - 1)) /\ 1 .. i - 1 \subseteq 1 .. i
    BY <1>1, <1>2 DEF ScanTyped
  <2> QED  BY <2>1
<1>6. /\ Len(s.fired) \in Nat /\ DOMAIN s.fired = 1 .. Len(s.fired)
      /\ fires => /\ DOMAIN next.fired = 1 .. Len(s.fired) + 1
                  /\ \A n \in 1 .. Len(s.fired) : next.fired[n] = s.fired[n]
                  /\ next.fired[Len(s.fired) + 1] = w
  BY <1>3, <1>5
<1>7. DOMAIN s.fired \subseteq DOMAIN next.fired
      /\ \A n \in DOMAIN s.fired : next.fired[n] = s.fired[n]
  BY <1>3, <1>6
<1>8. ScanTyped(next, i)
  <2>1. w \in SUBSET (1 .. i) /\ {} \in SUBSET (1 .. i)
    BY <1>1
  <2>2. Append(s.fired, w) \in Seq(SUBSET (1 .. i))
    BY <1>5, <2>1
  <2>3. CASE fires
    BY <1>3, <2>1, <2>2, <2>3 DEF ScanTyped
  <2>4. CASE ~ fires
    BY <1>3, <1>5, <2>1, <2>4 DEF ScanTyped
  <2> QED  BY <2>3, <2>4
<1>9. WindowSound(limit, t, next)
  <2>1. CASE fires
    <3>1. next.window = {} /\ IsFiniteSet({}) /\ Cardinality({}) = 0
      BY <1>3, <2>1, FS_EmptySet
    <3>2. Cardinality({}) < limit.events
      BY <1>1, <3>1
    <3> QED  BY <3>1, <3>2 DEF WindowSound, Close
  <2>2. CASE ~ fires
    BY <1>1, <1>3, <2>2 DEF WindowSound
  <2> QED  BY <2>1, <2>2
<1>10. NoneLost(limit, t, next, i)
  <2> SUFFICES ASSUME NEW j \in 1 .. i, t[i] - t[j] <= limit.seconds
               PROVE  j \in next.window \/ \E n \in DOMAIN next.fired : j \in next.fired[n]
    BY <1>1, SMTT(30) DEF NoneLost
  <2>1. CASE \E n \in DOMAIN s.fired : j \in s.fired[n]
    BY <1>7, <2>1
  <2>2. CASE j \in w /\ fires
    <3>1. Len(s.fired) + 1 \in DOMAIN next.fired /\ j \in next.fired[Len(s.fired) + 1]
      BY <1>6, <2>2
    <3> QED  BY <3>1
  <2>3. CASE j \in w /\ ~ fires
    BY <1>3, <2>3
  <2> QED  BY <1>4, <2>1, <2>2, <2>3
<1>11. Exact(limit, t, next.fired)
  <2>1. CASE fires
    <3>1. Cardinality(w) = limit.events
      BY <1>1, <2>1
    <3>2. ASSUME NEW n \in DOMAIN next.fired
          PROVE  Cardinality(next.fired[n]) = limit.events /\ Close(limit, t, next.fired[n])
      <4>1. n \in DOMAIN s.fired \/ next.fired[n] = w
        BY <1>6, <2>1
      <4> QED  BY <1>1, <1>2, <1>7, <3>1, <4>1 DEF Exact
    <3>3. ASSUME NEW m \in DOMAIN next.fired, NEW n \in DOMAIN next.fired, m # n
          PROVE  next.fired[m] \intersect next.fired[n] = {}
      <4>1. CASE m \in DOMAIN s.fired /\ n \in DOMAIN s.fired
        BY <1>2, <1>7, <3>3, <4>1 DEF Exact
      <4>2. CASE m \in DOMAIN s.fired /\ n = Len(s.fired) + 1
        BY <1>1, <1>6, <1>7, <2>1, <4>2
      <4>3. CASE n \in DOMAIN s.fired /\ m = Len(s.fired) + 1
        BY <1>1, <1>6, <1>7, <2>1, <4>3
      <4>4. /\ m \in DOMAIN s.fired \/ m = Len(s.fired) + 1
            /\ n \in DOMAIN s.fired \/ n = Len(s.fired) + 1
        <5>1. \A k \in 1 .. Len(s.fired) + 1 :
                 k \in 1 .. Len(s.fired) \/ k = Len(s.fired) + 1
          BY <1>6
        <5> QED  BY <1>6, <2>1, <5>1
      <4> QED  BY <3>3, <4>1, <4>2, <4>3, <4>4
    <3> QED  BY <3>2, <3>3 DEF Exact
  <2>2. CASE ~ fires
    BY <1>2, <1>3, <2>2
  <2> QED  BY <2>1, <2>2
<1>12. Unmissed(limit, t, 1 .. i, next.fired)
  <2> SUFFICES ASSUME NEW run \in SUBSET (1 .. i),
                      Cardinality(run) = limit.events, Close(limit, t, run)
               PROVE  \E n \in DOMAIN next.fired : next.fired[n] \intersect run # {}
    BY DEF Unmissed
  <2>1. CASE run \subseteq 1 .. i - 1
    <3>1. PICK n \in DOMAIN s.fired : s.fired[n] \intersect run # {}
      BY <1>2, <2>1 DEF Unmissed
    <3> QED  BY <1>7, <3>1
  <2>2. CASE ~ (run \subseteq 1 .. i - 1)
    <3>1. i \in run
      BY <1>1, <2>2
    <3>2. \A j \in run : j \in w \/ \E n \in DOMAIN s.fired : j \in s.fired[n]
      BY <1>4, <3>1 DEF Close
    <3>3. CASE \E j \in run : \E n \in DOMAIN s.fired : j \in s.fired[n]
      BY <1>7, <3>3
    <3>4. CASE ~ (\E j \in run : \E n \in DOMAIN s.fired : j \in s.fired[n])
      <4>1. run \subseteq w
        BY <3>2, <3>4
      <4>2. Cardinality(run) <= Cardinality(w)
        BY <1>1, <4>1, FS_Subset
      <4>3. fires
        BY <1>1, <4>2
      <4>4. Len(s.fired) + 1 \in DOMAIN next.fired
            /\ i \in next.fired[Len(s.fired) + 1] \intersect run
        BY <1>6, <3>1, <4>1, <4>3
      <4> QED  BY <4>4
    <3> QED  BY <3>3, <3>4
  <2> QED  BY <2>1, <2>2
<1> QED
  BY <1>8, <1>9, <1>10, <1>11, <1>12 DEF ScanInvariant, next

(* The loop over a whole list of times.                                    *)
Scans(f, limit, t, n) ==
    f = [i \in 0 .. n |->
            IF i = 0 THEN NothingScanned ELSE Slide(limit, t, f[i - 1], i)]

LEMMA ScansExists ==
    ASSUME NEW limit, NEW t, NEW n \in Nat
    PROVE  \E f : Scans(f, limit, t, n)
<1> DEFINE S == {m \in 0 .. n : \E f : Scans(f, limit, t, m)}
<1>1. 0 \in S
  <2> DEFINE f == [i \in 0 .. 0 |-> NothingScanned]
  <2>1. Scans(f, limit, t, 0)
    <3>1. \A i \in 0 .. 0 : i = 0
      OBVIOUS
    <3> QED  BY <3>1 DEF Scans
  <2> QED  BY <2>1
<1>2. ASSUME NEW m \in 0 .. n - 1, m \in S
      PROVE  m + 1 \in S
  <2>1. PICK f : Scans(f, limit, t, m)
    BY <1>2
  <2> DEFINE g == [i \in 0 .. m + 1 |->
                      IF i = m + 1 THEN Slide(limit, t, f[m], m + 1) ELSE f[i]]
  <2>2. \A i \in 0 .. m : /\ f[i] = IF i = 0 THEN NothingScanned
                                    ELSE Slide(limit, t, f[i - 1], i)
                          /\ i \in 0 .. m + 1 /\ i # m + 1
    BY <2>1 DEF Scans
  <2>3. (\A i \in 0 .. m : g[i] = f[i]) /\ g[m + 1] = Slide(limit, t, f[m], m + 1)
    BY <2>2
  <2>4. \A i \in 0 .. m + 1 : g[i] = IF i = 0 THEN NothingScanned
                                     ELSE Slide(limit, t, g[i - 1], i)
    <3> HIDE DEF g
    <3>1. ASSUME NEW i \in 0 .. m
          PROVE  g[i] = IF i = 0 THEN NothingScanned ELSE Slide(limit, t, g[i - 1], i)
      <4>1. i # 0 => i - 1 \in 0 .. m
        OBVIOUS
      <4> QED  BY <2>2, <2>3, <4>1
    <3>2. g[m + 1] = Slide(limit, t, g[(m + 1) - 1], m + 1) /\ m + 1 # 0
      <4>1. m \in 0 .. m /\ (m + 1) - 1 = m
        OBVIOUS
      <4> QED  BY <2>3, <4>1
    <3>3. \A i \in 0 .. m + 1 : i \in 0 .. m \/ i = m + 1
      OBVIOUS
    <3> QED  BY <3>1, <3>2, <3>3
  <2>5. Scans(g, limit, t, m + 1)
    BY <2>4 DEF Scans
  <2> QED  BY <2>5
<1>3. n \in 0 .. n /\ \A m \in 0 .. n - 1 : m \in S => m + 1 \in S
  BY <1>2
<1> HIDE DEF S
<1>4. n \in S
  BY <1>1, <1>3, Stepwise
<1> QED
  BY <1>4 DEF S

LEMMA BurstsFacts ==
    ASSUME NEW limit, IsLimit(limit), NEW t, Sorted(t)
    PROVE  LET fired == BurstsOf(limit, t)
           IN  /\ IsList(fired)
               /\ \A n \in DOMAIN fired : fired[n] \subseteq 1 .. Len(t)
               /\ Exact(limit, t, fired)
               /\ Unmissed(limit, t, 1 .. Len(t), fired)
<1> DEFINE f == CHOOSE g : Scans(g, limit, t, Len(t))
           fired == BurstsOf(limit, t)
           S == {i \in 0 .. Len(t) : ScanInvariant(limit, t, f[i], i)}
<1>1. Len(t) \in Nat
  BY DEF Sorted
<1>2. fired = f[Len(t)].fired
  BY DEF BurstsOf, Scans
<1>3. Scans(f, limit, t, Len(t))
  BY <1>1, ScansExists
<1> HIDE DEF f
<1>4. \A i \in 0 .. Len(t) : f[i] = IF i = 0 THEN NothingScanned
                                    ELSE Slide(limit, t, f[i - 1], i)
  BY <1>3 DEF Scans
<1>5. 0 \in S
  BY <1>1, <1>4, ScanInvariantInitially
<1>6. ASSUME NEW i \in 0 .. Len(t) - 1, i \in S
      PROVE  i + 1 \in S
  <2>1. i + 1 \in 1 .. Len(t) /\ (i + 1) - 1 = i /\ i + 1 # 0 /\ i + 1 \in 0 .. Len(t)
    BY <1>1
  <2>2. f[i + 1] = Slide(limit, t, f[i], i + 1) /\ ScanInvariant(limit, t, f[i], (i + 1) - 1)
    BY <1>4, <1>6, <2>1
  <2>3. ScanInvariant(limit, t, f[i + 1], i + 1)
    BY <2>1, <2>2, SlideKeeps
  <2> QED  BY <2>1, <2>3
<1>7. \A i \in 0 .. Len(t) - 1 : i \in S => i + 1 \in S
  BY <1>6
<1> HIDE DEF S
<1>8. Len(t) \in S
  <2>1. Len(t) \in 0 .. Len(t)
    BY <1>1
  <2> QED  BY <1>1, <1>5, <1>7, <2>1, Stepwise
<1>9. ScanInvariant(limit, t, f[Len(t)], Len(t))
  BY <1>8 DEF S
<1>10. fired \in Seq(SUBSET (1 .. Len(t))) /\ Exact(limit, t, fired)
      /\ Unmissed(limit, t, 1 .. Len(t), fired)
  BY <1>2, <1>9 DEF ScanInvariant, ScanTyped
<1>11. Len(fired) \in Nat /\ DOMAIN fired = 1 .. Len(fired)
       /\ fired = [n \in 1 .. Len(fired) |-> fired[n]]
       /\ \A n \in DOMAIN fired : fired[n] \subseteq 1 .. Len(t)
  BY <1>10
<1>12. IsList(fired)
  BY <1>11, ListMade
<1> QED
  BY <1>10, <1>11, <1>12

-----------------------------------------------------------------------------
(* The loop turn by turn.                                                  *)

WindowInvariant ==
    WindowTypeOK /\ ScanInvariant(Limit, times, scan, turn)

LEMMA WindowInvariantHolds == WindowSpec => []WindowInvariant
<1>1. IsLimit(Limit) /\ \A t \in Batches : Sorted(t)
  BY WindowAssumption, ThresholdAssumption, BatchAssumption DEF IsLimit, Limit, Sorted
<1>2. WindowInit => WindowInvariant
  <2> SUFFICES ASSUME WindowInit PROVE WindowInvariant
    OBVIOUS
  <2>1. times \in Batches /\ turn = 0 /\ Len(times) \in Nat /\ scan = NothingScanned
    BY <1>1 DEF WindowInit, Sorted
  <2>2. ScanInvariant(Limit, times, scan, turn)
    BY <1>1, <2>1, ScanInvariantInitially
  <2> QED  BY <2>1, <2>2 DEF WindowInvariant, WindowTypeOK, ScanInvariant, ScanTyped
<1>3. WindowInvariant /\ WindowNext => WindowInvariant'
  <2> SUFFICES ASSUME WindowInvariant, WindowNext PROVE WindowInvariant'
    OBVIOUS
  <2>1. /\ times \in Batches /\ Sorted(times) /\ turn \in Nat /\ Len(times) \in Nat
        /\ turn + 1 \in 1 .. Len(times) /\ (turn + 1) - 1 = turn
        /\ turn' = turn + 1 /\ times' = times
        /\ scan' = Slide(Limit, times, scan, turn + 1)
    BY <1>1 DEF WindowInvariant, WindowTypeOK, WindowNext, Sorted
  <2>2. ScanInvariant(Limit, times, scan, (turn + 1) - 1)
    BY <2>1 DEF WindowInvariant
  <2>3. ScanInvariant(Limit, times, Slide(Limit, times, scan, turn + 1), turn + 1)
    BY <1>1, <2>1, <2>2, SlideKeeps
  <2>4. ScanInvariant(Limit, times, scan, turn)'
    BY <2>1, <2>3
  <2>5. ScanTyped(scan, turn)'
    BY <2>4 DEF ScanInvariant
  <2> QED  BY <2>1, <2>4, <2>5 DEF WindowInvariant, WindowTypeOK, ScanTyped
<1>4. WindowInvariant /\ UNCHANGED windowVars => WindowInvariant'
  BY DEF windowVars, WindowInvariant, WindowTypeOK, ScanInvariant, ScanTyped,
         WindowSound, NoneLost
<1> QED
  BY <1>2, <1>3, <1>4, PTL DEF WindowSpec

(* Every reachable state of the loop is well typed.                        *)
THEOREM WindowTypeCorrect == WindowSpec => []WindowTypeOK
<1>1. WindowInvariant => WindowTypeOK
  BY DEF WindowInvariant
<1> QED
  BY WindowInvariantHolds, <1>1, PTL

(* An alert of the loop speaks of exactly Threshold events, close together *)
(* and shared with no other alert, for every window, threshold and batch.  *)
THEOREM AlertsAreExact == WindowSpec => []BurstsAreExact
<1>1. WindowInvariant => BurstsAreExact
  BY DEF WindowInvariant, ScanInvariant, BurstsAreExact
<1> QED
  BY WindowInvariantHolds, <1>1, PTL

(* No Threshold events within Window seconds of one another go by without  *)
(* an alert that has one of them, although each alert empties the window.  *)
THEOREM WindowMissesNoBurst == WindowSpec => []NoBurstMissed
<1>1. WindowInvariant => NoBurstMissed
  BY DEF WindowInvariant, ScanInvariant, NoBurstMissed
<1> QED
  BY WindowInvariantHolds, <1>1, PTL

-----------------------------------------------------------------------------
(* auth.log: the events of a batch, and the attempts of an address.        *)

(* The line that each event comes from.                                    *)
EventLines(lines, events, src) ==
    /\ \A k \in 1 .. Len(events) :
          /\ src[k] \in 1 .. Len(lines) /\ Parses(lines[src[k]])
          /\ events[k] = AuthEvent(lines[src[k]])
    /\ \A k, l \in 1 .. Len(events) : /\ k # l => src[k] # src[l]
                                      /\ k < l => src[k] <= src[l]
    /\ \A i \in 1 .. Len(lines) : Parses(lines[i]) =>
          \E k \in 1 .. Len(events) : src[k] = i

LEMMA AuthEventsFacts ==
    ASSUME NEW lines, IsList(lines)
    PROVE  /\ IsList(AuthEvents(lines))
           /\ \E src : EventLines(lines, AuthEvents(lines), src)
<1> DEFINE P == {i \in DOMAIN lines : Parses(lines[i])}
           parsed == Kept(lines, P)
           events == AuthEvents(lines)
<1>1. Len(lines) \in Nat /\ DOMAIN lines = 1 .. Len(lines) /\ IsFiniteSet(DOMAIN lines)
  BY ListFacts
<1>2. IsFiniteSet(P) /\ P \subseteq Nat
  BY <1>1, FS_Subset
<1>3. PICK src : /\ Lists(parsed, lines, src, P)
                 /\ \A m, n \in 1 .. Cardinality(P) : m < n => src[m] <= src[n]
  <2> HIDE DEF P
  <2> QED  BY <1>2, KeptLists
<1>4. /\ IsList(parsed) /\ Len(parsed) = Cardinality(P)
      /\ \A n \in 1 .. Len(parsed) : parsed[n] = lines[src[n]] /\ src[n] \in P
      /\ Len(parsed) \in Nat /\ DOMAIN parsed = 1 .. Len(parsed)
  <2> HIDE DEF P, parsed
  <2> QED  BY <1>3, ListsFacts, ListFacts
<1>5. events = [i \in DOMAIN parsed |-> AuthEvent(parsed[i])]
  BY DEF AuthEvents
<1> HIDE DEF events, parsed
<1>6. IsList(events) /\ Len(events) = Len(parsed)
  <2>1. DOMAIN events = 1 .. Len(parsed) /\ events = [i \in 1 .. Len(parsed) |-> events[i]]
    BY <1>4, <1>5
  <2> QED  BY <1>4, <2>1, ListMade
<1>7. \A k \in 1 .. Len(events) : /\ src[k] \in 1 .. Len(lines) /\ Parses(lines[src[k]])
                                  /\ events[k] = AuthEvent(lines[src[k]])
  BY <1>1, <1>4, <1>5, <1>6
<1>8. \A k, l \in 1 .. Len(events) : /\ k # l => src[k] # src[l]
                                     /\ k < l => src[k] <= src[l]
  BY <1>3, <1>4, <1>6 DEF Lists
<1>9. \A i \in 1 .. Len(lines) : Parses(lines[i]) => \E k \in 1 .. Len(events) : src[k] = i
  BY <1>1, <1>3, <1>4, <1>6 DEF Lists
<1> QED
  BY <1>6, <1>7, <1>8, <1>9 DEF events, EventLines

LEMMA AttemptIsTry ==
    ASSUME NEW line
    PROVE  /\ IsAttempt(line) <=> IsTry(AuthEvent(line))
           /\ AuthEvent(line).ip = line.ip /\ AuthEvent(line).time = line.time
           /\ IsAttempt(line) /\ line.ip \in ValidIPs => Parses(line)
  BY DEF IsAttempt, IsTry, AuthEvent, AuthResult, Parses

(* The list of attempts: which lines of the batch it stands for.           *)
AttemptLines(lines, ip, attempts, at) ==
    /\ \A m \in 1 .. Len(attempts) :
          /\ at[m] \in 1 .. Len(lines) /\ IsAttempt(lines[at[m]])
          /\ lines[at[m]].ip = ip /\ attempts[m].time = lines[at[m]].time
    /\ \A m, n \in 1 .. Len(attempts) : m # n => at[m] # at[n]
    /\ \A i \in 1 .. Len(lines) :
          IsAttempt(lines[i]) /\ lines[i].ip = ip /\ Parses(lines[i]) =>
              \E m \in 1 .. Len(attempts) : at[m] = i

LEMMA AttemptsFacts ==
    ASSUME NEW lines, IsList(lines), \A i \in 1 .. Len(lines) : lines[i].time \in Nat,
           NEW ip
    PROVE  LET attempts == Attempts(AuthEvents(lines), ip)
           IN  /\ IsList(attempts)
               /\ Sorted([i \in DOMAIN attempts |-> attempts[i].time])
               /\ \E at : AttemptLines(lines, ip, attempts, at)
<1> DEFINE events == AuthEvents(lines)
           attempts == Attempts(events, ip)
           P == {i \in DOMAIN events : IsTry(events[i]) /\ events[i].ip = ip}
           times_ == [i \in DOMAIN attempts |-> attempts[i].time]
<1>0. PICK src : EventLines(lines, events, src)
  BY AuthEventsFacts
<1>1. /\ \A k \in 1 .. Len(events) :
            /\ src[k] \in 1 .. Len(lines) /\ Parses(lines[src[k]])
            /\ events[k] = AuthEvent(lines[src[k]])
      /\ \A k, l \in 1 .. Len(events) : k # l => src[k] # src[l]
      /\ \A i \in 1 .. Len(lines) : Parses(lines[i]) =>
            \E k \in 1 .. Len(events) : src[k] = i
  BY <1>0 DEF EventLines
<1>2. /\ IsList(events) /\ Len(events) \in Nat /\ DOMAIN events = 1 .. Len(events)
      /\ IsFiniteSet(DOMAIN events)
  BY AuthEventsFacts, ListFacts
<1> HIDE DEF events
<1>3. \A k \in 1 .. Len(events) :
         /\ events[k].time = lines[src[k]].time /\ events[k].time \in Nat
         /\ events[k].ip = lines[src[k]].ip
         /\ IsTry(events[k]) <=> IsAttempt(lines[src[k]])
  BY <1>1, AttemptIsTry
<1>4. IsFiniteSet(P) /\ P \subseteq Nat /\ \A i \in P : events[i].time \in Int
  <2>1. P \subseteq DOMAIN events
    OBVIOUS
  <2>2. IsFiniteSet(P)
    <3> HIDE DEF P
    <3> QED  BY <1>2, <2>1, FS_Subset
  <2> QED  BY <1>2, <1>3, <2>1, <2>2
<1>5. attempts = SortedByTime(events, P)
  BY DEF Attempts
<1> HIDE DEF attempts
<1>6. PICK pos : /\ Lists(attempts, events, pos, P)
                 /\ \A m, n \in 1 .. Cardinality(P) :
                       m < n => events[pos[m]].time <= events[pos[n]].time
  <2> HIDE DEF P
  <2> QED  BY <1>4, <1>5, SortedLists
<1>7. /\ IsList(attempts) /\ Len(attempts) = Cardinality(P)
      /\ \A n \in 1 .. Len(attempts) : attempts[n] = events[pos[n]] /\ pos[n] \in P
      /\ Len(attempts) \in Nat /\ DOMAIN attempts = 1 .. Len(attempts)
  <2> HIDE DEF P
  <2> QED  BY <1>6, ListsFacts, ListFacts
<1>8. Sorted(times_)
  <2>1. \A n \in 1 .. Len(attempts) : times_[n] = events[pos[n]].time /\ times_[n] \in Nat
    BY <1>2, <1>3, <1>7
  <2>2. times_ \in [1 .. Len(attempts) -> Nat]
    BY <1>7, <2>1
  <2> HIDE DEF times_
  <2>3. times_ \in Seq(Nat) /\ Len(times_) = Len(attempts)
    BY <1>7, <2>2
  <2>4. ASSUME NEW j \in 1 .. Len(attempts), NEW k \in 1 .. Len(attempts), j <= k
        PROVE  times_[j] <= times_[k]
    <3>1. CASE j = k
      BY <2>1, <3>1
    <3>2. CASE j # k
      <4>1. j < k
        BY <1>7, <2>4, <3>2
      <4> QED  BY <1>6, <1>7, <2>1, <4>1
    <3> QED  BY <3>1, <3>2
  <2> QED  BY <2>3, <2>4 DEF Sorted
<1> DEFINE at == [m \in 1 .. Len(attempts) |-> src[pos[m]]]
<1>9. \A m \in 1 .. Len(attempts) : /\ pos[m] \in 1 .. Len(events) /\ at[m] = src[pos[m]]
                                    /\ IsTry(events[pos[m]]) /\ events[pos[m]].ip = ip
  BY <1>2, <1>7
<1> HIDE DEF at
<1>10. ASSUME NEW m \in 1 .. Len(attempts)
       PROVE  /\ at[m] \in 1 .. Len(lines) /\ IsAttempt(lines[at[m]])
              /\ lines[at[m]].ip = ip /\ attempts[m].time = lines[at[m]].time
  <2>1. /\ pos[m] \in 1 .. Len(events) /\ at[m] = src[pos[m]]
        /\ IsTry(events[pos[m]]) /\ events[pos[m]].ip = ip
        /\ attempts[m] = events[pos[m]]
    BY <1>7, <1>9
  <2>2. /\ events[pos[m]].time = lines[src[pos[m]]].time
        /\ events[pos[m]].ip = lines[src[pos[m]]].ip
        /\ IsTry(events[pos[m]]) <=> IsAttempt(lines[src[pos[m]]])
        /\ src[pos[m]] \in 1 .. Len(lines)
    BY <1>1, <1>3, <2>1
  <2> QED  BY <2>1, <2>2
<1>11. \A m, n \in 1 .. Len(attempts) : m # n => at[m] # at[n]
  <2>1. \A m, n \in 1 .. Len(attempts) : m # n => pos[m] # pos[n]
    BY <1>6, <1>7 DEF Lists
  <2> QED  BY <1>1, <1>9, <2>1
<1>12. ASSUME NEW i \in 1 .. Len(lines), IsAttempt(lines[i]), lines[i].ip = ip,
              Parses(lines[i])
       PROVE  \E m \in 1 .. Len(attempts) : at[m] = i
  <2>1. PICK k \in 1 .. Len(events) : src[k] = i
    BY <1>1, <1>12
  <2>2. k \in P
    BY <1>2, <1>3, <1>12, <2>1
  <2>3. PICK m \in 1 .. Len(attempts) : pos[m] = k
    <3> HIDE DEF P
    <3> QED  BY <1>6, <1>7, <2>2 DEF Lists
  <2> QED  BY <1>9, <2>1, <2>3
<1>13. AttemptLines(lines, ip, attempts, at)
  BY <1>10, <1>11, <1>12 DEF AttemptLines
<1> QED
  BY <1>7, <1>8, <1>13 DEF attempts, events

-----------------------------------------------------------------------------
(* rule_001.                                                               *)

LEMMA Larger ==
    ASSUME NEW x \in Int, NEW y \in Int
    PROVE  Max({x, y}) \in Int /\ Max({x, y}) >= x /\ Max({x, y}) >= y
           /\ Max({x, y}) \in {x, y}
<1>1. \E m \in {x, y} : \A z \in {x, y} : m >= z
  BY x <= y \/ y <= x
<1>2. Max({x, y}) \in {x, y} /\ \A z \in {x, y} : Max({x, y}) >= z
  BY <1>1 DEF Max
<1> QED
  BY <1>2

(* A burst is exactly at the threshold, so it is never AGGRESSIVE.         *)
LEMMA BurstIsNotCritical ==
    ASSUME NEW count \in Nat, count <= AggressiveRate, NEW duration \in Int
    PROVE  SpeedSeverity(count, duration) # "CRITICAL"
<1> DEFINE m == Max({duration, 1})
<1>1. m \in Int /\ m >= 1
  BY Larger
<1> HIDE DEF m
<1>2. AggressiveRate * m >= AggressiveRate
  <2>1. AggressiveRate \in Nat /\ m - 1 \in Nat
    BY <1>1, AuthAssumption
  <2>2. AggressiveRate * (m - 1) >= 0 /\ AggressiveRate * (m - 1) \in Int
    BY <2>1
  <2>3. AggressiveRate * m = AggressiveRate * (m - 1) + AggressiveRate
    BY <1>1, <2>1
  <2> QED  BY <2>1, <2>2, <2>3
<1>3. ~ (count > AggressiveRate * m)
  <2>1. AggressiveRate \in Nat /\ AggressiveRate * m \in Int
    BY <1>1, AuthAssumption
  <2> QED  BY <1>2, <2>1
<1> QED
  BY <1>3 DEF SpeedSeverity, m

LEMMA BruteAlertFacts ==
    ASSUME NEW attempts, IsList(attempts), NEW ip, NEW burst,
           Sorted([i \in DOMAIN attempts |-> attempts[i].time]),
           burst \subseteq DOMAIN attempts, Cardinality(burst) = BruteThreshold,
           Close(Brute, [i \in DOMAIN attempts |-> attempts[i].time], burst)
    PROVE  LET a == BruteAlert(attempts, burst, ip)
           IN  /\ a.rule = "rule_001" /\ a.actor = ip /\ a.key.who = ip
               /\ a.key.when = Day(a.first) /\ a.severity # "CRITICAL"
               /\ a.first \in Nat /\ a.last \in Nat /\ a.last - a.first <= BruteWindow
               /\ \A m \in burst : /\ attempts[m].time \in Nat
                                   /\ a.first <= attempts[m].time
                                   /\ attempts[m].time <= a.last
<1> DEFINE n == Len(attempts)
           ts == [i \in DOMAIN attempts |-> attempts[i].time]
           first == attempts[Min(burst)].time
           last == attempts[Max(burst)].time
<1>1. n \in Nat /\ DOMAIN attempts = 1 .. n
  BY ListFacts
<1>2. burst # {}
  BY FS_EmptySet, AuthAssumption
<1>3. /\ Min(burst) \in burst /\ \A x \in burst : Min(burst) <= x
      /\ Max(burst) \in burst /\ \A x \in burst : x <= Max(burst)
  <2> HIDE DEF n
  <2> QED  BY <1>1, <1>2, SmallestAndLargest
<1>4. /\ \A i \in 1 .. n : ts[i] = attempts[i].time
      /\ Len(ts) = n /\ ts \in Seq(Nat)
      /\ \A j, k \in 1 .. Len(ts) : j <= k => ts[j] <= ts[k]
  BY <1>1 DEF Sorted
<1>5. \A m \in burst : /\ attempts[m].time = ts[m] /\ ts[m] \in Nat
                       /\ ts[Min(burst)] <= ts[m] /\ ts[m] <= ts[Max(burst)]
  <2> HIDE DEF ts, n
  <2> QED  BY <1>1, <1>3, <1>4
<1>6. ts[Max(burst)] - ts[Min(burst)] <= BruteWindow
  <2>1. Close(Brute, ts, burst)
    OBVIOUS
  <2> HIDE DEF ts
  <2> QED  BY <1>3, <2>1 DEF Close, Brute
<1> HIDE DEF ts
<1>7. first \in Nat /\ last \in Nat /\ last - first <= BruteWindow
      /\ \A m \in burst : /\ attempts[m].time \in Nat
                          /\ first <= attempts[m].time /\ attempts[m].time <= last
  BY <1>3, <1>5, <1>6
<1> DEFINE a == BruteAlert(attempts, burst, ip)
<1>8. /\ a.rule = "rule_001" /\ a.actor = ip /\ a.key.who = ip
      /\ a.first = first /\ a.last = last /\ a.key.when = Day(first)
      /\ a.severity = SpeedSeverity(Cardinality(burst), last - first)
  BY DEF BruteAlert, AuthAlert
<1> HIDE DEF a, first, last
<1>9. a.severity # "CRITICAL"
  BY <1>7, <1>8, BurstIsNotCritical, AuthAssumption
<1> QED
  BY <1>7, <1>8, <1>9 DEF a

(* A burst of attempts in a batch, and an alert that reports it.           *)
BurstIn(lines, ip, near, t) ==
    /\ near \subseteq 1 .. Len(lines)
    /\ Cardinality(near) >= BruteThreshold
    /\ \A i \in near : /\ IsAttempt(lines[i]) /\ lines[i].ip = ip /\ Parses(lines[i])
                       /\ t <= lines[i].time /\ lines[i].time <= t + BruteWindow

Reports(a, ip, t) ==
    /\ a.rule = "rule_001" /\ a.actor = ip
    /\ a.first \in Nat /\ a.key.when = Day(a.first)
    /\ t - BruteWindow <= a.first /\ a.first <= t + BruteWindow

(* An alert of rule_001 and the lines it counts.                           *)
BruteBacked(lines, a) ==
    /\ a.rule = "rule_001" /\ a.actor = a.key.who /\ a.severity # "CRITICAL"
    /\ a.last - a.first <= BruteWindow
    /\ \E counted, at :
          /\ Cardinality(counted) = BruteThreshold
          /\ \A m \in counted :
                /\ at[m] \in 1 .. Len(lines) /\ IsAttempt(lines[at[m]])
                /\ lines[at[m]].ip = a.actor
                /\ a.first \in Nat /\ a.last \in Nat /\ lines[at[m]].time \in Nat
                /\ a.first <= lines[at[m]].time /\ lines[at[m]].time <= a.last
          /\ \A m, n \in counted : m # n => at[m] # at[n]

LEMMA BruteAlertsOfFacts ==
    ASSUME NEW lines, IsList(lines), \A i \in 1 .. Len(lines) : lines[i].time \in Nat,
           NEW ip
    PROVE  LET found == BruteAlertsOf(AuthEvents(lines), ip)
           IN  /\ IsList(found)
               /\ \A a \in ToSet(found) : BruteBacked(lines, a)
               /\ \A near : \A t \in Nat :
                     BurstIn(lines, ip, near, t) =>
                         \E a \in ToSet(found) : Reports(a, ip, t)
<1> DEFINE attempts == Attempts(AuthEvents(lines), ip)
           ts == [i \in DOMAIN attempts |-> attempts[i].time]
           bursts == BurstsOf(Brute, ts)
           found == BruteAlertsOf(AuthEvents(lines), ip)
<1>1. IsList(attempts) /\ Sorted(ts) /\ \E at : AttemptLines(lines, ip, attempts, at)
  BY AttemptsFacts
<1>2. PICK at : AttemptLines(lines, ip, attempts, at)
  BY <1>1
<1>3. Len(attempts) \in Nat /\ DOMAIN attempts = 1 .. Len(attempts) /\ Len(lines) \in Nat
  BY <1>1, ListFacts
<1>4. IsLimit(Brute) /\ Brute.seconds = BruteWindow /\ Brute.events = BruteThreshold
      /\ BruteWindow \in Nat /\ BruteThreshold \in Nat \ {0}
  BY AuthAssumption DEF IsLimit, Brute
<1>5. /\ IsList(bursts) /\ \A n \in DOMAIN bursts : bursts[n] \subseteq 1 .. Len(ts)
      /\ Exact(Brute, ts, bursts) /\ Unmissed(Brute, ts, 1 .. Len(ts), bursts)
  <2> HIDE DEF ts
  <2> QED  BY <1>1, <1>4, BurstsFacts
<1>6. Len(ts) = Len(attempts) /\ \A i \in 1 .. Len(attempts) : ts[i] = attempts[i].time
  BY <1>3
<1>7. Len(bursts) \in Nat /\ DOMAIN bursts = 1 .. Len(bursts)
  BY <1>5, ListFacts
<1>8. found = [n \in DOMAIN bursts |-> BruteAlert(attempts, bursts[n], ip)]
  BY DEF BruteAlertsOf
<1> HIDE DEF found, bursts
<1>9. IsList(found) /\ Len(found) = Len(bursts) /\ DOMAIN found = 1 .. Len(bursts)
  BY <1>7, <1>8, ListMade
<1>10. ASSUME NEW n \in DOMAIN bursts
       PROVE  LET a == BruteAlert(attempts, bursts[n], ip)
              IN  /\ found[n] = a /\ a \in ToSet(found)
                  /\ a.rule = "rule_001" /\ a.actor = ip /\ a.key.who = ip
                  /\ a.key.when = Day(a.first) /\ a.severity # "CRITICAL"
                  /\ a.first \in Nat /\ a.last \in Nat /\ a.last - a.first <= BruteWindow
                  /\ \A m \in bursts[n] : /\ attempts[m].time \in Nat
                                          /\ a.first <= attempts[m].time
                                          /\ attempts[m].time <= a.last
  <2>1. /\ bursts[n] \subseteq DOMAIN attempts
        /\ Cardinality(bursts[n]) = BruteThreshold /\ Close(Brute, ts, bursts[n])
    BY <1>3, <1>4, <1>5, <1>6 DEF Exact
  <2>2. found[n] = BruteAlert(attempts, bursts[n], ip) /\ found[n] \in ToSet(found)
    BY <1>7, <1>8, <1>9 DEF ToSet
  <2> HIDE DEF attempts
  <2> QED  BY <1>1, <2>1, <2>2, BruteAlertFacts
<1>11. \A m \in 1 .. Len(attempts) :
          /\ at[m] \in 1 .. Len(lines) /\ IsAttempt(lines[at[m]])
          /\ lines[at[m]].ip = ip /\ attempts[m].time = lines[at[m]].time
          /\ ts[m] = lines[at[m]].time
       /\ \A l \in 1 .. Len(attempts) : l # m => at[l] # at[m]
  BY <1>2, <1>6 DEF AttemptLines
<1>12. ASSUME NEW a \in ToSet(found)
       PROVE  BruteBacked(lines, a)
  <2>1. PICK n \in DOMAIN bursts : a = found[n]
    BY <1>7, <1>9 DEF ToSet
  <2>2. bursts[n] \subseteq 1 .. Len(attempts) /\ Cardinality(bursts[n]) = BruteThreshold
    BY <1>4, <1>5, <1>6 DEF Exact
  <2>3. /\ a.rule = "rule_001" /\ a.actor = ip /\ a.key.who = ip
        /\ a.severity # "CRITICAL"
        /\ a.first \in Nat /\ a.last \in Nat /\ a.last - a.first <= BruteWindow
        /\ \A m \in bursts[n] : /\ attempts[m].time \in Nat
                                /\ a.first <= attempts[m].time
                                /\ attempts[m].time <= a.last
    BY <1>10, <2>1
  <2>4. \A m \in bursts[n] :
           /\ at[m] \in 1 .. Len(lines) /\ IsAttempt(lines[at[m]])
           /\ lines[at[m]].ip = a.actor
           /\ a.first \in Nat /\ a.last \in Nat /\ lines[at[m]].time \in Nat
           /\ a.first <= lines[at[m]].time /\ lines[at[m]].time <= a.last
    BY <1>11, <2>2, <2>3
  <2>5. \A m, l \in bursts[n] : m # l => at[m] # at[l]
    BY <1>11, <2>2
  <2> QED  BY <2>2, <2>3, <2>4, <2>5 DEF BruteBacked
<1>13. ASSUME NEW near, NEW t \in Nat, BurstIn(lines, ip, near, t)
       PROVE  \E a \in ToSet(found) : Reports(a, ip, t)
  <2> DEFINE these == {m \in 1 .. Len(attempts) : at[m] \in near}
             place == [i \in near |-> CHOOSE m \in these : at[m] = i]
  <2>0. /\ near \subseteq 1 .. Len(lines) /\ Cardinality(near) >= BruteThreshold
        /\ \A i \in near : /\ IsAttempt(lines[i]) /\ lines[i].ip = ip
                           /\ Parses(lines[i]) /\ t <= lines[i].time
                           /\ lines[i].time <= t + BruteWindow
    BY <1>13 DEF BurstIn
  <2>1. \A i \in near : place[i] \in these /\ at[place[i]] = i
    <3> SUFFICES ASSUME NEW i \in near
                 PROVE  place[i] \in these /\ at[place[i]] = i
      OBVIOUS
    <3>1. \E m \in these : at[m] = i
      BY <1>2, <2>0 DEF AttemptLines
    <3> QED  BY <3>1
  <2> HIDE DEF place
  <2>2. IsFiniteSet(these) /\ these \subseteq 1 .. Len(attempts)
    BY <1>3, IntervalFacts, FS_Subset
  <2>3. Cardinality(near) <= Cardinality(these)
    <3>1. \A i, j \in near : i # j => place[i] # place[j]
      BY <2>1
    <3> HIDE DEF these
    <3> QED  BY <2>1, <2>2, <3>1, CountedInto
  <2>4. Cardinality(these) >= BruteThreshold
    <3>1. Cardinality(these) \in Nat /\ Cardinality(near) \in Nat
      <4>1. IsFiniteSet(near)
        BY <1>3, <2>0, IntervalFacts, FS_Subset
      <4> QED  BY <2>2, <4>1, FS_CardinalityType
    <3> QED  BY <1>4, <2>0, <2>3, <3>1
  <2>5. PICK run \in SUBSET these : Cardinality(run) = BruteThreshold
    <3> HIDE DEF these
    <3> QED  BY <1>4, <2>2, <2>4, SubsetOfSize
  <2>6. \A m \in these : t <= ts[m] /\ ts[m] <= t + BruteWindow /\ ts[m] \in Nat
    BY <1>11, <2>0
  <2>7. Close(Brute, ts, run)
    <3>1. ASSUME NEW j \in run, NEW k \in run
          PROVE  ts[k] - ts[j] <= BruteWindow
      <4>1. /\ t <= ts[j] /\ ts[j] \in Nat /\ ts[k] <= t + BruteWindow /\ ts[k] \in Nat
        BY <2>6
      <4> QED  BY <1>4, <4>1
    <3> QED  BY <1>4, <3>1 DEF Close
  <2>8. PICK n \in DOMAIN bursts : bursts[n] \intersect run # {}
    BY <1>4, <1>5, <1>6, <2>2, <2>5, <2>7 DEF Unmissed
  <2>9. PICK m \in bursts[n] : m \in these
    BY <2>8
  <2> DEFINE a == BruteAlert(attempts, bursts[n], ip)
  <2>10. /\ a \in ToSet(found) /\ a.rule = "rule_001" /\ a.actor = ip
         /\ a.first \in Nat /\ a.key.when = Day(a.first) /\ a.last \in Nat
         /\ a.last - a.first <= BruteWindow
         /\ a.first <= attempts[m].time /\ attempts[m].time <= a.last
    BY <1>10, <2>9
  <2>11. t <= attempts[m].time /\ attempts[m].time <= t + BruteWindow
         /\ attempts[m].time \in Nat
    BY <1>6, <2>2, <2>6, <2>9
  <2> HIDE DEF a
  <2>12. t - BruteWindow <= a.first /\ a.first <= t + BruteWindow
    BY <1>4, <2>10, <2>11
  <2> QED  BY <2>10, <2>12 DEF Reports
<1> QED
  BY <1>9, <1>12, <1>13 DEF found

LEMMA AddressFacts ==
    ASSUME NEW events, IsList(events)
    PROVE  /\ IsList(AddressesOf(events))
           /\ \A k \in 1 .. Len(events) : IsTry(events[k]) =>
                 \E i \in 1 .. Len(AddressesOf(events)) :
                     AddressesOf(events)[i] = events[k].ip
<1> DEFINE P == {i \in DOMAIN events : IsTry(events[i])}
           tries == Kept(events, P)
           ips == [i \in DOMAIN tries |-> tries[i].ip]
<1>1. Len(events) \in Nat /\ DOMAIN events = 1 .. Len(events) /\ IsFiniteSet(DOMAIN events)
  BY ListFacts
<1>2. IsFiniteSet(P) /\ P \subseteq Nat
  BY <1>1, FS_Subset
<1>3. PICK pos : Lists(tries, events, pos, P)
  <2> HIDE DEF P
  <2> QED  BY <1>2, KeptLists
<1>4. /\ IsList(tries) /\ ToSet(tries) = {events[i] : i \in P}
      /\ Len(tries) \in Nat /\ DOMAIN tries = 1 .. Len(tries)
  <2> HIDE DEF P, tries
  <2> QED  BY <1>3, ListsFacts, ListFacts
<1>5. AddressesOf(events) = Distinct(ips)
  BY DEF AddressesOf
<1> HIDE DEF tries
<1>6. IsList(ips) /\ DOMAIN ips = 1 .. Len(tries)
  BY <1>4, ListMade
<1>7. IsList(Distinct(ips)) /\ ToSet(Distinct(ips)) = ToSet(ips)
  <2> HIDE DEF ips
  <2> QED  BY <1>6, DistinctFacts
<1>8. ASSUME NEW k \in 1 .. Len(events), IsTry(events[k])
      PROVE  \E i \in 1 .. Len(AddressesOf(events)) : AddressesOf(events)[i] = events[k].ip
  <2>1. events[k] \in ToSet(tries)
    BY <1>1, <1>4, <1>8
  <2>2. PICK j \in 1 .. Len(tries) : tries[j] = events[k]
    BY <1>4, <2>1 DEF ToSet
  <2>3. ips[j] = events[k].ip /\ ips[j] \in ToSet(ips)
    BY <1>4, <1>6, <2>2 DEF ToSet
  <2> HIDE DEF ips
  <2>4. events[k].ip \in ToSet(AddressesOf(events))
    BY <1>5, <1>7, <2>3
  <2> QED  BY <1>5, <1>7, <2>4, ListFacts DEF ToSet
<1> QED
  BY <1>5, <1>7, <1>8

LEMMA BruteForceFacts ==
    ASSUME NEW lines, IsList(lines), \A i \in 1 .. Len(lines) : lines[i].time \in Nat
    PROVE  LET found == BruteForce(AuthEvents(lines))
           IN  /\ IsList(found)
               /\ \A a \in ToSet(found) : BruteBacked(lines, a)
               /\ \A ip, near : \A t \in Nat :
                     BurstIn(lines, ip, near, t) =>
                         \E a \in ToSet(found) : Reports(a, ip, t)
<1> DEFINE events == AuthEvents(lines)
           ips == AddressesOf(events)
           each == [i \in DOMAIN ips |-> BruteAlertsOf(events, ips[i])]
           found == BruteForce(events)
<1>1. IsList(events) /\ IsList(ips) /\ Len(ips) \in Nat /\ DOMAIN ips = 1 .. Len(ips)
  BY AuthEventsFacts, AddressFacts, ListFacts
<1>2. found = FlattenSeq(each)
  BY DEF BruteForce
<1> HIDE DEF found
<1>3. IsList(each) /\ Len(each) = Len(ips) /\ DOMAIN each = 1 .. Len(ips)
  BY <1>1, ListMade
<1>4. \A i \in 1 .. Len(each) : each[i] = BruteAlertsOf(events, ips[i])
  BY <1>1, <1>3
<1>5. \A i \in 1 .. Len(each) : /\ IsList(each[i])
                                /\ \A a \in ToSet(each[i]) : BruteBacked(lines, a)
  BY <1>4, BruteAlertsOfFacts
<1> HIDE DEF each
<1>6. Joined(found, each, Len(each))
  BY <1>2, <1>3, <1>5, Flattened
<1>7. ASSUME NEW a \in ToSet(found)
      PROVE  BruteBacked(lines, a)
  <2>1. PICK i \in 1 .. Len(each) : \E j \in 1 .. Len(each[i]) : a = each[i][j]
    BY <1>6, JoinedFrom
  <2>2. a \in ToSet(each[i])
    BY <1>5, <2>1, ListFacts
  <2> QED  BY <1>5, <2>2
<1>8. ASSUME NEW ip, NEW near, NEW t \in Nat, BurstIn(lines, ip, near, t)
      PROVE  \E a \in ToSet(found) : Reports(a, ip, t)
  <2>1. near # {}
    <3>1. Cardinality(near) >= BruteThreshold /\ BruteThreshold \in Nat \ {0}
      BY <1>8, AuthAssumption DEF BurstIn
    <3>2. ASSUME near = {} PROVE FALSE
      <4>1. Cardinality(near) = 0
        BY <3>2, FS_EmptySet
      <4> QED  BY <3>1, <4>1
    <3> QED  BY <3>2
  <2>2. PICK l \in near : /\ l \in 1 .. Len(lines) /\ IsAttempt(lines[l])
                          /\ lines[l].ip = ip /\ Parses(lines[l])
    BY <1>8, <2>1 DEF BurstIn
  <2>3. PICK src : EventLines(lines, events, src)
    BY AuthEventsFacts
  <2>4. PICK k \in 1 .. Len(events) : src[k] = l /\ events[k] = AuthEvent(lines[l])
    BY <2>2, <2>3 DEF EventLines
  <2>5. IsTry(events[k]) /\ events[k].ip = ip
    BY <2>2, <2>4, AttemptIsTry
  <2>6. PICK i \in 1 .. Len(ips) : ips[i] = ip
    BY <1>1, <2>5, AddressFacts
  <2>7. each[i] = BruteAlertsOf(events, ip) /\ ToSet(each[i]) \subseteq ToSet(found)
    BY <1>3, <1>4, <1>6, <2>6 DEF Joined
  <2>8. \E a \in ToSet(BruteAlertsOf(events, ip)) : Reports(a, ip, t)
    BY <1>8, BruteAlertsOfFacts
  <2> QED  BY <2>7, <2>8
<1> QED
  BY <1>6, <1>7, <1>8 DEF found, Joined

-----------------------------------------------------------------------------
(* rule_007 and rule_003.                                                  *)

InTimeOrder(lines) ==
    \A i, j \in 1 .. Len(lines) : i <= j => lines[i].time <= lines[j].time

(* The list of failures: which lines of the batch it stands for.           *)
FailureLines(lines, ip, failures, at) ==
    /\ \A m \in 1 .. Len(failures) :
          /\ at[m] \in 1 .. Len(lines) /\ lines[at[m]].kind = "failed"
          /\ lines[at[m]].ip = ip /\ failures[m].time = lines[at[m]].time
    /\ \A m, n \in 1 .. Len(failures) : /\ m # n => at[m] # at[n]
                                        /\ m <= n => at[m] <= at[n]

LEMMA ResultFacts ==
    ASSUME NEW line
    PROVE  LET e == AuthEvent(line)
           IN  /\ e.ip = line.ip /\ e.time = line.time
               /\ e.result = "failed" => line.kind = "failed"
               /\ e.result = "accepted" => line.kind = "accepted"
<1>1. AuthResult(line) \in {"failed", "accepted"} => AuthResult(line) = line.kind
  BY DEF AuthResult
<1>2. AuthEvent(line).result = AuthResult(line)
      /\ AuthEvent(line).ip = line.ip /\ AuthEvent(line).time = line.time
  BY DEF AuthEvent
<1> QED
  BY <1>1, <1>2

LEMMA FailuresFacts ==
    ASSUME NEW lines, IsList(lines), NEW ip
    PROVE  LET failures == Failures(AuthEvents(lines), ip)
           IN  IsList(failures) /\ \E at : FailureLines(lines, ip, failures, at)
<1> DEFINE events == AuthEvents(lines)
           failures == Failures(events, ip)
           P == {i \in DOMAIN events : events[i].result = "failed" /\ events[i].ip = ip}
<1>0. PICK src : EventLines(lines, events, src)
  BY AuthEventsFacts
<1>1. /\ \A k \in 1 .. Len(events) :
            src[k] \in 1 .. Len(lines) /\ events[k] = AuthEvent(lines[src[k]])
      /\ \A k, l \in 1 .. Len(events) : /\ k # l => src[k] # src[l]
                                        /\ k < l => src[k] <= src[l]
  BY <1>0 DEF EventLines
<1>2. /\ IsList(events) /\ Len(events) \in Nat /\ DOMAIN events = 1 .. Len(events)
      /\ IsFiniteSet(DOMAIN events) /\ Len(lines) \in Nat
  BY AuthEventsFacts, ListFacts
<1> HIDE DEF events
<1>3. \A k \in 1 .. Len(events) :
         /\ events[k].time = lines[src[k]].time /\ events[k].ip = lines[src[k]].ip
         /\ events[k].result = "failed" => lines[src[k]].kind = "failed"
  BY <1>1, ResultFacts
<1>4. IsFiniteSet(P) /\ P \subseteq Nat
  BY <1>2, FS_Subset
<1>5. failures = Kept(events, P)
  BY DEF Failures
<1> HIDE DEF failures
<1>6. PICK pos : /\ Lists(failures, events, pos, P)
                 /\ \A m, n \in 1 .. Cardinality(P) : m < n => pos[m] <= pos[n]
  <2> HIDE DEF P
  <2> QED  BY <1>4, <1>5, KeptLists
<1>7. /\ IsList(failures) /\ Len(failures) = Cardinality(P)
      /\ \A n \in 1 .. Len(failures) : failures[n] = events[pos[n]] /\ pos[n] \in P
      /\ Len(failures) \in Nat
  <2> HIDE DEF P
  <2> QED  BY <1>6, ListsFacts, ListFacts
<1> DEFINE at == [m \in 1 .. Len(failures) |-> src[pos[m]]]
<1>8. \A m \in 1 .. Len(failures) :
         /\ pos[m] \in 1 .. Len(events) /\ at[m] = src[pos[m]]
         /\ events[pos[m]].result = "failed" /\ events[pos[m]].ip = ip
  BY <1>2, <1>7
<1>9. \A m, n \in 1 .. Len(failures) : m # n => pos[m] # pos[n]
  BY <1>6, <1>7 DEF Lists
<1> HIDE DEF at
<1>10. ASSUME NEW m \in 1 .. Len(failures)
       PROVE  /\ at[m] \in 1 .. Len(lines) /\ lines[at[m]].kind = "failed"
              /\ lines[at[m]].ip = ip /\ failures[m].time = lines[at[m]].time
  <2>1. /\ pos[m] \in 1 .. Len(events) /\ at[m] = src[pos[m]]
        /\ failures[m] = events[pos[m]]
    BY <1>7, <1>8
  <2> QED  BY <1>1, <1>3, <1>8, <2>1, SMTT(30)
<1>11. ASSUME NEW m \in 1 .. Len(failures), NEW n \in 1 .. Len(failures)
       PROVE  /\ m # n => at[m] # at[n]
              /\ m <= n => at[m] <= at[n]
  <2>1. m # n => at[m] # at[n]
    BY <1>1, <1>8, <1>9
  <2>2. at[m] \in Nat /\ at[n] \in Nat
    BY <1>2, <1>10
  <2>3. ASSUME m < n
        PROVE  at[m] <= at[n]
    <3>1. pos[m] <= pos[n] /\ pos[m] # pos[n]
      BY <1>6, <1>7, <1>9, <2>3
    <3>2. pos[m] < pos[n]
      BY <1>2, <1>8, <3>1
    <3> QED  BY <1>1, <1>8, <3>2, SMTT(60)
  <2> QED  BY <1>7, <2>1, <2>2, <2>3
<1>12. FailureLines(lines, ip, failures, at)
  BY <1>10, <1>11 DEF FailureLines
<1> QED
  BY <1>7, <1>12 DEF failures, events

(* An alert of rule_007, the login and the failures it stands on.          *)
SuccessBacked(lines, a) ==
    /\ a.rule = "rule_007" /\ a.actor = a.key.who
    /\ \E i \in 1 .. Len(lines) : /\ lines[i].kind = "accepted" /\ lines[i].ip = a.actor
                                  /\ lines[i].time = a.last
    /\ \E i \in 1 .. Len(lines) :
          /\ lines[i].kind = "failed" /\ lines[i].ip = a.actor
          /\ lines[i].time \in Nat /\ a.last \in Nat
          /\ a.last - SuccessWindow <= lines[i].time /\ lines[i].time <= a.last
    /\ \E n \in Nat : \E at :
          /\ n >= SuccessThreshold
          /\ \A m \in 1 .. n :
                /\ at[m] \in 1 .. Len(lines) /\ lines[at[m]].kind = "failed"
                /\ lines[at[m]].ip = a.actor
                /\ a.first \in Nat /\ a.last \in Nat /\ lines[at[m]].time \in Nat
                /\ a.first <= lines[at[m]].time /\ lines[at[m]].time <= a.last
          /\ \A l, m \in 1 .. n : l # m => at[l] # at[m]

LEMMA BruteSuccessFacts ==
    ASSUME NEW lines, IsList(lines), \A i \in 1 .. Len(lines) : lines[i].time \in Nat,
           InTimeOrder(lines)
    PROVE  LET found == BruteSuccess(AuthEvents(lines))
           IN  IsList(found) /\ \A a \in ToSet(found) : SuccessBacked(lines, a)
<1> DEFINE events == AuthEvents(lines)
           P == {i \in DOMAIN events :
                    /\ events[i].result = "accepted"
                    /\ Succeeds(events[i], Failures(events, events[i].ip))}
           hits == Kept(events, P)
           found == BruteSuccess(events)
<1>1. /\ IsList(events) /\ Len(events) \in Nat /\ DOMAIN events = 1 .. Len(events)
      /\ IsFiniteSet(DOMAIN events) /\ Len(lines) \in Nat
  BY AuthEventsFacts, ListFacts
<1>2. IsFiniteSet(P) /\ P \subseteq Nat
  BY <1>1, FS_Subset
<1>3. PICK pos : Lists(hits, events, pos, P)
  <2> HIDE DEF P
  <2> QED  BY <1>2, KeptLists
<1>4. /\ IsList(hits) /\ \A n \in 1 .. Len(hits) : hits[n] = events[pos[n]] /\ pos[n] \in P
      /\ Len(hits) \in Nat /\ DOMAIN hits = 1 .. Len(hits)
  <2> HIDE DEF P, hits
  <2> QED  BY <1>3, ListsFacts, ListFacts
<1>5. found = [i \in DOMAIN hits |->
                  AuthAlert("rule_007",
                      [who |-> hits[i].ip, what |-> <<hits[i].user>>, when |-> 0],
                      "CRITICAL", hits[i].ip,
                      Head(Failures(events, hits[i].ip)).time, hits[i].time)]
  BY DEF BruteSuccess
<1> HIDE DEF found, hits
<1>6. IsList(found) /\ DOMAIN found = 1 .. Len(hits)
  BY <1>4, <1>5, ListMade
<1>7. ASSUME NEW a \in ToSet(found)
      PROVE  SuccessBacked(lines, a)
  <2>1. PICK n \in 1 .. Len(hits) : a = found[n]
    BY <1>6 DEF ToSet
  <2> DEFINE e == hits[n]
             failures == Failures(events, e.ip)
  <2>2. PICK k \in 1 .. Len(events) : /\ e = events[k] /\ e.result = "accepted"
                                      /\ Succeeds(e, failures)
    BY <1>1, <1>4
  <2>3. PICK src : EventLines(lines, events, src)
    BY AuthEventsFacts
  <2>4. /\ src[k] \in 1 .. Len(lines) /\ e.ip = lines[src[k]].ip
        /\ e.time = lines[src[k]].time /\ lines[src[k]].kind = "accepted"
    <3>1. src[k] \in 1 .. Len(lines) /\ events[k] = AuthEvent(lines[src[k]])
      BY <2>3 DEF EventLines
    <3> HIDE DEF e
    <3> QED  BY <2>2, <3>1, ResultFacts
  <2>5. IsList(failures) /\ \E at : FailureLines(lines, e.ip, failures, at)
    BY FailuresFacts
  <2>6. PICK at : FailureLines(lines, e.ip, failures, at)
    BY <2>5
  <2>7. /\ a.rule = "rule_007" /\ a.actor = e.ip /\ a.key.who = e.ip
        /\ a.last = e.time /\ a.first = Head(failures).time
    BY <1>4, <1>5, <2>1 DEF AuthAlert
  <2> HIDE DEF e, failures
  <2> DEFINE N == Len(failures)
  <2>8. /\ N \in Nat /\ N >= SuccessThreshold /\ N >= 1
        /\ 1 \in 1 .. N /\ N \in 1 .. N
    BY <2>2, <2>5, ListFacts, AuthAssumption DEF Succeeds
  <2>9. Head(failures) = failures[1] /\ Last(failures) = failures[N]
    <3>1. failures \in Seq(ToSet(failures))
      BY <2>5 DEF IsList
    <3> QED  BY <2>8, <3>1 DEF Last
  <2>10. \A m \in 1 .. N :
            /\ at[m] \in 1 .. Len(lines) /\ lines[at[m]].kind = "failed"
            /\ lines[at[m]].ip = e.ip /\ failures[m].time = lines[at[m]].time
            /\ lines[at[m]].time \in Nat
    BY <2>6 DEF FailureLines
  <2>11. \A l, m \in 1 .. N : /\ l # m => at[l] # at[m]
                              /\ l <= m => at[l] <= at[m]
    BY <2>6 DEF FailureLines
  <2> HIDE DEF N
  <2>12. /\ a.first = lines[at[1]].time /\ a.first \in Nat
         /\ a.last = lines[src[k]].time /\ a.last \in Nat
    BY <2>4, <2>7, <2>8, <2>9, <2>10, SMTT(30)
  <2>13. /\ a.last - SuccessWindow <= lines[at[N]].time
         /\ lines[at[N]].time <= a.last
    <3>1. e.time - failures[N].time \in 0 .. SuccessWindow
      BY <2>2, <2>9 DEF Succeeds
    <3>2. /\ failures[N].time = lines[at[N]].time /\ lines[at[N]].time \in Nat
          /\ e.time = a.last /\ a.last \in Nat /\ SuccessWindow \in Nat
      BY <2>4, <2>8, <2>10, <2>12, AuthAssumption
    <3> QED  BY <3>1, <3>2
  <2>14. ASSUME NEW m \in 1 .. N
         PROVE  a.first <= lines[at[m]].time /\ lines[at[m]].time <= a.last
    <3>1. at[1] <= at[m] /\ at[m] <= at[N]
      BY <2>8, <2>11
    <3>2. lines[at[1]].time <= lines[at[m]].time /\ lines[at[m]].time <= lines[at[N]].time
      BY <2>8, <2>10, <3>1 DEF InTimeOrder
    <3>3. /\ lines[at[m]].time \in Nat /\ lines[at[N]].time \in Nat
      BY <2>8, <2>10
    <3> QED  BY <2>12, <2>13, <3>2, <3>3
  <2>15. \E i \in 1 .. Len(lines) : /\ lines[i].kind = "accepted" /\ lines[i].ip = a.actor
                                    /\ lines[i].time = a.last
    BY <2>4, <2>7
  <2>16. \E i \in 1 .. Len(lines) :
            /\ lines[i].kind = "failed" /\ lines[i].ip = a.actor
            /\ lines[i].time \in Nat /\ a.last \in Nat
            /\ a.last - SuccessWindow <= lines[i].time /\ lines[i].time <= a.last
    BY <2>7, <2>8, <2>10, <2>12, <2>13
  <2>17. \A m \in 1 .. N :
            /\ at[m] \in 1 .. Len(lines) /\ lines[at[m]].kind = "failed"
            /\ lines[at[m]].ip = a.actor
            /\ a.first \in Nat /\ a.last \in Nat /\ lines[at[m]].time \in Nat
            /\ a.first <= lines[at[m]].time /\ lines[at[m]].time <= a.last
    BY <2>7, <2>10, <2>12, <2>14
  <2>18. \A l, m \in 1 .. N : l # m => at[l] # at[m]
    BY <2>11
  <2>19. \E n_ \in Nat : \E at_ :
            /\ n_ >= SuccessThreshold
            /\ \A m \in 1 .. n_ :
                  /\ at_[m] \in 1 .. Len(lines) /\ lines[at_[m]].kind = "failed"
                  /\ lines[at_[m]].ip = a.actor
                  /\ a.first \in Nat /\ a.last \in Nat /\ lines[at_[m]].time \in Nat
                  /\ a.first <= lines[at_[m]].time /\ lines[at_[m]].time <= a.last
            /\ \A l, m \in 1 .. n_ : l # m => at_[l] # at_[m]
    BY <2>8, <2>17, <2>18, ZenonT(30)
  <2> QED  BY <2>7, <2>15, <2>16, <2>19 DEF SuccessBacked
<1> QED
  BY <1>6, <1>7 DEF found

LEMMA NewUserFacts ==
    ASSUME NEW events, IsList(events)
    PROVE  /\ IsList(NewUser(events))
           /\ \A a \in ToSet(NewUser(events)) : a.rule = "rule_003" /\ a.actor = a.key.who
<1> DEFINE P == {i \in DOMAIN events : events[i].newUser}
           created == Kept(events, P)
           found == NewUser(events)
<1>1. IsFiniteSet(P) /\ P \subseteq Nat
  BY ListFacts, FS_Subset
<1>2. PICK pos : Lists(created, events, pos, P)
  <2> HIDE DEF P
  <2> QED  BY <1>1, KeptLists
<1>3. Len(created) \in Nat /\ DOMAIN created = 1 .. Len(created)
  <2> HIDE DEF P, created
  <2> QED  BY <1>2, ListsFacts, ListFacts
<1>4. found = [i \in DOMAIN created |->
                  AuthAlert("rule_003",
                      [who |-> created[i].user, what |-> <<>>, when |-> 0],
                      IF created[i].user \in SuspiciousNames THEN "CRITICAL" ELSE "HIGH",
                      created[i].user, created[i].time, created[i].time)]
  BY DEF NewUser
<1> HIDE DEF found, created
<1>5. IsList(found) /\ DOMAIN found = 1 .. Len(created)
  BY <1>3, <1>4, ListMade
<1>6. \A i \in DOMAIN found : found[i].rule = "rule_003" /\ found[i].actor = found[i].key.who
  BY <1>3, <1>4, <1>5 DEF AuthAlert
<1> QED
  BY <1>5, <1>6 DEF ToSet, found

(* What the rules raise over a batch of auth.log.                          *)
LEMMA AuthAlertsFacts ==
    ASSUME NEW lines, IsList(lines), \A i \in 1 .. Len(lines) : lines[i].time \in Nat,
           InTimeOrder(lines)
    PROVE  /\ IsList(AuthAlerts(lines))
           /\ \A a \in ToSet(AuthAlerts(lines)) :
                 \/ BruteBacked(lines, a) \/ SuccessBacked(lines, a)
                 \/ a.rule = "rule_003" /\ a.actor = a.key.who
           /\ \A ip, near : \A t \in Nat :
                 BurstIn(lines, ip, near, t) =>
                     \E a \in ToSet(AuthAlerts(lines)) : Reports(a, ip, t)
<1> DEFINE events == AuthEvents(lines)
           brute == BruteForce(events)
           new == NewUser(events)
           success == BruteSuccess(events)
<1>1. /\ IsList(brute) /\ \A a \in ToSet(brute) : BruteBacked(lines, a)
      /\ \A ip, near : \A t \in Nat :
            BurstIn(lines, ip, near, t) => \E a \in ToSet(brute) : Reports(a, ip, t)
  BY BruteForceFacts
<1>2. IsList(new) /\ \A a \in ToSet(new) : a.rule = "rule_003" /\ a.actor = a.key.who
  BY AuthEventsFacts, NewUserFacts
<1>3. IsList(success) /\ \A a \in ToSet(success) : SuccessBacked(lines, a)
  BY BruteSuccessFacts
<1>4. AuthAlerts(lines) = (brute \o new) \o success
  BY DEF AuthAlerts
<1> HIDE DEF brute, new, success
<1>5. IsList(brute \o new) /\ ToSet(brute \o new) = ToSet(brute) \union ToSet(new)
  BY <1>1, <1>2, Concatenated
<1>6. /\ IsList((brute \o new) \o success)
      /\ ToSet((brute \o new) \o success) = (ToSet(brute) \union ToSet(new)) \union ToSet(success)
  BY <1>3, <1>5, Concatenated
<1> QED
  BY <1>1, <1>2, <1>3, <1>4, <1>6

-----------------------------------------------------------------------------
(* Lists of alerts about single events: who they are about follows from    *)
(* their rule and key.                                                     *)

RootName == ActorName(CHOOSE r \in Entries["cloudtrail"] : r.type = "Root")

NamedByKey(a) ==
    /\ a.rule \notin {"rule_006", "rule_017"} => a.actor = a.key.who
    /\ a.rule = "rule_006" => a.actor = RootName

Plain(a) ==
    /\ NamedByKey(a)
    /\ a.rule \notin {"rule_001", "rule_007", "rule_012", "rule_013", "rule_015"}

PlainList(s) == IsList(s) /\ \A a \in ToSet(s) : Plain(a)

LEMMA ShortLists ==
    /\ PlainList(<<>>) /\ IsList(<<>>) /\ ToSet(<<>>) = {}
    /\ \A x : IsList(<<x>>) /\ ToSet(<<x>>) = {x} /\ Len(<<x>>) = 1 /\ <<x>>[1] = x
    /\ \A a : Plain(a) => PlainList(<<a>>)
<1>1. IsList(<<>>) /\ ToSet(<<>>) = {}
  BY DEF IsList, ToSet
<1>2. ASSUME NEW x
      PROVE  IsList(<<x>>) /\ ToSet(<<x>>) = {x} /\ Len(<<x>>) = 1 /\ <<x>>[1] = x
  <2>1. DOMAIN <<x>> = 1 .. 1 /\ Len(<<x>>) = 1 /\ <<x>>[1] = x
    OBVIOUS
  <2>2. ToSet(<<x>>) = {x}
    BY <2>1 DEF ToSet
  <2> QED  BY <2>1, <2>2 DEF IsList
<1> QED
  BY <1>1, <1>2 DEF PlainList

LEMMA PlainJoined ==
    ASSUME NEW s, IsList(s), NEW ss, DOMAIN ss = DOMAIN s,
           ss = [i \in DOMAIN ss |-> ss[i]], \A i \in DOMAIN s : PlainList(ss[i])
    PROVE  PlainList(FlattenSeq(ss))
<1>1. IsList(ss) /\ Len(ss) = Len(s) /\ \A i \in 1 .. Len(ss) : PlainList(ss[i])
  BY ListFacts, ListMade
<1>2. Joined(FlattenSeq(ss), ss, Len(ss))
  BY <1>1, Flattened DEF PlainList
<1>3. ASSUME NEW a \in ToSet(FlattenSeq(ss))
      PROVE  Plain(a)
  <2>1. PICK i \in 1 .. Len(ss) : \E j \in 1 .. Len(ss[i]) : a = ss[i][j]
    BY <1>2, JoinedFrom
  <2> QED  BY <1>1, <2>1, ListFacts DEF PlainList
<1> QED
  BY <1>2, <1>3 DEF Joined, PlainList

LEMMA PlainConcatenated ==
    ASSUME NEW s, NEW t, PlainList(s), PlainList(t)
    PROVE  PlainList(s \o t)
  BY Concatenated DEF PlainList

LEMMA FalcoPlain ==
    ASSUME NEW s, IsList(s)
    PROVE  PlainList(FalcoAlerts(s))
<1> DEFINE ss == [i \in DOMAIN s |-> FalcoPassthrough(s[i])]
<1>1. ASSUME NEW a PROVE PlainList(FalcoPassthrough(a))
  BY ShortLists DEF FalcoPassthrough, Plain, NamedByKey
<1>2. PlainList(FlattenSeq(ss))
  BY <1>1, PlainJoined
<1> QED
  BY <1>2 DEF FalcoAlerts, Each

LEMMA CloudTrailPlain ==
    ASSUME NEW s, IsList(s), \A i \in DOMAIN s : s[i] \in Entries["cloudtrail"]
    PROVE  PlainList(CloudTrailAlerts(s))
<1>1. ASSUME NEW r \in Entries["cloudtrail"], r.type = "Root"
      PROVE  ActorName(r) = RootName
  <2> DEFINE q == CHOOSE q \in Entries["cloudtrail"] : q.type = "Root"
  <2>1. q \in Entries["cloudtrail"] /\ q.type = "Root"
    BY <1>1
  <2>2. RootName = ActorName(q)
    BY DEF RootName
  <2> HIDE DEF q
  <2> QED  BY <1>1, <2>1, <2>2, RootAssumption
<1>2. ASSUME NEW r \in Entries["cloudtrail"]
      PROVE  /\ PlainList(NoMfaLogin(r)) /\ PlainList(RootLogin(r))
             /\ PlainList(CloudTrailDisabled(r)) /\ PlainList(CanaryUsed(r))
  <2>1. PlainList(NoMfaLogin(r))
    BY ShortLists DEF NoMfaLogin, CloudAlert, Plain, NamedByKey
  <2>2. PlainList(RootLogin(r))
    BY <1>1, ShortLists DEF RootLogin, CloudAlert, Plain, NamedByKey
  <2>3. PlainList(CloudTrailDisabled(r))
    BY ShortLists DEF CloudTrailDisabled, CloudAlert, Plain, NamedByKey
  <2>4. PlainList(CanaryUsed(r))
    BY ShortLists DEF CanaryUsed, CloudAlert, Plain, NamedByKey
  <2> QED  BY <2>1, <2>2, <2>3, <2>4
<1>3. PlainList(Each(NoMfaLogin, s))
  <2> DEFINE ss == [i \in DOMAIN s |-> NoMfaLogin(s[i])]
  <2>1. PlainList(FlattenSeq(ss))
    BY <1>2, PlainJoined
  <2> QED  BY <2>1 DEF Each
<1>4. PlainList(Each(RootLogin, s))
  <2> DEFINE ss == [i \in DOMAIN s |-> RootLogin(s[i])]
  <2>1. PlainList(FlattenSeq(ss))
    BY <1>2, PlainJoined
  <2> QED  BY <2>1 DEF Each
<1>5. PlainList(Each(CloudTrailDisabled, s))
  <2> DEFINE ss == [i \in DOMAIN s |-> CloudTrailDisabled(s[i])]
  <2>1. PlainList(FlattenSeq(ss))
    BY <1>2, PlainJoined
  <2> QED  BY <2>1 DEF Each
<1>6. PlainList(Each(CanaryUsed, s))
  <2> DEFINE ss == [i \in DOMAIN s |-> CanaryUsed(s[i])]
  <2>1. PlainList(FlattenSeq(ss))
    BY <1>2, PlainJoined
  <2> QED  BY <2>1 DEF Each
<1> QED
  BY <1>3, <1>4, <1>5, <1>6, PlainConcatenated DEF CloudTrailAlerts

-----------------------------------------------------------------------------
(* audit.log: the events of a batch.                                       *)

AuditRecordList(records) ==
    /\ IsList(records)
    /\ \A i \in 1 .. Len(records) : /\ DOMAIN records[i].event = AuditFields
                                    /\ records[i].event.time \in Nat

(* An event is that of a SYSCALL record, but for the name.                 *)
StandsFor(e, record) ==
    /\ record.type = "SYSCALL"
    /\ e.auid = record.event.auid
    /\ e.time = record.event.time

(* The record that each event comes from.                                  *)
EventRecords(records, events, src) ==
    /\ \A k \in 1 .. Len(events) :
          src[k] \in 1 .. Len(records) /\ StandsFor(events[k], records[src[k]])
    /\ \A k, l \in 1 .. Len(events) : k # l => src[k] # src[l]

LEMMA GroupFacts ==
    ASSUME NEW records, AuditRecordList(records), NEW serial
    PROVE  LET group == Group(records, serial)
           IN  /\ IsList(group) /\ Len(group) \in 0 .. 1
               /\ \A j \in 1 .. Len(group) : \E i \in 1 .. Len(records) :
                     records[i].serial = serial /\ StandsFor(group[j], records[i])
<1> DEFINE group == Group(records, serial)
           syscalls == RecordsOf(records, serial, "SYSCALL")
           paths == RecordsOf(records, serial, "PATH")
           name == IF paths = <<>> THEN NoName ELSE Head(paths).event.name
           P == {i \in DOMAIN records :
                    records[i].serial = serial /\ records[i].type = "SYSCALL"}
<1>1. group = IF syscalls = <<>> THEN <<>>
              ELSE <<[Head(syscalls).event EXCEPT !.name = name]>>
  BY DEF Group
<1>2. Len(records) \in Nat /\ DOMAIN records = 1 .. Len(records) /\ IsFiniteSet(DOMAIN records)
  BY ListFacts DEF AuditRecordList
<1>3. IsFiniteSet(P) /\ P \subseteq Nat
  BY <1>2, FS_Subset
<1>4. syscalls = Kept(records, P)
  BY DEF RecordsOf
<1> HIDE DEF syscalls, name
<1>5. PICK pos : Lists(syscalls, records, pos, P)
  <2> HIDE DEF P
  <2> QED  BY <1>3, <1>4, KeptLists
<1>6. /\ IsList(syscalls)
       /\ \A n \in 1 .. Len(syscalls) : syscalls[n] = records[pos[n]] /\ pos[n] \in P
  <2> HIDE DEF P
  <2> QED  BY <1>5, ListsFacts
<1>7. CASE syscalls = <<>>
  <2>1. group = <<>> /\ Len(<<>>) = 0
    BY <1>1, <1>7
  <2> HIDE DEF group
  <2> QED  BY <2>1, ShortLists DEF group
<1>8. CASE syscalls # <<>>
  <2> DEFINE e == [Head(syscalls).event EXCEPT !.name = name]
  <2>1. group = <<e>> /\ IsList(<<e>>) /\ Len(<<e>>) = 1 /\ <<e>>[1] = e
    BY <1>1, <1>8, ShortLists
  <2>2. Len(syscalls) >= 1 /\ Len(syscalls) \in Nat /\ Head(syscalls) = syscalls[1]
    <3>1. syscalls \in Seq(ToSet(syscalls))
      BY <1>6 DEF IsList
    <3> QED  BY <1>8, <3>1
  <2>3. Head(syscalls) = records[pos[1]] /\ pos[1] \in P
    BY <1>6, <2>2
  <2>4. pos[1] \in 1 .. Len(records) /\ records[pos[1]].serial = serial
        /\ records[pos[1]].type = "SYSCALL" /\ DOMAIN records[pos[1]].event = AuditFields
    BY <1>2, <2>3 DEF AuditRecordList
  <2>5. e.auid = records[pos[1]].event.auid /\ e.time = records[pos[1]].event.time
    BY <2>3, <2>4 DEF AuditFields
  <2> HIDE DEF e
  <2>6. StandsFor(e, records[pos[1]])
    BY <2>4, <2>5 DEF StandsFor
  <2>7. \A j \in 1 .. Len(<<e>>) : <<e>>[j] = e
    BY <2>1
  <2> QED  BY <2>1, <2>4, <2>6, <2>7
<1> QED
  BY <1>7, <1>8

LEMMA AuditEventsFacts ==
    ASSUME NEW records, AuditRecordList(records)
    PROVE  LET events == AuditEvents(records)
           IN  IsList(events) /\ \E src : EventRecords(records, events, src)
<1> DEFINE events == AuditEvents(records)
           named == [i \in DOMAIN records |-> records[i].serial]
           serials == Serials(records)
           each == [i \in DOMAIN serials |-> Group(records, serials[i])]
<1>1. IsList(serials) /\ \A m, n \in 1 .. Len(serials) : m # n => serials[m] # serials[n]
  <2>1. IsList(named)
    BY ListFacts, ListMade DEF AuditRecordList
  <2> HIDE DEF named
  <2>2. /\ IsList(Distinct(named))
        /\ \A m, n \in 1 .. Len(Distinct(named)) :
              m # n => Distinct(named)[m] # Distinct(named)[n]
    BY <2>1, DistinctFacts
  <2> QED  BY <2>2 DEF Serials, named
<1>2. events = FlattenSeq(each)
  BY DEF AuditEvents
<1>3. Len(serials) \in Nat /\ DOMAIN serials = 1 .. Len(serials)
  BY <1>1, ListFacts
<1> HIDE DEF events, serials
<1>4. IsList(each) /\ Len(each) = Len(serials)
      /\ \A i \in 1 .. Len(each) : each[i] = Group(records, serials[i])
  BY <1>3, ListMade
<1> HIDE DEF each
<1>5. \A i \in 1 .. Len(each) :
         /\ IsList(each[i]) /\ Len(each[i]) \in 0 .. 1
         /\ \A j \in 1 .. Len(each[i]) : \E r \in 1 .. Len(records) :
               records[r].serial = serials[i] /\ StandsFor(each[i][j], records[r])
  BY <1>4, GroupFacts, SMTT(30)
<1>6. Joined(events, each, Len(each))
  BY <1>2, <1>4, <1>5, Flattened
<1>7. PICK of, at : Origin(events, each, Len(each), of, at)
  BY <1>6 DEF Joined
<1> DEFINE Source(k, r) == /\ records[r].serial = serials[of[k]]
                           /\ StandsFor(events[k], records[r])
           src == [k \in 1 .. Len(events) |-> CHOOSE r \in 1 .. Len(records) : Source(k, r)]
<1>8. ASSUME NEW k \in 1 .. Len(events)
      PROVE  /\ of[k] \in 1 .. Len(each) /\ at[k] = 1
             /\ src[k] \in 1 .. Len(records) /\ Source(k, src[k])
  <2>1. /\ of[k] \in 1 .. Len(each) /\ at[k] \in 1 .. Len(each[of[k]])
        /\ events[k] = each[of[k]][at[k]]
    BY <1>7 DEF Origin
  <2>2. at[k] = 1
    <3>1. Len(each[of[k]]) \in 0 .. 1
      BY <1>5, <2>1
    <3> QED  BY <2>1, <3>1
  <2>3. \E r \in 1 .. Len(records) : Source(k, r)
    BY <1>5, <2>1
  <2>4. src[k] = CHOOSE r \in 1 .. Len(records) : Source(k, r)
    OBVIOUS
  <2> HIDE DEF Source, src
  <2> QED  BY <2>1, <2>2, <2>3, <2>4
<1> HIDE DEF src
<1>9. ASSUME NEW k \in 1 .. Len(events), NEW l \in 1 .. Len(events), src[k] = src[l]
      PROVE  k = l
  <2>1. serials[of[k]] = serials[of[l]]
    BY <1>8, <1>9
  <2>2. of[k] = of[l] /\ at[k] = at[l]
    BY <1>1, <1>4, <1>8, <2>1
  <2> QED  BY <1>7, <2>2 DEF Origin
<1>10. EventRecords(records, events, src)
  BY <1>8, <1>9 DEF EventRecords
<1> QED
  BY <1>6, <1>10 DEF events, Joined

(* A list of some of the events, in any order, stands for records as well. *)
LEMMA SomeEvents ==
    ASSUME NEW records, NEW events, NEW src, EventRecords(records, events, src),
           NEW list, NEW pos, NEW P, P \subseteq 1 .. Len(events),
           Lists(list, events, pos, P)
    PROVE  \E src_ : EventRecords(records, list, src_)
<1> DEFINE src_ == [n \in 1 .. Len(list) |-> src[pos[n]]]
<1>1. /\ Len(list) = Cardinality(P)
      /\ \A n \in 1 .. Len(list) : list[n] = events[pos[n]] /\ pos[n] \in P
  BY ListsFacts
<1>2. \A m, n \in 1 .. Len(list) : m # n => pos[m] # pos[n]
  BY <1>1 DEF Lists
<1>3. \A n \in 1 .. Len(list) : src_[n] = src[pos[n]]
  OBVIOUS
<1> HIDE DEF src_
<1>4. ASSUME NEW n \in 1 .. Len(list)
      PROVE  src_[n] \in 1 .. Len(records) /\ StandsFor(list[n], records[src_[n]])
  <2>1. pos[n] \in 1 .. Len(events) /\ list[n] = events[pos[n]] /\ src_[n] = src[pos[n]]
    BY <1>1, <1>3
  <2> QED  BY <2>1 DEF EventRecords
<1>5. ASSUME NEW m \in 1 .. Len(list), NEW n \in 1 .. Len(list), m # n
      PROVE  src_[m] # src_[n]
  <2>1. pos[m] \in 1 .. Len(events) /\ pos[n] \in 1 .. Len(events) /\ pos[m] # pos[n]
    BY <1>1, <1>2, <1>5
  <2> QED  BY <1>3, <2>1 DEF EventRecords
<1>6. EventRecords(records, list, src_)
  BY <1>4, <1>5 DEF EventRecords
<1> QED
  BY <1>6

LEMMA TimesSorted ==
    ASSUME NEW s, IsList(s), \A i \in 1 .. Len(s) : s[i].time \in Nat,
           NEW P, P \subseteq 1 .. Len(s)
    PROVE  LET list == SortedByTime(s, P)
           IN  /\ IsList(list)
               /\ Sorted([i \in DOMAIN list |-> list[i].time])
               /\ \E pos : Lists(list, s, pos, P)
<1> DEFINE list == SortedByTime(s, P)
           ts == [i \in DOMAIN list |-> list[i].time]
<1>1. IsFiniteSet(P) /\ P \subseteq Nat /\ \A i \in P : s[i].time \in Int
  <2>1. Len(s) \in Nat /\ IsFiniteSet(1 .. Len(s))
    BY ListFacts, IntervalFacts
  <2>2. IsFiniteSet(P)
    BY <2>1, FS_Subset
  <2>3. \A i \in P : i \in 1 .. Len(s) /\ i \in Nat
    BY <2>1
  <2> QED  BY <2>2, <2>3
<1>2. PICK pos : /\ Lists(list, s, pos, P)
                 /\ \A m, n \in 1 .. Cardinality(P) :
                       m < n => s[pos[m]].time <= s[pos[n]].time
  BY <1>1, SortedLists
<1> HIDE DEF list
<1>3. /\ IsList(list) /\ Len(list) = Cardinality(P)
      /\ \A n \in 1 .. Len(list) : list[n] = s[pos[n]] /\ pos[n] \in P
      /\ Len(list) \in Nat /\ DOMAIN list = 1 .. Len(list)
  BY <1>2, ListsFacts, ListFacts
<1>4. \A n \in 1 .. Len(list) : ts[n] = s[pos[n]].time /\ ts[n] \in Nat
  BY <1>3
<1>5. ts \in [1 .. Len(list) -> Nat]
  BY <1>3, <1>4
<1> HIDE DEF ts
<1>6. ts \in Seq(Nat) /\ Len(ts) = Len(list)
  BY <1>3, <1>5
<1>7. ASSUME NEW j \in 1 .. Len(list), NEW k \in 1 .. Len(list), j <= k
      PROVE  ts[j] <= ts[k]
  <2>1. CASE j = k
    BY <1>4, <2>1
  <2>2. CASE j # k
    <3>1. j < k
      BY <1>3, <1>7, <2>2
    <3> QED  BY <1>2, <1>3, <1>4, <3>1
  <2> QED  BY <2>1, <2>2
<1>8. Sorted(ts)
  BY <1>6, <1>7 DEF Sorted
<1> QED
  BY <1>2, <1>3, <1>8 DEF list, ts

-----------------------------------------------------------------------------
(* rule_012 and rule_013.                                                  *)

(* An alert of the two rules and the records it counts.                    *)
Counts(records, a, counted, at) ==
    /\ Cardinality(counted) = AuditThreshold
    /\ \A m \in counted :
          /\ at[m] \in 1 .. Len(records) /\ records[at[m]].type = "SYSCALL"
          /\ records[at[m]].event.auid = a.actor
          /\ a.first \in Nat /\ a.last \in Nat
          /\ records[at[m]].event.time \in Nat
          /\ a.first <= records[at[m]].event.time
          /\ records[at[m]].event.time <= a.last
    /\ \A m, n \in counted : m # n => at[m] # at[n]

ReconRule(rule) == rule \in {"rule_012", "rule_013"}

ReconBacked(records, a) ==
    /\ ReconRule(a.rule) /\ a.actor = a.key.who
    /\ a.last - a.first <= AuditWindow
    /\ \E counted, at : Counts(records, a, counted, at)

AlertOfBurst(a, rule, severity, sorted, ts, burst) ==
    /\ ts = [i \in DOMAIN sorted |-> sorted[i].time]
    /\ a = [AuditAlert(rule, sorted[Min(burst)], <<>>, ts[Min(burst)], severity)
                EXCEPT !.last = ts[Max(burst)]]

LEMMA WindowAlertFacts ==
    ASSUME NEW rule, NEW severity, NEW sorted, IsList(sorted), NEW burst, NEW ts,
           Sorted(ts), burst \subseteq DOMAIN sorted,
           Cardinality(burst) = AuditThreshold, Close(Recon, ts, burst),
           NEW a, AlertOfBurst(a, rule, severity, sorted, ts, burst)
    PROVE  /\ a.rule = rule /\ a.actor = sorted[Min(burst)].auid
           /\ a.key.who = a.actor /\ Min(burst) \in burst
           /\ a.first \in Nat /\ a.last \in Nat /\ a.last - a.first <= AuditWindow
           /\ \A m \in burst : /\ sorted[m].time \in Nat
                               /\ a.first <= sorted[m].time
                               /\ sorted[m].time <= a.last
<1> DEFINE n == Len(sorted)
<1>1. n \in Nat /\ DOMAIN sorted = 1 .. n
  BY ListFacts
<1>0. /\ ts = [i \in DOMAIN sorted |-> sorted[i].time]
      /\ a = [AuditAlert(rule, sorted[Min(burst)], <<>>, ts[Min(burst)], severity)
                  EXCEPT !.last = ts[Max(burst)]]
  BY DEF AlertOfBurst
<1>2. burst # {}
  BY FS_EmptySet, AuditAssumption
<1>3. /\ Min(burst) \in burst /\ \A x \in burst : Min(burst) <= x
      /\ Max(burst) \in burst /\ \A x \in burst : x <= Max(burst)
  <2> HIDE DEF n
  <2> QED  BY <1>1, <1>2, SmallestAndLargest
<1>4. /\ \A i \in 1 .. n : ts[i] = sorted[i].time
      /\ Len(ts) = n /\ ts \in Seq(Nat)
      /\ \A j, k \in 1 .. Len(ts) : j <= k => ts[j] <= ts[k]
  BY <1>0, <1>1 DEF Sorted
<1>5. \A m \in burst : /\ sorted[m].time = ts[m] /\ ts[m] \in Nat
                       /\ ts[Min(burst)] <= ts[m] /\ ts[m] <= ts[Max(burst)]
  <2> HIDE DEF n
  <2> QED  BY <1>1, <1>3, <1>4
<1>6. ts[Max(burst)] - ts[Min(burst)] <= AuditWindow
  BY <1>3 DEF Close, Recon
<1>7. sorted[Min(burst)].time = ts[Min(burst)]
  BY <1>3, <1>5
<1>8. /\ a.rule = rule /\ a.actor = sorted[Min(burst)].auid /\ a.key.who = a.actor
      /\ a.first = ts[Min(burst)] /\ a.last = ts[Max(burst)]
  BY <1>0, <1>7 DEF AuditAlert
<1>9. /\ a.first \in Nat /\ a.last \in Nat /\ a.last - a.first <= AuditWindow
      /\ \A m \in burst : /\ sorted[m].time \in Nat
                          /\ a.first <= sorted[m].time /\ sorted[m].time <= a.last
  BY <1>3, <1>5, <1>6, <1>8
<1> QED
  BY <1>3, <1>8, <1>9

LEMMA WindowAlertsFacts ==
    ASSUME NEW records, AuditRecordList(records), NEW sorted, IsList(sorted), NEW src,
           EventRecords(records, sorted, src), NEW auid,
           \A i \in 1 .. Len(sorted) : sorted[i].auid = auid,
           Sorted([i \in DOMAIN sorted |-> sorted[i].time]),
           NEW rule, ReconRule(rule), NEW severity
    PROVE  LET found == WindowAlerts(rule, severity, sorted)
           IN  IsList(found) /\ \A a \in ToSet(found) : ReconBacked(records, a)
<1> DEFINE ts == [i \in DOMAIN sorted |-> sorted[i].time]
           bursts == BurstsOf(Recon, ts)
           found == WindowAlerts(rule, severity, sorted)
           Alert(n) ==
               [AuditAlert(rule, sorted[Min(bursts[n])], <<>>, ts[Min(bursts[n])], severity)
                   EXCEPT !.last = ts[Max(bursts[n])]]
<1>1. IsLimit(Recon) /\ Recon.seconds = AuditWindow /\ Recon.events = AuditThreshold
  BY AuditAssumption DEF IsLimit, Recon
<1>2. /\ IsList(bursts) /\ \A n \in DOMAIN bursts : bursts[n] \subseteq 1 .. Len(ts)
      /\ Exact(Recon, ts, bursts)
  <2>1. Sorted(ts)
    OBVIOUS
  <2> HIDE DEF ts
  <2> QED  BY <1>1, <2>1, BurstsFacts
<1>3. Len(sorted) \in Nat /\ DOMAIN sorted = 1 .. Len(sorted) /\ Len(ts) = Len(sorted)
  BY ListFacts
<1>4. Len(bursts) \in Nat /\ DOMAIN bursts = 1 .. Len(bursts)
  BY <1>2, ListFacts
<1>5. found = [n \in DOMAIN bursts |-> Alert(n)]
  BY DEF WindowAlerts
<1>6. IsList(found) /\ DOMAIN found = 1 .. Len(bursts)
  <2> HIDE DEF bursts, Alert
  <2>1. DOMAIN found = 1 .. Len(bursts) /\ found = [n \in 1 .. Len(bursts) |-> found[n]]
    BY <1>4, <1>5
  <2> HIDE DEF found
  <2> QED  BY <1>4, <2>1, ListMade
<1>7. ASSUME NEW a \in ToSet(found)
      PROVE  ReconBacked(records, a)
  <2>1. PICK n \in DOMAIN bursts : a = Alert(n)
    <3>1. PICK n \in DOMAIN found : a = found[n]
      BY DEF ToSet
    <3> HIDE DEF bursts, Alert
    <3> QED  BY <1>5, <3>1
  <2> DEFINE burst == bursts[n]
  <2>2. /\ burst \subseteq 1 .. Len(sorted) /\ Cardinality(burst) = AuditThreshold
        /\ Close(Recon, ts, burst)
    BY <1>1, <1>2, <1>3 DEF Exact
  <2>3. /\ a.rule = rule /\ a.actor = sorted[Min(burst)].auid
        /\ a.key.who = a.actor /\ Min(burst) \in burst
        /\ a.first \in Nat /\ a.last \in Nat /\ a.last - a.first <= AuditWindow
        /\ \A m \in burst : /\ sorted[m].time \in Nat
                            /\ a.first <= sorted[m].time /\ sorted[m].time <= a.last
    <3>1. burst \subseteq DOMAIN sorted /\ Sorted(ts)
      BY <1>3, <2>2
    <3>2. AlertOfBurst(a, rule, severity, sorted, ts, burst)
      BY <2>1 DEF AlertOfBurst
    <3> HIDE DEF burst, ts
    <3> QED  BY <2>2, <3>1, <3>2, WindowAlertFacts
  <2> HIDE DEF burst
  <2>4. a.actor = auid
    BY <2>2, <2>3
  <2>5. ASSUME NEW m \in burst
        PROVE  /\ src[m] \in 1 .. Len(records) /\ records[src[m]].type = "SYSCALL"
               /\ records[src[m]].event.auid = a.actor
               /\ records[src[m]].event.time = sorted[m].time
    <3>1. m \in 1 .. Len(sorted) /\ sorted[m].auid = auid
      BY <2>2
    <3>2. src[m] \in 1 .. Len(records) /\ StandsFor(sorted[m], records[src[m]])
      BY <3>1 DEF EventRecords
    <3> QED  BY <2>4, <3>1, <3>2 DEF StandsFor
  <2>6. \A m \in burst :
           /\ src[m] \in 1 .. Len(records) /\ records[src[m]].type = "SYSCALL"
           /\ records[src[m]].event.auid = a.actor
           /\ a.first \in Nat /\ a.last \in Nat /\ records[src[m]].event.time \in Nat
           /\ a.first <= records[src[m]].event.time
           /\ records[src[m]].event.time <= a.last
    BY <2>3, <2>5
  <2>7. \A m, l \in burst : m # l => src[m] # src[l]
    BY <2>2 DEF EventRecords
  <2>8. Counts(records, a, burst, src)
    BY <2>2, <2>6, <2>7 DEF Counts
  <2> QED  BY <2>3, <2>8 DEF ReconBacked
<1> QED
  BY <1>6, <1>7 DEF found

LEMMA PerAuidFacts ==
    ASSUME NEW records, AuditRecordList(records), NEW events, IsList(events), NEW src,
           EventRecords(records, events, src),
           NEW rule, ReconRule(rule), NEW severity
    PROVE  LET found == PerAuid(rule, severity, events)
           IN  IsList(found) /\ \A a \in ToSet(found) : ReconBacked(records, a)
<1> DEFINE named == [i \in DOMAIN events |-> events[i].auid]
           auids == Distinct(named)
           Own(auid) == {i \in DOMAIN events : events[i].auid = auid}
           OfAuid(auid) == SortedByTime(events, Own(auid))
           each == [n \in DOMAIN auids |-> WindowAlerts(rule, severity, OfAuid(auids[n]))]
           found == PerAuid(rule, severity, events)
<1>1. Len(events) \in Nat /\ DOMAIN events = 1 .. Len(events)
  BY ListFacts
<1>2. IsList(auids)
  <2>1. IsList(named)
    BY <1>1, ListMade
  <2> HIDE DEF named
  <2> QED  BY <2>1, DistinctFacts
<1>3. found = FlattenSeq(each)
  BY DEF PerAuid
<1>4. ASSUME NEW i \in 1 .. Len(events)
      PROVE  events[i].time \in Nat
  BY DEF EventRecords, StandsFor, AuditRecordList
<1>5. ASSUME NEW auid
      PROVE  LET a == WindowAlerts(rule, severity, OfAuid(auid))
             IN  IsList(a) /\ \A b \in ToSet(a) : ReconBacked(records, b)
  <2> DEFINE P == Own(auid)
             sorted == SortedByTime(events, P)
  <2>1. P \subseteq 1 .. Len(events) /\ \A i \in P : events[i].auid = auid
    BY <1>1
  <2> HIDE DEF P
  <2>2. /\ IsList(sorted) /\ Sorted([i \in DOMAIN sorted |-> sorted[i].time])
        /\ \E pos : Lists(sorted, events, pos, P)
    BY <1>4, <2>1, TimesSorted
  <2>3. PICK pos : Lists(sorted, events, pos, P)
    BY <2>2
  <2> HIDE DEF sorted
  <2>4. PICK src_ : EventRecords(records, sorted, src_)
    BY <2>1, <2>3, SomeEvents
  <2>5. \A i \in 1 .. Len(sorted) : sorted[i].auid = auid
    <3>1. \A i \in 1 .. Len(sorted) : sorted[i] = events[pos[i]] /\ pos[i] \in P
      BY <2>3, ListsFacts
    <3> QED  BY <2>1, <3>1
  <2>6. LET a == WindowAlerts(rule, severity, sorted)
        IN  IsList(a) /\ \A b \in ToSet(a) : ReconBacked(records, b)
    BY <2>2, <2>4, <2>5, WindowAlertsFacts
  <2> QED  BY <2>6 DEF sorted, P
<1> HIDE DEF auids, OfAuid, found
<1>6. Len(auids) \in Nat /\ DOMAIN auids = 1 .. Len(auids)
  BY <1>2, ListFacts
<1>7. IsList(each) /\ Len(each) = Len(auids)
      /\ \A n \in 1 .. Len(each) : each[n] = WindowAlerts(rule, severity, OfAuid(auids[n]))
  BY <1>6, ListMade
<1> HIDE DEF each
<1>8. \A n \in 1 .. Len(each) :
         IsList(each[n]) /\ \A b \in ToSet(each[n]) : ReconBacked(records, b)
  BY <1>5, <1>7
<1>9. Joined(found, each, Len(each))
  BY <1>3, <1>7, <1>8, Flattened
<1>10. ASSUME NEW a \in ToSet(found)
       PROVE  ReconBacked(records, a)
  <2>1. PICK n \in 1 .. Len(each) : \E j \in 1 .. Len(each[n]) : a = each[n][j]
    BY <1>9, JoinedFrom
  <2> QED  BY <1>8, <2>1, ListFacts
<1> QED
  BY <1>9, <1>10 DEF Joined, found

LEMMA ReconFacts ==
    ASSUME NEW records, AuditRecordList(records), NEW events, IsList(events), NEW src,
           EventRecords(records, events, src), NEW P, P \subseteq 1 .. Len(events),
           NEW rule, ReconRule(rule), NEW severity
    PROVE  LET found == PerAuid(rule, severity, Kept(events, P))
           IN  IsList(found) /\ \A a \in ToSet(found) : ReconBacked(records, a)
<1> DEFINE some == Kept(events, P)
<1>1. Len(events) \in Nat /\ IsFiniteSet(1 .. Len(events))
  BY ListFacts, IntervalFacts
<1>2. IsFiniteSet(P)
  BY <1>1, FS_Subset
<1>3. P \subseteq Nat
  BY <1>1
<1>4. PICK pos : Lists(some, events, pos, P)
  BY <1>2, <1>3, KeptLists
<1> HIDE DEF some
<1>5. IsList(some)
  BY <1>4, ListsFacts
<1>6. PICK src_ : EventRecords(records, some, src_)
  BY <1>4, SomeEvents
<1> QED
  BY <1>5, <1>6, PerAuidFacts DEF some

(* The rules over single events.                                           *)
LEMMA EventRulesPlain ==
    ASSUME NEW e
    PROVE  /\ PlainList(ShadowAccess(e)) /\ PlainList(CronPersistence(e))
           /\ PlainList(AuditdTamper(e)) /\ PlainList(SudoersTamper(e))
           /\ PlainList(PrivilegeEscalation(e)) /\ PlainList(Masquerading(e))
<1>1. PlainList(ShadowAccess(e))
  BY ShortLists DEF ShadowAccess, AuditAlert, Plain, NamedByKey
<1>2. PlainList(CronPersistence(e))
  BY ShortLists DEF CronPersistence, AuditAlert, Plain, NamedByKey
<1>3. PlainList(AuditdTamper(e))
  BY ShortLists DEF AuditdTamper, AuditAlert, Plain, NamedByKey
<1>4. PlainList(SudoersTamper(e))
  BY ShortLists DEF SudoersTamper, AuditAlert, Plain, NamedByKey
<1>5. PlainList(PrivilegeEscalation(e))
  BY ShortLists DEF PrivilegeEscalation, AuditAlert, Plain, NamedByKey
<1>6. PlainList(Masquerading(e))
  <2> DEFINE odd == IF NameMismatch(e)
                    THEN <<AuditAlert("rule_014", e, <<e.exe.path, e.comm>>, 0, "CRITICAL")>>
                    ELSE <<>>
             away == IF UntrustedPath(e)
                     THEN <<AuditAlert("rule_014", e, <<>>, 0, "CRITICAL")>>
                     ELSE <<>>
  <2>1. PlainList(odd) /\ PlainList(away)
    BY ShortLists DEF AuditAlert, Plain, NamedByKey
  <2>2. Masquerading(e) = odd \o away
    BY DEF Masquerading
  <2> HIDE DEF odd, away
  <2> QED  BY <2>1, <2>2, PlainConcatenated
<1> QED
  BY <1>1, <1>2, <1>3, <1>4, <1>5, <1>6

(* What the rules raise over a batch of audit.log.                         *)
LEMMA AuditAlertsFacts ==
    ASSUME NEW records, AuditRecordList(records)
    PROVE  /\ IsList(AuditAlerts(records))
           /\ \A a \in ToSet(AuditAlerts(records)) : Plain(a) \/ ReconBacked(records, a)
<1> DEFINE events == AuditEvents(records)
           Good(s) == IsList(s) /\ \A a \in ToSet(s) : Plain(a) \/ ReconBacked(records, a)
<1>0. IsList(events) /\ \E src : EventRecords(records, events, src)
  BY AuditEventsFacts
<1>1. \A e : /\ PlainList(ShadowAccess(e)) /\ PlainList(CronPersistence(e))
             /\ PlainList(AuditdTamper(e)) /\ PlainList(SudoersTamper(e))
             /\ PlainList(PrivilegeEscalation(e)) /\ PlainList(Masquerading(e))
  BY EventRulesPlain
<1> HIDE DEF events
<1>2. PlainList(PerEvent(ShadowAccess, events))
  <2> DEFINE ss == [i \in DOMAIN events |-> ShadowAccess(events[i])]
  <2>1. \A i \in DOMAIN events : PlainList(ss[i])
    BY <1>1
  <2>2. PlainList(FlattenSeq(ss))
    BY <1>0, <2>1, PlainJoined
  <2> QED  BY <2>2 DEF PerEvent
<1>3. PlainList(PerEvent(CronPersistence, events))
  <2> DEFINE ss == [i \in DOMAIN events |-> CronPersistence(events[i])]
  <2>1. \A i \in DOMAIN events : PlainList(ss[i])
    BY <1>1
  <2>2. PlainList(FlattenSeq(ss))
    BY <1>0, <2>1, PlainJoined
  <2> QED  BY <2>2 DEF PerEvent
<1>4. PlainList(PerEvent(AuditdTamper, events))
  <2> DEFINE ss == [i \in DOMAIN events |-> AuditdTamper(events[i])]
  <2>1. \A i \in DOMAIN events : PlainList(ss[i])
    BY <1>1
  <2>2. PlainList(FlattenSeq(ss))
    BY <1>0, <2>1, PlainJoined
  <2> QED  BY <2>2 DEF PerEvent
<1>5. PlainList(PerEvent(SudoersTamper, events))
  <2> DEFINE ss == [i \in DOMAIN events |-> SudoersTamper(events[i])]
  <2>1. \A i \in DOMAIN events : PlainList(ss[i])
    BY <1>1
  <2>2. PlainList(FlattenSeq(ss))
    BY <1>0, <2>1, PlainJoined
  <2> QED  BY <2>2 DEF PerEvent
<1>6. PlainList(PerEvent(PrivilegeEscalation, events))
  <2> DEFINE ss == [i \in DOMAIN events |-> PrivilegeEscalation(events[i])]
  <2>1. \A i \in DOMAIN events : PlainList(ss[i])
    BY <1>1
  <2>2. PlainList(FlattenSeq(ss))
    BY <1>0, <2>1, PlainJoined
  <2> QED  BY <2>2 DEF PerEvent
<1>7. PlainList(PerEvent(Masquerading, events))
  <2> DEFINE ss == [i \in DOMAIN events |-> Masquerading(events[i])]
  <2>1. \A i \in DOMAIN events : PlainList(ss[i])
    BY <1>1
  <2>2. PlainList(FlattenSeq(ss))
    BY <1>0, <2>1, PlainJoined
  <2> QED  BY <2>2 DEF PerEvent
<1>8. Good(AccountEnumeration(events)) /\ Good(SystemDiscovery(events))
  <2>1. PICK src : EventRecords(records, events, src)
    BY <1>0
  <2>2. DOMAIN events = 1 .. Len(events)
    BY <1>0, ListFacts
  <2> DEFINE P == {i \in DOMAIN events : Counted(events[i]) /\ Enumerates(events[i])}
             Q == {i \in DOMAIN events : Counted(events[i]) /\ Discovers(events[i])}
  <2>3. P \subseteq 1 .. Len(events) /\ Q \subseteq 1 .. Len(events)
    BY <2>2
  <2>4. /\ AccountEnumeration(events) = PerAuid("rule_012", "HIGH", Kept(events, P))
        /\ SystemDiscovery(events) = PerAuid("rule_013", "MEDIUM", Kept(events, Q))
    BY DEF AccountEnumeration, SystemDiscovery
  <2> HIDE DEF P, Q
  <2>5. ReconRule("rule_012") /\ ReconRule("rule_013")
    BY DEF ReconRule
  <2> QED  BY <1>0, <2>1, <2>3, <2>4, <2>5, ReconFacts
<1>9. \A s : PlainList(s) => Good(s)
  BY DEF PlainList
<1>10. ASSUME NEW s, NEW t, Good(s), Good(t)
       PROVE  Good(s \o t)
  BY <1>10, Concatenated
<1>11. AuditAlerts(records) =
          ((((((PerEvent(ShadowAccess, events) \o PerEvent(CronPersistence, events))
          \o PerEvent(AuditdTamper, events)) \o PerEvent(SudoersTamper, events))
          \o AccountEnumeration(events)) \o SystemDiscovery(events))
          \o PerEvent(PrivilegeEscalation, events)) \o PerEvent(Masquerading, events)
  BY DEF AuditAlerts, events
<1>12. Good(AuditAlerts(records))
  <2> HIDE DEF Good
  <2>1. /\ Good(PerEvent(ShadowAccess, events)) /\ Good(PerEvent(CronPersistence, events))
        /\ Good(PerEvent(AuditdTamper, events)) /\ Good(PerEvent(SudoersTamper, events))
        /\ Good(PerEvent(PrivilegeEscalation, events))
        /\ Good(PerEvent(Masquerading, events))
    BY <1>2, <1>3, <1>4, <1>5, <1>6, <1>7, <1>9
  <2> QED  BY <1>8, <1>10, <1>11, <2>1
<1> QED
  BY <1>12

-----------------------------------------------------------------------------
(* Cowrie.                                                                 *)

LEMMA KeptFacts ==
    ASSUME NEW s, IsList(s), NEW P, P \subseteq DOMAIN s
    PROVE  IsList(Kept(s, P)) /\ ToSet(Kept(s, P)) = {s[i] : i \in P}
<1>1. Len(s) \in Nat /\ DOMAIN s = 1 .. Len(s) /\ IsFiniteSet(DOMAIN s)
  BY ListFacts
<1>2. IsFiniteSet(P)
  BY <1>1, FS_Subset
<1>3. P \subseteq Nat
  BY <1>1
<1>4. PICK pos : Lists(Kept(s, P), s, pos, P)
  BY <1>2, <1>3, KeptLists
<1> QED
  BY <1>4, ListsFacts

LEMMA FirstOf ==
    ASSUME NEW s, IsList(s), s # <<>>
    PROVE  Head(s) \in ToSet(s)
<1>1. s \in Seq(ToSet(s))
  BY DEF IsList
<1>2. Len(s) \in Nat /\ Len(s) >= 1 /\ Head(s) = s[1]
  BY <1>1
<1> QED
  BY <1>2, ListFacts

LEMMA OfKindFacts ==
    ASSUME NEW lines, IsList(lines), NEW kinds
    PROVE  /\ IsList(OfKind(lines, kinds))
           /\ \A x \in ToSet(OfKind(lines, kinds)) : x \in ToSet(lines) /\ x.kind \in kinds
<1> DEFINE P == {i \in DOMAIN lines : lines[i].kind \in kinds}
<1>1. OfKind(lines, kinds) = Kept(lines, P) /\ P \subseteq DOMAIN lines
  BY DEF OfKind
<1>2. \A i \in P : lines[i] \in ToSet(lines) /\ lines[i].kind \in kinds
  BY ListFacts
<1> HIDE DEF P
<1>3. IsList(Kept(lines, P)) /\ ToSet(Kept(lines, P)) = {lines[i] : i \in P}
  BY <1>1, KeptFacts
<1> QED
  BY <1>1, <1>2, <1>3

(* An alert of rule_015 and the login it stands on.                        *)
LoginBacked(lines, a) ==
    /\ a.rule = "rule_015" /\ a.actor = a.key.who
    /\ \E i \in 1 .. Len(lines) :
          /\ lines[i].session = a.actor /\ lines[i].kind = "login_success"
          /\ lines[i].time = a.first

LEMMA HoneypotLoginFacts ==
    ASSUME NEW lines, IsList(lines), NEW id
    PROVE  LET found == HoneypotLogin(SessionOf(lines, id))
           IN  IsList(found) /\ \A a \in ToSet(found) : LoginBacked(lines, a)
<1> DEFINE s == SessionOf(lines, id)
           P == {i \in DOMAIN lines : lines[i].session = id}
           own == Kept(lines, P)
           logins == OfKind(own, {"login_success", "login_failed"})
           successes == OfKind(logins, {"login_success"})
           found == HoneypotLogin(s)
<1>1. s.id = id /\ s.logins = logins
  BY DEF SessionOf
<1>2. Successes(s) = successes
  BY <1>1 DEF Successes
<1>3. \A x \in ToSet(successes) : /\ x.kind = "login_success" /\ x.session = id
                                  /\ x \in ToSet(lines)
  <2>1. P \subseteq DOMAIN lines /\ \A i \in P : lines[i].session = id /\ lines[i] \in ToSet(lines)
    BY ListFacts
  <2> HIDE DEF P
  <2>2. IsList(own) /\ ToSet(own) = {lines[i] : i \in P}
    BY <2>1, KeptFacts
  <2> HIDE DEF own
  <2>3. IsList(logins) /\ \A x \in ToSet(logins) : x \in ToSet(own)
    BY <2>2, OfKindFacts
  <2> HIDE DEF logins
  <2>4. \A x \in ToSet(successes) : x \in ToSet(logins) /\ x.kind = "login_success"
    BY <2>3, OfKindFacts
  <2> QED  BY <2>1, <2>2, <2>3, <2>4
<1>4. IsList(successes)
  <2>1. IsList(own)
    <3>1. P \subseteq DOMAIN lines
      OBVIOUS
    <3> QED  BY <3>1, KeptFacts
  <2> HIDE DEF own
  <2>2. IsList(logins)
    BY <2>1, OfKindFacts
  <2> QED  BY <2>2, OfKindFacts
<1> HIDE DEF s, successes
<1>5. CASE successes = <<>>
  <2>1. found = <<>>
    BY <1>2, <1>5 DEF HoneypotLogin
  <2> HIDE DEF found
  <2>2. IsList(found) /\ \A a \in ToSet(found) : LoginBacked(lines, a)
    BY <2>1, ShortLists
  <2> QED  BY <2>2 DEF found, s
<1>6. CASE successes # <<>>
  <2> DEFINE first == Head(successes).time
             alert == [rule |-> "rule_015", key |-> [who |-> s.id, what |-> <<>>, when |-> 0],
                       severity |-> "CRITICAL", actor |-> s.id, first |-> first,
                       last |-> IF s.end = NoTime THEN first ELSE s.end]
  <2>1. found = <<alert>>
    BY <1>2, <1>6 DEF HoneypotLogin
  <2>2. Head(successes) \in ToSet(successes)
    BY <1>4, <1>6, FirstOf
  <2>3. alert.rule = "rule_015" /\ alert.actor = id /\ alert.key.who = id
        /\ alert.first = Head(successes).time
    BY <1>1
  <2> HIDE DEF alert, found
  <2>4. PICK i \in 1 .. Len(lines) : lines[i] = Head(successes)
    BY <1>3, <2>2, ListFacts DEF ToSet
  <2>5. LoginBacked(lines, alert)
    BY <1>3, <2>2, <2>3, <2>4 DEF LoginBacked
  <2>6. IsList(<<alert>>) /\ ToSet(<<alert>>) = {alert}
    BY ShortLists
  <2>7. IsList(found) /\ \A a \in ToSet(found) : LoginBacked(lines, a)
    BY <2>1, <2>5, <2>6
  <2> QED  BY <2>7 DEF found, s
<1> QED
  BY <1>5, <1>6

LEMMA HoneypotAlertsFacts ==
    ASSUME NEW lines, IsList(lines)
    PROVE  /\ IsList(HoneypotAlerts(lines))
           /\ \A a \in ToSet(HoneypotAlerts(lines)) : LoginBacked(lines, a)
<1> DEFINE ids == SessionIds(lines)
           sessions == Sessions(lines)
           each == [i \in DOMAIN sessions |-> HoneypotLogin(sessions[i])]
           found == HoneypotAlerts(lines)
<1>1. IsList(ids)
  <2> DEFINE named == [i \in DOMAIN lines |-> lines[i].session]
  <2>1. IsList(named)
    BY ListFacts, ListMade
  <2> HIDE DEF named
  <2>2. IsList(Distinct(named))
    BY <2>1, DistinctFacts
  <2> QED  BY <2>2 DEF SessionIds, named
<1>2. /\ IsList(sessions)
      /\ \A i \in DOMAIN sessions : \E id : sessions[i] = SessionOf(lines, id)
  <2>1. CASE sessions = <<>>
    BY <2>1, ShortLists
  <2>2. CASE sessions = [i \in DOMAIN ids |-> SessionOf(lines, ids[i])]
    <3>1. Len(ids) \in Nat /\ DOMAIN ids = 1 .. Len(ids)
      BY <1>1, ListFacts
    <3> HIDE DEF ids, sessions
    <3>2. IsList(sessions)
      BY <2>2, <3>1, ListMade
    <3> QED  BY <2>2, <3>2
  <2> QED  BY <2>1, <2>2 DEF Sessions
<1>3. found = FlattenSeq(each)
  BY DEF HoneypotAlerts
<1> HIDE DEF sessions, found
<1>4. Len(sessions) \in Nat /\ DOMAIN sessions = 1 .. Len(sessions)
  BY <1>2, ListFacts
<1>5. IsList(each) /\ Len(each) = Len(sessions)
  BY <1>4, ListMade
<1>6. \A i \in 1 .. Len(each) :
         IsList(each[i]) /\ \A a \in ToSet(each[i]) : LoginBacked(lines, a)
  <2> SUFFICES ASSUME NEW i \in 1 .. Len(sessions)
               PROVE  LET f == HoneypotLogin(sessions[i])
                      IN  IsList(f) /\ \A a \in ToSet(f) : LoginBacked(lines, a)
    BY <1>4, <1>5
  <2>1. PICK id : sessions[i] = SessionOf(lines, id)
    BY <1>2, <1>4
  <2> QED  BY <2>1, HoneypotLoginFacts
<1> HIDE DEF each
<1>7. Joined(found, each, Len(each))
  BY <1>3, <1>5, <1>6, Flattened
<1>8. ASSUME NEW a \in ToSet(found)
      PROVE  LoginBacked(lines, a)
  <2>1. PICK i \in 1 .. Len(each) : \E j \in 1 .. Len(each[i]) : a = each[i][j]
    BY <1>7, JoinedFrom
  <2> QED  BY <1>6, <2>1, ListFacts
<1> QED
  BY <1>7, <1>8 DEF Joined, found

-----------------------------------------------------------------------------
(* An alert that the lines of a batch back is backed by the log.           *)

Part(lines, whole, n) ==
    \A i \in 1 .. Len(lines) : n + i \in 1 .. Len(whole) /\ lines[i] = whole[n + i]

LEMMA BruteGrounded ==
    ASSUME NEW lines, NEW whole, IsList(whole), NEW n \in Nat, Part(lines, whole, n),
           NEW a, BruteBacked(lines, a)
    PROVE  Grounded(whole, a)
<1> DEFINE these == AttemptsOf(whole, a.actor, a.first, a.last)
<1>1. Len(whole) \in Nat /\ DOMAIN whole = 1 .. Len(whole) /\ IsFiniteSet(DOMAIN whole)
  BY ListFacts
<1>2. PICK counted, at :
          /\ Cardinality(counted) = BruteThreshold
          /\ \A m \in counted :
                /\ at[m] \in 1 .. Len(lines) /\ IsAttempt(lines[at[m]])
                /\ lines[at[m]].ip = a.actor
                /\ a.first \in Nat /\ a.last \in Nat /\ lines[at[m]].time \in Nat
                /\ a.first <= lines[at[m]].time /\ lines[at[m]].time <= a.last
          /\ \A m, k \in counted : m # k => at[m] # at[k]
  BY DEF BruteBacked
<1> DEFINE f == [m \in counted |-> n + at[m]]
<1>3. ASSUME NEW m \in counted
      PROVE  f[m] \in these
  <2>1. /\ f[m] \in 1 .. Len(whole) /\ lines[at[m]] = whole[f[m]]
        /\ at[m] \in 1 .. Len(lines)
    BY <1>2 DEF Part
  <2> HIDE DEF f
  <2>2. whole[f[m]].time \in a.first .. a.last
    BY <1>2, <2>1
  <2> QED  BY <1>1, <1>2, <2>1, <2>2 DEF AttemptsOf
<1>4. ASSUME NEW m \in counted, NEW k \in counted, m # k
      PROVE  f[m] # f[k]
  <2>1. at[m] \in Int /\ at[k] \in Int /\ at[m] # at[k]
    BY <1>2, <1>4
  <2>2. f[m] = n + at[m] /\ f[k] = n + at[k]
    OBVIOUS
  <2>3. \A x, y \in Int : x # y => n + x # n + y
    OBVIOUS
  <2> HIDE DEF f
  <2> QED  BY <2>1, <2>2, <2>3
<1>5. IsFiniteSet(these)
  <2>1. these \subseteq DOMAIN whole
    BY DEF AttemptsOf
  <2> HIDE DEF these
  <2> QED  BY <1>1, <2>1, FS_Subset
<1> HIDE DEF these, f
<1>6. Cardinality(counted) <= Cardinality(these)
  BY <1>3, <1>4, <1>5, CountedInto
<1>7. Cardinality(these) >= BruteThreshold
  BY <1>2, <1>5, <1>6, FS_CardinalityType, AuthAssumption
<1> QED
  BY <1>7 DEF BruteBacked, Grounded, these

LEMMA SuccessGrounded ==
    ASSUME NEW lines, NEW whole, IsList(whole), NEW n \in Nat, Part(lines, whole, n),
           NEW a, SuccessBacked(lines, a)
    PROVE  Grounded(whole, a)
<1> DEFINE these == FailuresOf(whole, a.actor, a.first, a.last)
           recent == FailuresOf(whole, a.actor, a.last - SuccessWindow, a.last)
<1>1. Len(whole) \in Nat /\ DOMAIN whole = 1 .. Len(whole) /\ IsFiniteSet(DOMAIN whole)
  BY ListFacts
<1>2. PICK size \in Nat : \E at :
          /\ size >= SuccessThreshold
          /\ \A m \in 1 .. size :
                /\ at[m] \in 1 .. Len(lines) /\ lines[at[m]].kind = "failed"
                /\ lines[at[m]].ip = a.actor
                /\ a.first \in Nat /\ a.last \in Nat /\ lines[at[m]].time \in Nat
                /\ a.first <= lines[at[m]].time /\ lines[at[m]].time <= a.last
          /\ \A l, m \in 1 .. size : l # m => at[l] # at[m]
  BY DEF SuccessBacked
<1>3. PICK at :
          /\ size >= SuccessThreshold
          /\ \A m \in 1 .. size :
                /\ at[m] \in 1 .. Len(lines) /\ lines[at[m]].kind = "failed"
                /\ lines[at[m]].ip = a.actor
                /\ a.first \in Nat /\ a.last \in Nat /\ lines[at[m]].time \in Nat
                /\ a.first <= lines[at[m]].time /\ lines[at[m]].time <= a.last
          /\ \A l, m \in 1 .. size : l # m => at[l] # at[m]
  BY <1>2
<1>4. \A line : line.kind = "failed" => IsAttempt(line)
  BY DEF IsAttempt
<1> DEFINE f == [m \in 1 .. size |-> n + at[m]]
<1>5. ASSUME NEW m \in 1 .. size
      PROVE  f[m] \in these
  <2>1. /\ f[m] \in 1 .. Len(whole) /\ lines[at[m]] = whole[f[m]]
        /\ at[m] \in 1 .. Len(lines)
    BY <1>3 DEF Part
  <2> HIDE DEF f
  <2>2. whole[f[m]].time \in a.first .. a.last
    BY <1>3, <2>1
  <2> QED  BY <1>1, <1>3, <1>4, <2>1, <2>2 DEF FailuresOf, AttemptsOf
<1>6. ASSUME NEW m \in 1 .. size, NEW k \in 1 .. size, m # k
      PROVE  f[m] # f[k]
  <2>1. at[m] \in Int /\ at[k] \in Int /\ at[m] # at[k]
    BY <1>3, <1>6
  <2> QED  BY <2>1
<1>7. IsFiniteSet(these)
  <2>1. these \subseteq DOMAIN whole
    BY DEF FailuresOf, AttemptsOf
  <2> HIDE DEF these
  <2> QED  BY <1>1, <2>1, FS_Subset
<1> HIDE DEF these, f
<1>8. Cardinality(these) >= SuccessThreshold
  <2>1. Cardinality(1 .. size) <= Cardinality(these)
    BY <1>5, <1>6, <1>7, CountedInto
  <2> QED  BY <1>3, <1>7, <2>1, IntervalFacts, FS_CardinalityType, AuthAssumption
<1>9. recent # {}
  <2>1. PICK i \in 1 .. Len(lines) :
          /\ lines[i].kind = "failed" /\ lines[i].ip = a.actor
          /\ lines[i].time \in Nat /\ a.last \in Nat
          /\ a.last - SuccessWindow <= lines[i].time /\ lines[i].time <= a.last
    BY DEF SuccessBacked
  <2>2. n + i \in 1 .. Len(whole) /\ lines[i] = whole[n + i]
    BY DEF Part
  <2>3. whole[n + i].time \in (a.last - SuccessWindow) .. a.last
    BY <2>1, <2>2, AuthAssumption
  <2>4. n + i \in recent
    BY <1>1, <1>4, <2>1, <2>2, <2>3 DEF FailuresOf, AttemptsOf
  <2> QED  BY <2>4
<1> HIDE DEF recent
<1>10. \E i \in DOMAIN whole : /\ whole[i].kind = "accepted" /\ whole[i].ip = a.actor
                               /\ whole[i].time = a.last
  <2>1. PICK i \in 1 .. Len(lines) : /\ lines[i].kind = "accepted"
                                     /\ lines[i].ip = a.actor /\ lines[i].time = a.last
    BY DEF SuccessBacked
  <2>2. n + i \in 1 .. Len(whole) /\ lines[i] = whole[n + i]
    BY DEF Part
  <2> QED  BY <1>1, <2>1, <2>2
<1>11. a.rule = "rule_007"
  BY DEF SuccessBacked
<1> QED
  BY <1>8, <1>9, <1>10, <1>11 DEF Grounded, these, recent

LEMMA ReconGrounded ==
    ASSUME NEW records, NEW whole, IsList(whole), NEW n \in Nat, Part(records, whole, n),
           NEW a, ReconBacked(records, a)
    PROVE  Grounded(whole, a)
<1> DEFINE these == SyscallsOf(whole, a.actor, a.first, a.last)
<1>1. Len(whole) \in Nat /\ DOMAIN whole = 1 .. Len(whole) /\ IsFiniteSet(DOMAIN whole)
  BY ListFacts
<1>2. PICK counted, at : Counts(records, a, counted, at)
  BY DEF ReconBacked
<1> DEFINE f == [m \in counted |-> n + at[m]]
<1>3. ASSUME NEW m \in counted
      PROVE  f[m] \in these
  <2>1. /\ at[m] \in 1 .. Len(records) /\ records[at[m]].type = "SYSCALL"
        /\ records[at[m]].event.auid = a.actor
        /\ a.first \in Nat /\ a.last \in Nat /\ records[at[m]].event.time \in Nat
        /\ a.first <= records[at[m]].event.time
        /\ records[at[m]].event.time <= a.last
    BY <1>2 DEF Counts
  <2>2. f[m] \in 1 .. Len(whole) /\ records[at[m]] = whole[f[m]]
    BY <2>1 DEF Part
  <2> HIDE DEF f
  <2>3. whole[f[m]].event.time \in a.first .. a.last
    BY <2>1, <2>2
  <2> QED  BY <1>1, <2>1, <2>2, <2>3 DEF SyscallsOf
<1>4. ASSUME NEW m \in counted, NEW k \in counted, m # k
      PROVE  f[m] # f[k]
  <2>1. at[m] \in Int /\ at[k] \in Int /\ at[m] # at[k]
    BY <1>2, <1>4 DEF Counts
  <2>2. f[m] = n + at[m] /\ f[k] = n + at[k]
    OBVIOUS
  <2>3. \A x, y \in Int : x # y => n + x # n + y
    OBVIOUS
  <2> HIDE DEF f
  <2> QED  BY <2>1, <2>2, <2>3
<1>5. IsFiniteSet(these)
  <2>1. these \subseteq DOMAIN whole
    BY DEF SyscallsOf
  <2> HIDE DEF these
  <2> QED  BY <1>1, <2>1, FS_Subset
<1> HIDE DEF these, f
<1>6. Cardinality(counted) <= Cardinality(these)
  BY <1>3, <1>4, <1>5, CountedInto
<1>7. Cardinality(these) >= AuditThreshold
  <2>1. Cardinality(counted) = AuditThreshold
    BY <1>2 DEF Counts
  <2> QED  BY <1>5, <1>6, <2>1, FS_CardinalityType, AuditAssumption
<1> QED
  BY <1>7 DEF ReconBacked, ReconRule, Grounded, these

LEMMA LoginGrounded ==
    ASSUME NEW lines, NEW whole, IsList(whole), NEW n \in Nat, Part(lines, whole, n),
           NEW a, LoginBacked(lines, a)
    PROVE  Grounded(whole, a)
<1>1. DOMAIN whole = 1 .. Len(whole)
  BY ListFacts
<1>2. PICK i \in 1 .. Len(lines) : /\ lines[i].session = a.actor
                                   /\ lines[i].kind = "login_success"
                                   /\ lines[i].time = a.first
  BY DEF LoginBacked
<1>3. n + i \in DOMAIN whole /\ lines[i] = whole[n + i]
  BY <1>1 DEF Part
<1> QED
  BY <1>2, <1>3 DEF LoginBacked, Grounded

LEMMA PlainGrounded ==
    ASSUME NEW whole, NEW a, Plain(a)
    PROVE  Grounded(whole, a)
  BY DEF Plain, Grounded

(* What the log holds it keeps, so an alert stays backed when it grows.    *)
LEMMA StaysGrounded ==
    ASSUME NEW lines, NEW whole, IsList(lines), IsList(whole), Part(lines, whole, 0),
           NEW a, Grounded(lines, a)
    PROVE  Grounded(whole, a)
<1>1. /\ DOMAIN whole = 1 .. Len(whole) /\ DOMAIN lines = 1 .. Len(lines)
      /\ IsFiniteSet(DOMAIN whole) /\ IsFiniteSet(DOMAIN lines)
      /\ Len(lines) \in Nat /\ Len(whole) \in Nat
  BY ListFacts
<1>2. \A i \in DOMAIN lines : i \in DOMAIN whole /\ lines[i] = whole[i]
  <2> SUFFICES ASSUME NEW i \in 1 .. Len(lines)
               PROVE  i \in DOMAIN whole /\ lines[i] = whole[i]
    BY <1>1
  <2>1. 0 + i = i
    OBVIOUS
  <2> QED  BY <1>1, <2>1 DEF Part
<1>3. ASSUME NEW S, NEW T, S \subseteq T, T \subseteq DOMAIN whole
      PROVE  /\ Cardinality(S) <= Cardinality(T)
             /\ Cardinality(S) \in Nat /\ Cardinality(T) \in Nat
  <2>1. IsFiniteSet(T)
    BY <1>1, <1>3, FS_Subset
  <2>2. IsFiniteSet(S) /\ Cardinality(S) <= Cardinality(T)
    BY <1>3, <2>1, FS_Subset
  <2> QED  BY <2>1, <2>2, FS_CardinalityType
<1>4. ASSUME NEW ip, NEW from, NEW to
      PROVE  /\ AttemptsOf(lines, ip, from, to) \subseteq AttemptsOf(whole, ip, from, to)
             /\ FailuresOf(lines, ip, from, to) \subseteq FailuresOf(whole, ip, from, to)
             /\ SyscallsOf(lines, ip, from, to) \subseteq SyscallsOf(whole, ip, from, to)
             /\ AttemptsOf(whole, ip, from, to) \subseteq DOMAIN whole
             /\ FailuresOf(whole, ip, from, to) \subseteq DOMAIN whole
             /\ SyscallsOf(whole, ip, from, to) \subseteq DOMAIN whole
  BY <1>2 DEF AttemptsOf, FailuresOf, SyscallsOf
<1>5. CASE a.rule = "rule_001"
  <2> DEFINE S == AttemptsOf(lines, a.actor, a.first, a.last)
             T == AttemptsOf(whole, a.actor, a.first, a.last)
  <2>1. Cardinality(S) >= BruteThreshold /\ a.last - a.first <= BruteWindow
        /\ a.severity # "CRITICAL"
    BY <1>5 DEF Grounded
  <2>2. S \subseteq T /\ T \subseteq DOMAIN whole
    BY <1>4
  <2> HIDE DEF S, T
  <2>3. Cardinality(T) >= BruteThreshold
    BY <1>3, <2>1, <2>2, AuthAssumption
  <2> QED  BY <1>5, <2>1, <2>3 DEF Grounded, T
<1>6. CASE a.rule = "rule_007"
  <2> DEFINE S == FailuresOf(lines, a.actor, a.first, a.last)
             T == FailuresOf(whole, a.actor, a.first, a.last)
             U == FailuresOf(whole, a.actor, a.last - SuccessWindow, a.last)
  <2>1. /\ Cardinality(S) >= SuccessThreshold
        /\ \E i \in DOMAIN lines : /\ lines[i].kind = "accepted" /\ lines[i].ip = a.actor
                                   /\ lines[i].time = a.last
        /\ FailuresOf(lines, a.actor, a.last - SuccessWindow, a.last) # {}
    BY <1>6 DEF Grounded
  <2>2. S \subseteq T /\ T \subseteq DOMAIN whole /\ U # {}
    BY <1>4, <2>1
  <2> HIDE DEF S, T, U
  <2>3. Cardinality(T) >= SuccessThreshold
    BY <1>3, <2>1, <2>2, AuthAssumption
  <2>4. \E i \in DOMAIN whole : /\ whole[i].kind = "accepted" /\ whole[i].ip = a.actor
                                /\ whole[i].time = a.last
    BY <1>2, <2>1
  <2> QED  BY <1>6, <2>2, <2>3, <2>4 DEF Grounded, T, U
<1>7. CASE a.rule \in {"rule_012", "rule_013"}
  <2> DEFINE S == SyscallsOf(lines, a.actor, a.first, a.last)
             T == SyscallsOf(whole, a.actor, a.first, a.last)
  <2>1. Cardinality(S) >= AuditThreshold /\ a.last - a.first <= AuditWindow
    BY <1>7 DEF Grounded
  <2>2. S \subseteq T /\ T \subseteq DOMAIN whole
    BY <1>4
  <2> HIDE DEF S, T
  <2>3. Cardinality(T) >= AuditThreshold
    BY <1>3, <2>1, <2>2, AuditAssumption
  <2> QED  BY <1>7, <2>1, <2>3 DEF Grounded, T
<1>8. CASE a.rule = "rule_015"
  BY <1>2, <1>8 DEF Grounded
<1>9. CASE a.rule \notin {"rule_001", "rule_007", "rule_012", "rule_013", "rule_015"}
  BY <1>9 DEF Grounded
<1> QED
  BY <1>5, <1>6, <1>7, <1>8, <1>9

-----------------------------------------------------------------------------
(* deduplicate_alerts.                                                     *)

LEMMA AddNewFacts ==
    ASSUME NEW stored, IsList(stored), NEW raised, IsList(raised)
    PROVE  LET all == AddNew(stored, raised)
           IN  /\ IsList(all)
               /\ \A a \in ToSet(all) : a \in ToSet(stored) \/ a \in ToSet(raised)
               /\ \A a \in ToSet(raised) : \E b \in ToSet(all) : SameAlert(b, a)
<1> DEFINE Fresh(i) ==
               /\ \A j \in DOMAIN stored : ~SameAlert(stored[j], raised[i])
               /\ \A j \in 1 .. i - 1 : ~SameAlert(raised[j], raised[i])
           P == {i \in DOMAIN raised : Fresh(i)}
           all == AddNew(stored, raised)
           new == Kept(raised, P)
<1>1. all = stored \o new
  BY DEF AddNew
<1>2. P \subseteq DOMAIN raised
  OBVIOUS
<1>3. IsList(new) /\ ToSet(new) = {raised[i] : i \in P}
  <2> HIDE DEF P
  <2> QED  BY <1>2, KeptFacts
<1> HIDE DEF new
<1>4. IsList(all) /\ ToSet(all) = ToSet(stored) \union ToSet(new)
  BY <1>1, <1>3, Concatenated
<1>5. ToSet(new) \subseteq ToSet(raised)
  BY <1>2, <1>3 DEF ToSet
<1>6. ASSUME NEW a \in ToSet(raised)
      PROVE  \E b \in ToSet(all) : SameAlert(b, a)
  <2>1. Len(raised) \in Nat /\ DOMAIN raised = 1 .. Len(raised)
    BY ListFacts
  <2> DEFINE same == {j \in DOMAIN raised : SameAlert(raised[j], a)}
  <2>2. same \subseteq Nat /\ same # {}
    BY <2>1 DEF ToSet, SameAlert
  <2>3. PICK i \in same : \A j \in same : i <= j
    BY <2>2, LeastNatural
  <2>4. i \in DOMAIN raised /\ i \in Nat /\ SameAlert(raised[i], a)
    BY <2>2
  <2>5. ASSUME NEW j \in 1 .. i - 1
        PROVE  ~SameAlert(raised[j], raised[i])
    <3>1. j \in DOMAIN raised /\ j < i /\ j \in Nat
      BY <2>1, <2>4
    <3>2. j \notin same
      BY <2>3, <2>4, <3>1
    <3> QED  BY <2>4, <3>1, <3>2 DEF SameAlert
  <2>6. CASE \E j \in DOMAIN stored : SameAlert(stored[j], raised[i])
    BY <1>4, <2>4, <2>6 DEF SameAlert, ToSet
  <2>7. CASE ~ (\E j \in DOMAIN stored : SameAlert(stored[j], raised[i]))
    <3>1. i \in P
      BY <2>4, <2>5, <2>7
    <3> QED  BY <1>3, <1>4, <2>4, <3>1
  <2> QED  BY <2>6, <2>7
<1> QED
  BY <1>4, <1>5, <1>6 DEF all

-----------------------------------------------------------------------------
(* The log and the batch.                                                  *)

LEMMA Appended ==
    ASSUME NEW s, IsList(s), NEW x
    PROVE  /\ IsList(Append(s, x)) /\ Len(Append(s, x)) = Len(s) + 1
           /\ \A i \in 1 .. Len(s) : Append(s, x)[i] = s[i]
           /\ Append(s, x)[Len(s) + 1] = x
           /\ Part(s, Append(s, x), 0)
<1> DEFINE all == ToSet(s) \union {x}
           t == Append(s, x)
<1>1. Len(s) \in Nat /\ DOMAIN s = 1 .. Len(s) /\ s \in Seq(ToSet(s))
  BY ListFacts DEF IsList
<1>2. s \in Seq(all) /\ x \in all
  <2>1. ToSet(s) \subseteq all
    OBVIOUS
  <2> HIDE DEF all
  <2>2. s \in [1 .. Len(s) -> ToSet(s)]
    BY <1>1
  <2>3. s \in [1 .. Len(s) -> all]
    BY <2>1, <2>2
  <2> QED  BY <1>1, <2>3 DEF all
<1> HIDE DEF all
<1>3. /\ t \in Seq(all) /\ Len(t) = Len(s) + 1
      /\ \A i \in 1 .. Len(s) : t[i] = s[i]
      /\ t[Len(s) + 1] = x
  BY <1>1, <1>2
<1>4. IsList(t)
  <2>1. Len(t) \in Nat
    BY <1>1, <1>3
  <2> HIDE DEF t
  <2>2. DOMAIN t = 1 .. Len(t) /\ t = [i \in 1 .. Len(t) |-> t[i]]
    BY <1>3
  <2> QED  BY <2>1, <2>2, ListMade
<1> HIDE DEF t
<1>5. ASSUME NEW i \in 1 .. Len(s)
      PROVE  0 + i \in 1 .. Len(t) /\ s[i] = t[0 + i]
  <2>1. 0 + i = i /\ i \in 1 .. Len(t)
    BY <1>1, <1>3
  <2> QED  BY <1>3, <2>1
<1>6. Part(s, t, 0)
  BY <1>5 DEF Part
<1> QED
  BY <1>3, <1>4, <1>6 DEF t

LEMMA BatchFacts ==
    ASSUME IsList(log), position \in 0 .. Len(log)
    PROVE  /\ IsList(Batch) /\ Len(Batch) = Len(log) - position
           /\ Part(Batch, log, position)
<1> DEFINE n == Len(log) - position
<1>1. Len(log) \in Nat /\ log \in Seq(ToSet(log)) /\ n \in Nat /\ position \in Nat
  BY ListFacts DEF IsList
<1>2. Batch = [i \in 1 .. n |-> log[i + position]]
  <2>1. Len(log) - (position + 1) + 1 = n
    BY <1>1
  <2>2. \A i \in 1 .. n : (position + 1) + i - 1 = i + position
    BY <1>1
  <2> HIDE DEF n
  <2> QED  BY <1>1, <2>1, <2>2 DEF Batch, SubSeq
<1> HIDE DEF n
<1>3. DOMAIN Batch = 1 .. n /\ \A i \in 1 .. n : Batch[i] = log[i + position]
  BY <1>2
<1>4. Batch = [i \in 1 .. n |-> Batch[i]]
  BY <1>2, <1>3
<1>5. IsList(Batch) /\ Len(Batch) = n
  BY <1>1, <1>3, <1>4, ListMade
<1>6. ASSUME NEW i \in 1 .. Len(Batch)
      PROVE  position + i \in 1 .. Len(log) /\ Batch[i] = log[position + i]
  <2>1. position + i = i + position /\ i \in 1 .. n
    BY <1>1, <1>5
  <2>2. position + i \in 1 .. Len(log)
    BY <1>1, <2>1 DEF n
  <2> QED  BY <1>3, <2>1, <2>2
<1> QED
  BY <1>5, <1>6 DEF Part, n

(* Where a log of each kind has times, and in which order.                 *)
LogTyped ==
    /\ source = "auth_log" =>
          InTimeOrder(log) /\ \A i \in 1 .. Len(log) : log[i] \in Entries["auth_log"]
    /\ source = "cloudtrail" =>
          \A i \in 1 .. Len(log) : log[i] \in Entries["cloudtrail"]
    /\ source = "auditd" =>
          /\ AuditRecordList(log)
          /\ \A i \in 1 .. Len(log) : DOMAIN log[i] = {"serial", "type", "event"}

DetectionInvariant ==
    /\ source \in Sources
    /\ IsList(log) /\ LogTyped
    /\ position \in 0 .. Len(log)
    /\ IsList(alerts)
    /\ \A i \in DOMAIN alerts : NamedByKey(alerts[i]) /\ Grounded(log, alerts[i])

(* What one cycle raises.                                                  *)
LEMMA RaisedFacts ==
    ASSUME DetectionInvariant
    PROVE  /\ IsList(Raised(Batch))
           /\ \A a \in ToSet(Raised(Batch)) : NamedByKey(a) /\ Grounded(log, a)
           /\ source = "auth_log" =>
                 \A ip, near : \A t \in Nat :
                     BurstIn(Batch, ip, near, t) =>
                         \E a \in ToSet(Raised(Batch)) : Reports(a, ip, t)
<1> DEFINE b == Batch
<1>1. /\ IsList(b) /\ Part(b, log, position) /\ IsList(log) /\ position \in Nat
      /\ Len(log) \in Nat /\ Len(b) \in Nat
  BY BatchFacts, ListFacts DEF DetectionInvariant
<1> HIDE DEF b
<1>2. CASE source = "auth_log"
  <2>1. \A i \in 1 .. Len(b) : b[i].time \in Nat
    BY <1>1, <1>2, EntriesAssumption DEF DetectionInvariant, LogTyped, Part
  <2>2. InTimeOrder(b)
    <3> SUFFICES ASSUME NEW i \in 1 .. Len(b), NEW j \in 1 .. Len(b), i <= j
                 PROVE  b[i].time <= b[j].time
      BY DEF InTimeOrder
    <3>1. /\ position + i \in 1 .. Len(log) /\ position + j \in 1 .. Len(log)
          /\ b[i] = log[position + i] /\ b[j] = log[position + j]
      BY <1>1 DEF Part
    <3>2. position + i <= position + j
      BY <1>1
    <3> QED  BY <1>2, <3>1, <3>2 DEF DetectionInvariant, LogTyped, InTimeOrder
  <2>3. /\ IsList(AuthAlerts(b))
        /\ \A a \in ToSet(AuthAlerts(b)) :
              \/ BruteBacked(b, a) \/ SuccessBacked(b, a)
              \/ (a.rule = "rule_003" /\ a.actor = a.key.who)
        /\ \A ip, near : \A t \in Nat :
              BurstIn(b, ip, near, t) =>
                  \E a \in ToSet(AuthAlerts(b)) : Reports(a, ip, t)
    BY <1>1, <2>1, <2>2, AuthAlertsFacts
  <2>4. Raised(b) = AuthAlerts(b)
    BY <1>2 DEF Raised
  <2>5. ASSUME NEW a \in ToSet(AuthAlerts(b))
        PROVE  NamedByKey(a) /\ Grounded(log, a)
    <3>1. CASE BruteBacked(b, a)
      <4>1. Grounded(log, a)
        BY <1>1, <3>1, BruteGrounded
      <4> QED  BY <3>1, <4>1 DEF BruteBacked, NamedByKey
    <3>2. CASE SuccessBacked(b, a)
      <4>1. Grounded(log, a)
        BY <1>1, <3>2, SuccessGrounded
      <4> QED  BY <3>2, <4>1 DEF SuccessBacked, NamedByKey
    <3>3. CASE a.rule = "rule_003" /\ a.actor = a.key.who
      BY <3>3 DEF NamedByKey, Grounded
    <3> QED  BY <2>3, <3>1, <3>2, <3>3
  <2> QED  BY <2>3, <2>4, <2>5 DEF b
<1>3. ASSUME PlainList(Raised(b)), source # "auth_log"
      PROVE  /\ IsList(Raised(Batch))
             /\ \A a \in ToSet(Raised(Batch)) : NamedByKey(a) /\ Grounded(log, a)
  BY <1>3, PlainGrounded DEF PlainList, Plain, b
<1>4. CASE source = "auditd"
  <2>1. AuditRecordList(b)
    BY <1>1, <1>4 DEF DetectionInvariant, LogTyped, Part, AuditRecordList
  <2>2. /\ IsList(AuditAlerts(b))
        /\ \A a \in ToSet(AuditAlerts(b)) : Plain(a) \/ ReconBacked(b, a)
    BY <2>1, AuditAlertsFacts
  <2>3. Raised(b) = AuditAlerts(b)
    BY <1>4 DEF Raised
  <2>4. ASSUME NEW a \in ToSet(AuditAlerts(b))
        PROVE  NamedByKey(a) /\ Grounded(log, a)
    <3>1. CASE Plain(a)
      BY <3>1, PlainGrounded DEF Plain
    <3>2. CASE ReconBacked(b, a)
      <4>1. Grounded(log, a)
        BY <1>1, <3>2, ReconGrounded
      <4> QED  BY <3>2, <4>1 DEF ReconBacked, ReconRule, NamedByKey
    <3> QED  BY <2>2, <3>1, <3>2
  <2> QED  BY <1>4, <2>2, <2>3, <2>4 DEF b
<1>5. CASE source = "cloudtrail"
  <2>1. \A i \in DOMAIN b : b[i] \in Entries["cloudtrail"]
    BY <1>1, <1>5, ListFacts DEF DetectionInvariant, LogTyped, Part
  <2>2. PlainList(Raised(b))
    BY <1>1, <1>5, <2>1, CloudTrailPlain DEF Raised
  <2> QED  BY <1>3, <1>5, <2>2
<1>6. CASE source = "falco"
  <2>1. PlainList(Raised(b))
    BY <1>1, <1>6, FalcoPlain DEF Raised
  <2> QED  BY <1>3, <1>6, <2>1
<1>7. CASE source = "cowrie"
  <2>1. /\ IsList(HoneypotAlerts(b))
        /\ \A a \in ToSet(HoneypotAlerts(b)) : LoginBacked(b, a)
    BY <1>1, HoneypotAlertsFacts
  <2>2. Raised(b) = HoneypotAlerts(b)
    BY <1>7 DEF Raised
  <2>3. ASSUME NEW a \in ToSet(HoneypotAlerts(b))
        PROVE  NamedByKey(a) /\ Grounded(log, a)
    <3>1. LoginBacked(b, a)
      BY <2>1
    <3>2. Grounded(log, a)
      BY <1>1, <3>1, LoginGrounded
    <3> QED  BY <3>1, <3>2 DEF LoginBacked, NamedByKey
  <2> QED  BY <1>7, <2>1, <2>2, <2>3 DEF b
<1> QED
  BY <1>2, <1>4, <1>5, <1>6, <1>7 DEF DetectionInvariant, Sources

LEMMA InvariantInitially == DetectionInit => DetectionInvariant
<1> SUFFICES ASSUME DetectionInit PROVE DetectionInvariant
  OBVIOUS
<1>1. source \in Sources /\ log = <<>> /\ position = 0 /\ alerts = <<>>
  BY DEF DetectionInit
<1>2. IsList(log) /\ IsList(alerts) /\ Len(log) = 0 /\ DOMAIN alerts = {}
  BY <1>1, ShortLists
<1>3. LogTyped
  BY <1>2 DEF LogTyped, InTimeOrder, AuditRecordList
<1> QED
  BY <1>1, <1>2, <1>3 DEF DetectionInvariant

LEMMA CycleKeeps ==
    ASSUME DetectionInvariant, Cycle
    PROVE  DetectionInvariant'
<1> DEFINE raised == Raised(Batch)
<1>1. /\ source' = source /\ log' = log /\ position' = Len(log)
      /\ alerts' = AddNew(alerts, raised)
  BY DEF Cycle
<1>2. IsList(raised) /\ \A a \in ToSet(raised) : NamedByKey(a) /\ Grounded(log, a)
  BY RaisedFacts
<1> HIDE DEF raised
<1>3. /\ IsList(alerts) /\ IsList(log) /\ LogTyped /\ source \in Sources
      /\ \A i \in DOMAIN alerts : NamedByKey(alerts[i]) /\ Grounded(log, alerts[i])
  BY DEF DetectionInvariant
<1>4. /\ IsList(AddNew(alerts, raised))
      /\ \A a \in ToSet(AddNew(alerts, raised)) : a \in ToSet(alerts) \/ a \in ToSet(raised)
  BY <1>2, <1>3, AddNewFacts
<1>5. \A a \in ToSet(AddNew(alerts, raised)) : NamedByKey(a) /\ Grounded(log, a)
  BY <1>2, <1>3, <1>4 DEF ToSet
<1>6. ASSUME NEW i \in DOMAIN alerts'
      PROVE  NamedByKey(alerts'[i]) /\ Grounded(log', alerts'[i])
  <2>1. alerts'[i] \in ToSet(AddNew(alerts, raised))
    BY <1>1 DEF ToSet
  <2> QED  BY <1>1, <1>5, <2>1
<1>7. position' \in 0 .. Len(log')
  BY <1>1, <1>3, ListFacts
<1>8. LogTyped'
  BY <1>1, <1>3 DEF LogTyped
<1> QED
  BY <1>1, <1>3, <1>4, <1>6, <1>7, <1>8 DEF DetectionInvariant

(* The entry a source writes next.                                         *)
LEMMA EntryFacts ==
    ASSUME DetectionInvariant,
           NEW entry \in IF source = "auditd" THEN AuditRecords ELSE Entries[source],
           InTime(entry)
    PROVE  /\ source = "auth_log" =>
                 /\ entry \in Entries["auth_log"]
                 /\ \A i \in 1 .. Len(log) : log[i].time <= entry.time
           /\ source = "cloudtrail" => entry \in Entries["cloudtrail"]
           /\ source = "auditd" =>
                 /\ DOMAIN entry = {"serial", "type", "event"}
                 /\ DOMAIN entry.event = AuditFields /\ entry.event.time \in Nat
<1>1. DOMAIN log = 1 .. Len(log)
  BY ListFacts DEF DetectionInvariant
<1>2. CASE source = "auth_log"
  BY <1>1, <1>2 DEF InTime, TimeOfEntry
<1>3. CASE source = "cloudtrail"
  BY <1>3
<1>4. CASE source = "auditd"
  <2>1. CASE \E e \in Entries["auditd"] :
                entry = [serial |-> Len(log) + 1, type |-> "SYSCALL", event |-> e]
    <3>1. PICK e \in Entries["auditd"] :
              entry = [serial |-> Len(log) + 1, type |-> "SYSCALL", event |-> e]
      BY <2>1
    <3>2. DOMAIN e = AuditFields /\ e.time \in Nat
      BY EntriesAssumption
    <3>3. entry.event = e /\ DOMAIN entry = {"serial", "type", "event"}
      BY <3>1
    <3> QED  BY <1>4, <3>2, <3>3
  <2>2. CASE \E i \in DOMAIN log : entry = [log[i] EXCEPT !.type = "PATH"]
    <3>1. PICK i \in DOMAIN log : entry = [log[i] EXCEPT !.type = "PATH"]
      BY <2>2
    <3>2. /\ DOMAIN log[i] = {"serial", "type", "event"}
          /\ DOMAIN log[i].event = AuditFields /\ log[i].event.time \in Nat
      BY <1>1, <1>4 DEF DetectionInvariant, LogTyped, AuditRecordList
    <3>3. entry.event = log[i].event /\ DOMAIN entry = {"serial", "type", "event"}
      BY <3>1, <3>2
    <3> QED  BY <1>4, <3>2, <3>3
  <2> QED  BY <1>4, <2>1, <2>2 DEF AuditRecords
<1> QED
  BY <1>2, <1>3, <1>4

LEMMA WriteKeeps ==
    ASSUME DetectionInvariant, Write
    PROVE  DetectionInvariant'
<1>1. PICK entry \in IF source = "auditd" THEN AuditRecords ELSE Entries[source] :
          InTime(entry) /\ log' = Append(log, entry)
  BY DEF Write
<1>2. source' = source /\ position' = position /\ alerts' = alerts
  BY DEF Write
<1>3. /\ IsList(log) /\ IsList(alerts) /\ LogTyped /\ source \in Sources
      /\ position \in 0 .. Len(log) /\ Len(log) \in Nat
      /\ \A i \in DOMAIN alerts : NamedByKey(alerts[i]) /\ Grounded(log, alerts[i])
  BY ListFacts DEF DetectionInvariant
<1>4. /\ IsList(log') /\ Len(log') = Len(log) + 1 /\ Part(log, log', 0)
      /\ \A i \in 1 .. Len(log) : log'[i] = log[i]
      /\ log'[Len(log) + 1] = entry
  BY <1>1, <1>3, Appended
<1>5. \A i \in 1 .. Len(log') : i \in 1 .. Len(log) \/ i = Len(log) + 1
  BY <1>3, <1>4
<1>6. /\ source = "auth_log" =>
            /\ entry \in Entries["auth_log"]
            /\ \A i \in 1 .. Len(log) : log[i].time <= entry.time
      /\ source = "cloudtrail" => entry \in Entries["cloudtrail"]
      /\ source = "auditd" =>
            /\ DOMAIN entry = {"serial", "type", "event"}
            /\ DOMAIN entry.event = AuditFields /\ entry.event.time \in Nat
  BY <1>1, EntryFacts
<1>7. LogTyped'
  <2>1. ASSUME source = "auth_log"
        PROVE  /\ InTimeOrder(log')
               /\ \A i \in 1 .. Len(log') : log'[i] \in Entries["auth_log"]
    <3>1. ASSUME NEW i \in 1 .. Len(log')
          PROVE  log'[i] \in Entries["auth_log"]
      BY <1>3, <1>4, <1>5, <1>6, <2>1 DEF LogTyped
    <3>2. ASSUME NEW i \in 1 .. Len(log'), NEW j \in 1 .. Len(log'), i <= j
          PROVE  log'[i].time <= log'[j].time
      <4>1. CASE j \in 1 .. Len(log)
        <5>1. i \in 1 .. Len(log)
          BY <1>3, <3>2, <4>1
        <5> QED  BY <1>3, <1>4, <2>1, <3>2, <4>1, <5>1 DEF LogTyped, InTimeOrder
      <4>2. CASE j = Len(log) + 1 /\ i \in 1 .. Len(log)
        BY <1>4, <1>6, <2>1, <4>2
      <4>3. CASE j = Len(log) + 1 /\ i = Len(log) + 1
        <5>1. log'[j].time \in Nat /\ i = j
          BY <2>1, <3>1, <4>3, EntriesAssumption
        <5> QED  BY <5>1
      <4> QED  BY <1>5, <4>1, <4>2, <4>3
    <3> QED  BY <3>1, <3>2 DEF InTimeOrder
  <2>2. ASSUME source = "cloudtrail", NEW i \in 1 .. Len(log')
        PROVE  log'[i] \in Entries["cloudtrail"]
    BY <1>3, <1>4, <1>5, <1>6, <2>2 DEF LogTyped
  <2>3. ASSUME source = "auditd"
        PROVE  /\ AuditRecordList(log')
               /\ \A i \in 1 .. Len(log') : DOMAIN log'[i] = {"serial", "type", "event"}
    <3>1. ASSUME NEW i \in 1 .. Len(log')
          PROVE  /\ DOMAIN log'[i] = {"serial", "type", "event"}
                 /\ DOMAIN log'[i].event = AuditFields /\ log'[i].event.time \in Nat
      BY <1>3, <1>4, <1>5, <1>6, <2>3 DEF LogTyped, AuditRecordList
    <3> QED  BY <1>4, <3>1 DEF AuditRecordList
  <2> QED  BY <1>2, <2>1, <2>2, <2>3 DEF LogTyped
<1>8. ASSUME NEW i \in DOMAIN alerts
      PROVE  NamedByKey(alerts[i]) /\ Grounded(log', alerts[i])
  BY <1>3, <1>4, StaysGrounded
<1>9. position' \in 0 .. Len(log')
  BY <1>2, <1>3, <1>4
<1> QED
  BY <1>2, <1>3, <1>4, <1>7, <1>8, <1>9 DEF DetectionInvariant

LEMMA DetectionInvariantHolds == DetectionSpec => []DetectionInvariant
<1>1. DetectionInvariant /\ [DetectionNext]_detectionVars => DetectionInvariant'
  <2> SUFFICES ASSUME DetectionInvariant, [DetectionNext]_detectionVars
               PROVE  DetectionInvariant'
    OBVIOUS
  <2>1. CASE Cycle
    BY <2>1, CycleKeeps
  <2>2. CASE Reread
    <3>1. /\ source' = source /\ log' = log /\ alerts' = alerts /\ position' = 0
      BY <2>2 DEF Reread
    <3>2. Len(log) \in Nat
      BY ListFacts DEF DetectionInvariant
    <3> QED  BY <3>1, <3>2 DEF DetectionInvariant, LogTyped
  <2>3. CASE Write
    BY <2>3, WriteKeeps
  <2>4. CASE UNCHANGED detectionVars
    BY <2>4 DEF detectionVars, DetectionInvariant, LogTyped
  <2> QED  BY <2>1, <2>2, <2>3, <2>4 DEF DetectionNext
<1> QED
  BY InvariantInitially, <1>1, PTL DEF DetectionSpec

(* Every alert about several events that is stored is backed by the log,   *)
(* whatever is written, read in whatever batches, and read again.          *)
THEOREM StoredAlertsAreGrounded == DetectionSpec => []AlertsGrounded
<1>1. DetectionInvariant => AlertsGrounded
  BY DEF DetectionInvariant, AlertsGrounded
<1> QED
  BY DetectionInvariantHolds, <1>1, PTL

(* What a batch raises has an alert of the same rule and key afterwards,   *)
(* and alerts with the same rule and key are about the same actor.         *)
LEMMA CycleStores ==
    ASSUME DetectionInvariant, DetectionInvariant', Cycle,
           NEW a \in ToSet(Raised(Batch)), a.rule # "rule_017"
    PROVE  \E i \in DOMAIN alerts' :
               /\ SameAlert(alerts'[i], a) /\ NamedByKey(alerts'[i])
               /\ alerts'[i].actor = a.actor
<1>1. /\ IsList(Raised(Batch)) /\ NamedByKey(a) /\ IsList(alerts)
  BY RaisedFacts DEF DetectionInvariant
<1>2. alerts' = AddNew(alerts, Raised(Batch))
  BY DEF Cycle
<1>3. \E b \in ToSet(AddNew(alerts, Raised(Batch))) : SameAlert(b, a)
  BY <1>1, AddNewFacts
<1>4. PICK i \in DOMAIN alerts' : SameAlert(alerts'[i], a)
  BY <1>2, <1>3 DEF ToSet
<1>5. NamedByKey(alerts'[i])
  BY DEF DetectionInvariant
<1> QED
  BY <1>1, <1>4, <1>5 DEF SameAlert, NamedByKey

LEMMA OnlyCyclesRead ==
    ASSUME DetectionInvariant, [DetectionNext]_detectionVars, position' > position
    PROVE  Cycle
<1>1. position \in Nat /\ ~ (position > position) /\ (position > 0 => ~ (0 > position))
  BY ListFacts DEF DetectionInvariant
<1>2. CASE Reread
  BY <1>1, <1>2 DEF Reread
<1>3. CASE Write
  BY <1>1, <1>3 DEF Write
<1>4. CASE UNCHANGED detectionVars
  BY <1>1, <1>4 DEF detectionVars
<1> QED
  BY <1>2, <1>3, <1>4 DEF DetectionNext

(* Deduplication never hides one actor behind another: what a batch raises *)
(* about somebody is stored about them, by this batch or by one before it. *)
(* The users that Falco names are excepted.                                *)
THEOREM NobodyIsMasked == DetectionSpec => NoActorMasked
<1>1. ASSUME DetectionInvariant, DetectionInvariant', [DetectionNext]_detectionVars
      PROVE  [position' > position =>
                 \A a \in {r \in ToSet(Raised(Batch)) : r.rule # "rule_017"} :
                     \E i \in DOMAIN alerts' :
                         alerts'[i].rule = a.rule /\ alerts'[i].actor = a.actor]_detectionVars
  <2> SUFFICES ASSUME position' > position, NEW a \in ToSet(Raised(Batch)),
                      a.rule # "rule_017"
               PROVE  \E i \in DOMAIN alerts' :
                         alerts'[i].rule = a.rule /\ alerts'[i].actor = a.actor
    OBVIOUS
  <2>1. Cycle
    BY <1>1, OnlyCyclesRead
  <2>2. PICK i \in DOMAIN alerts' : /\ SameAlert(alerts'[i], a)
                                    /\ alerts'[i].actor = a.actor
    BY <1>1, <2>1, CycleStores
  <2> QED  BY <2>2 DEF SameAlert
<1> QED
  BY DetectionInvariantHolds, <1>1, PTL DEF DetectionSpec, NoActorMasked

LEMMA NotNegative ==
    ASSUME NEW x \in Int
    PROVE  /\ Max({0, x}) \in Int /\ Max({0, x}) >= 0
           /\ (Max({0, x}) = 0 \/ Max({0, x}) = x)
<1>1. \E m \in {0, x} : \A z \in {0, x} : m >= z
  BY 0 <= x \/ x <= 0
<1>2. Max({0, x}) \in {0, x} /\ \A z \in {0, x} : Max({0, x}) >= z
  BY <1>1 DEF Max
<1> QED
  BY <1>2

LEMMA DaysAreOrdered ==
    ASSUME NEW x \in Nat, NEW y \in Nat, x <= y
    PROVE  Day(x) \in Int /\ Day(y) \in Int /\ Day(x) <= Day(y)
<1>1. DayLength \in Nat /\ DayLength > 0
  BY AuthAssumption
<1> DEFINE p == x \div DayLength
           q == y \div DayLength
<1>2. /\ p \in Int /\ q \in Int
      /\ DayLength * p <= x /\ y < DayLength * (q + 1)
  BY <1>1
<1> HIDE DEF p, q
<1>3. ASSUME q + 1 <= p PROVE FALSE
  <2>1. p - (q + 1) \in Nat
    BY <1>2, <1>3
  <2>2. DayLength * (p - (q + 1)) >= 0 /\ DayLength * (p - (q + 1)) \in Int
    BY <1>1, <2>1
  <2>3. DayLength * p = DayLength * (q + 1) + DayLength * (p - (q + 1))
    BY <1>1, <1>2
  <2>4. DayLength * p \in Int /\ DayLength * (q + 1) \in Int
    BY <1>1, <1>2
  <2> QED  BY <1>2, <2>2, <2>3, <2>4
<1>4. p <= q
  BY <1>2, <1>3
<1> QED
  BY <1>2, <1>4 DEF Day, p, q

(* Attempts of one address that lie together in a batch and in time leave  *)
(* an alert of that address and of a day around them.                      *)
THEOREM BurstsAreReported == DetectionSpec => BurstsReported
<1> DEFINE Near(ip, from) ==
               {i \in 1 .. Len(Batch) :
                   /\ IsAttempt(Batch[i]) /\ Batch[i].ip = ip
                   /\ Batch[i].time - Batch[from].time \in 0 .. BruteWindow}
           Days(from) == Day(Max({0, Batch[from].time - BruteWindow}))
                             .. Day(Batch[from].time + BruteWindow)
           Reported(ip, from) ==
               \E i \in DOMAIN alerts' :
                   /\ alerts'[i].rule = "rule_001" /\ alerts'[i].actor = ip
                   /\ alerts'[i].key.when \in Days(from)
<1>1. ASSUME DetectionInvariant, DetectionInvariant', [DetectionNext]_detectionVars,
             position' > position, source = "auth_log", NEW ip \in ValidIPs,
             NEW from \in 1 .. Len(Batch), Cardinality(Near(ip, from)) >= BruteThreshold
      PROVE  Reported(ip, from)
  <2> DEFINE b == Batch
             t == b[from].time
             near == Near(ip, from)
  <2>1. Cycle
    BY <1>1, OnlyCyclesRead
  <2>2. \A i \in 1 .. Len(b) : b[i].time \in Nat
    BY <1>1, BatchFacts, EntriesAssumption DEF DetectionInvariant, LogTyped, Part
  <2>3. BurstIn(b, ip, near, t)
    <3>1. ASSUME NEW i \in near
          PROVE  /\ IsAttempt(b[i]) /\ b[i].ip = ip /\ Parses(b[i])
                 /\ t <= b[i].time /\ b[i].time <= t + BruteWindow
      <4>1. /\ i \in 1 .. Len(b) /\ IsAttempt(b[i]) /\ b[i].ip = ip
            /\ b[i].time - t \in 0 .. BruteWindow
        OBVIOUS
      <4>2. b[i].time \in Nat /\ t \in Nat /\ BruteWindow \in Nat
        BY <2>2, <4>1, <1>1, AuthAssumption
      <4> HIDE DEF b, t, near
      <4>3. t <= b[i].time /\ b[i].time <= t + BruteWindow
        BY <4>1, <4>2, SMTT(30)
      <4> QED  BY <1>1, <4>1, <4>3, AttemptIsTry
    <3>2. near \subseteq 1 .. Len(b) /\ Cardinality(near) >= BruteThreshold
      BY <1>1
    <3> HIDE DEF b, t, near
    <3> QED  BY <3>1, <3>2 DEF BurstIn
  <2> HIDE DEF near
  <2>4. t \in Nat
    BY <1>1, <2>2
  <2>5. PICK a \in ToSet(Raised(Batch)) : Reports(a, ip, t)
    BY <1>1, <2>3, <2>4, RaisedFacts
  <2>6. PICK i \in DOMAIN alerts' : /\ SameAlert(alerts'[i], a)
                                    /\ alerts'[i].actor = a.actor
    <3>1. a.rule # "rule_017"
      BY <2>5 DEF Reports
    <3> QED  BY <1>1, <2>1, <3>1, CycleStores
  <2> HIDE DEF t, b
  <2>7. /\ alerts'[i].rule = "rule_001" /\ alerts'[i].actor = ip
        /\ alerts'[i].key.when = Day(a.first) /\ a.first \in Nat
        /\ t - BruteWindow <= a.first /\ a.first <= t + BruteWindow
    BY <2>5, <2>6 DEF SameAlert, Reports
  <2> DEFINE early == Max({0, t - BruteWindow})
             late == t + BruteWindow
  <2>8. early \in Nat /\ early <= a.first /\ late \in Nat /\ a.first <= late
    <3>1. BruteWindow \in Nat /\ t - BruteWindow \in Int
      BY <2>4, AuthAssumption
    <3>2. \A x \in Int : /\ Max({0, x}) \in Int /\ Max({0, x}) >= 0
                         /\ (Max({0, x}) = 0 \/ Max({0, x}) = x)
      BY NotNegative
    <3>3. early \in Int /\ early >= 0 /\ (early = 0 \/ early = t - BruteWindow)
      BY <3>1, <3>2
    <3> HIDE DEF early
    <3> QED  BY <2>4, <2>7, <3>1, <3>3
  <2> HIDE DEF early, late
  <2>9. Day(a.first) \in Day(early) .. Day(late)
    BY <2>7, <2>8, DaysAreOrdered
  <2> QED  BY <2>7, <2>9 DEF early, late, t, b
<1>2. ASSUME DetectionInvariant, DetectionInvariant', [DetectionNext]_detectionVars
      PROVE  [position' > position /\ source = "auth_log" =>
                 \A ip \in ValidIPs : \A from \in 1 .. Len(Batch) :
                     Cardinality(Near(ip, from)) >= BruteThreshold =>
                         Reported(ip, from)]_detectionVars
  BY <1>1, <1>2
<1> QED
  BY DetectionInvariantHolds, <1>2, PTL DEF DetectionSpec, BurstsReported

-----------------------------------------------------------------------------
(* Parts of a list.                                                        *)

(* pos gives the members of S in their order, and list the entries of s    *)
(* there.                                                                  *)
PicksAt(list, s, S, pos) ==
    /\ S \subseteq Nat
    /\ IsList(list)
    /\ \A m \in 1 .. Len(list) : pos[m] \in S /\ list[m] = s[pos[m]]
    /\ \A m, n \in 1 .. Len(list) : m < n => pos[m] < pos[n]
    /\ \A i \in S : \E m \in 1 .. Len(list) : pos[m] = i

Picks(list, s, S) == \E pos : PicksAt(list, s, S, pos)

LEMMA KeptPicks ==
    ASSUME NEW s, IsList(s), NEW S, S \subseteq DOMAIN s
    PROVE  Picks(Kept(s, S), s, S)
<1>1. Len(s) \in Nat /\ DOMAIN s = 1 .. Len(s) /\ IsFiniteSet(DOMAIN s)
  BY ListFacts
<1>2. IsFiniteSet(S) /\ S \subseteq Nat
  BY <1>1, FS_Subset
<1>3. PICK pos : /\ Lists(Kept(s, S), s, pos, S)
                 /\ \A m, n \in 1 .. Cardinality(S) : m < n => pos[m] <= pos[n]
  BY <1>2, KeptLists
<1>4. /\ IsList(Kept(s, S)) /\ Len(Kept(s, S)) = Cardinality(S)
      /\ \A m \in 1 .. Len(Kept(s, S)) : Kept(s, S)[m] = s[pos[m]] /\ pos[m] \in S
  BY <1>3, ListsFacts
<1>5. ASSUME NEW m \in 1 .. Len(Kept(s, S)), NEW n \in 1 .. Len(Kept(s, S)), m < n
      PROVE  pos[m] < pos[n]
  <2>1. pos[m] <= pos[n]
    BY <1>3, <1>4, <1>5
  <2>2. pos[m] # pos[n]
    BY <1>3, <1>4, <1>5 DEF Lists
  <2>3. pos[m] \in Nat /\ pos[n] \in Nat
    BY <1>2, <1>4
  <2> QED  BY <2>1, <2>2, <2>3
<1>6. \A i \in S : \E m \in 1 .. Len(Kept(s, S)) : pos[m] = i
  BY <1>3, <1>4 DEF Lists
<1>7. PicksAt(Kept(s, S), s, S, pos)
  BY <1>2, <1>4, <1>5, <1>6 DEF PicksAt
<1> QED
  BY <1>7 DEF Picks

(* A part of a part.                                                       *)
LEMMA KindPicks ==
    ASSUME NEW list, NEW s, NEW S, Picks(list, s, S), NEW kinds
    PROVE  Picks(OfKind(list, kinds), s, {i \in S : s[i].kind \in kinds})
<1> DEFINE Q == {m \in DOMAIN list : list[m].kind \in kinds}
           T == {i \in S : s[i].kind \in kinds}
<1>1. PICK pos : PicksAt(list, s, S, pos)
  BY DEF Picks
<1>2. /\ S \subseteq Nat /\ IsList(list)
      /\ \A m \in 1 .. Len(list) : pos[m] \in S /\ list[m] = s[pos[m]]
      /\ \A m, n \in 1 .. Len(list) : m < n => pos[m] < pos[n]
      /\ \A i \in S : \E m \in 1 .. Len(list) : pos[m] = i
  BY <1>1 DEF PicksAt
<1>3. DOMAIN list = 1 .. Len(list) /\ Len(list) \in Nat
  BY <1>2, ListFacts
<1>4. OfKind(list, kinds) = Kept(list, Q)
  BY DEF OfKind
<1> DEFINE some == Kept(list, Q)
<1>5. PICK at : PicksAt(some, list, Q, at)
  BY <1>2, KeptPicks DEF Picks
<1>6. /\ IsList(some)
      /\ \A m \in 1 .. Len(some) : at[m] \in Q /\ some[m] = list[at[m]]
      /\ \A m, n \in 1 .. Len(some) : m < n => at[m] < at[n]
      /\ \A i \in Q : \E m \in 1 .. Len(some) : at[m] = i
  BY <1>5 DEF PicksAt
<1> HIDE DEF some
<1> DEFINE both == [m \in 1 .. Len(some) |-> pos[at[m]]]
<1>7. ASSUME NEW m \in 1 .. Len(some)
      PROVE  /\ at[m] \in 1 .. Len(list) /\ both[m] = pos[at[m]]
             /\ both[m] \in T /\ some[m] = s[both[m]]
  BY <1>2, <1>3, <1>6
<1>8. ASSUME NEW i \in T
      PROVE  \E m \in 1 .. Len(some) : both[m] = i
  <2>1. PICK n \in 1 .. Len(list) : pos[n] = i
    BY <1>2
  <2>2. n \in Q
    BY <1>2, <1>3, <2>1
  <2>3. PICK m \in 1 .. Len(some) : at[m] = n
    BY <1>6, <2>2
  <2> QED  BY <2>1, <2>3
<1>9. ASSUME NEW m \in 1 .. Len(some), NEW n \in 1 .. Len(some), m < n
      PROVE  both[m] < both[n]
  BY <1>2, <1>6, <1>7, <1>9
<1>10. T \subseteq Nat
  BY <1>2
<1> HIDE DEF both, T
<1>11. PicksAt(some, s, T, both)
  BY <1>6, <1>7, <1>8, <1>9, <1>10 DEF PicksAt
<1> QED
  BY <1>4, <1>11 DEF Picks, some, T

(* The same part, seen in a longer list.                                   *)
Shifted(S, n) == {n + i : i \in S}

LEMMA ShiftedPicks ==
    ASSUME NEW list, NEW lines, NEW S, Picks(list, lines, S),
           NEW whole, NEW n0 \in Nat, Part(lines, whole, n0), S \subseteq 1 .. Len(lines)
    PROVE  Picks(list, whole, Shifted(S, n0))
<1>1. PICK pos : PicksAt(list, lines, S, pos)
  BY DEF Picks
<1> DEFINE T == {n0 + i : i \in S}
           at == [m \in 1 .. Len(list) |-> n0 + pos[m]]
<1>2. /\ S \subseteq Nat /\ IsList(list)
      /\ \A m \in 1 .. Len(list) : pos[m] \in S /\ list[m] = lines[pos[m]]
      /\ \A m, n \in 1 .. Len(list) : m < n => pos[m] < pos[n]
      /\ \A i \in S : \E m \in 1 .. Len(list) : pos[m] = i
  BY <1>1 DEF PicksAt
<1>3. T \subseteq Nat
  BY <1>2
<1>4. ASSUME NEW m \in 1 .. Len(list)
      PROVE  at[m] \in T /\ list[m] = whole[at[m]] /\ at[m] = n0 + pos[m]
  <2>1. at[m] = n0 + pos[m] /\ pos[m] \in S
    BY <1>2
  <2>2. lines[pos[m]] = whole[n0 + pos[m]]
    BY <2>1 DEF Part
  <2> QED  BY <1>2, <2>1, <2>2
<1>5. ASSUME NEW m \in 1 .. Len(list), NEW n \in 1 .. Len(list), m < n
      PROVE  at[m] < at[n]
  <2>1. pos[m] \in Nat /\ pos[n] \in Nat /\ pos[m] < pos[n]
    BY <1>2, <1>5
  <2> QED  BY <1>4, <2>1
<1>6. \A i \in T : \E m \in 1 .. Len(list) : at[m] = i
  BY <1>2
<1> HIDE DEF at, T
<1>7. PicksAt(list, whole, T, at)
  BY <1>2, <1>3, <1>4, <1>5, <1>6 DEF PicksAt
<1> QED
  BY <1>7 DEF Picks, T, Shifted

LEMMA PicksFacts ==
    ASSUME NEW list, NEW s, NEW S, Picks(list, s, S)
    PROVE  /\ IsList(list)
           /\ ToSet(list) = {s[i] : i \in S}
           /\ list = <<>> <=> S = {}
<1>1. PICK pos : PicksAt(list, s, S, pos)
  BY DEF Picks
<1>2. /\ S \subseteq Nat /\ IsList(list)
      /\ \A m \in 1 .. Len(list) : pos[m] \in S /\ list[m] = s[pos[m]]
      /\ \A i \in S : \E m \in 1 .. Len(list) : pos[m] = i
  BY <1>1 DEF PicksAt
<1>3. DOMAIN list = 1 .. Len(list) /\ Len(list) \in Nat
  BY <1>2, ListFacts
<1>4. ToSet(list) = {s[i] : i \in S}
  <2>1. ToSet(list) = {list[m] : m \in 1 .. Len(list)}
    BY <1>3 DEF ToSet
  <2>2. ASSUME NEW i \in S PROVE s[i] \in ToSet(list)
    <3>1. PICK m \in 1 .. Len(list) : pos[m] = i
      BY <1>2
    <3>2. list[m] = s[i]
      BY <1>2, <3>1
    <3> QED  BY <2>1, <3>2
  <2>3. ASSUME NEW x \in ToSet(list) PROVE x \in {s[i] : i \in S}
    <3>1. PICK m \in 1 .. Len(list) : x = list[m]
      BY <2>1
    <3>2. pos[m] \in S /\ x = s[pos[m]]
      BY <1>2, <3>1
    <3> QED  BY <3>2
  <2> QED  BY <2>2, <2>3
<1>5. ASSUME list = <<>> PROVE S = {}
  <2>1. Len(list) = 0
    BY <1>5
  <2> QED  BY <1>2, <2>1
<1>6. ASSUME list # <<>> PROVE S # {}
  <2>1. Len(list) # 0
    BY <1>2, <1>6 DEF IsList
  <2>2. 1 \in 1 .. Len(list)
    BY <1>3, <2>1
  <2> QED  BY <1>2, <2>2
<1> QED
  BY <1>2, <1>4, <1>5, <1>6

(* t is the time of the last of the lines at S, None if there is none.     *)
LastTime(t, s, S) ==
    IF S = {} THEN t = NoTime
    ELSE \E i \in S : (\A j \in S : j <= i) /\ t = s[i].time

LEMMA TimeOfIs ==
    ASSUME NEW list, NEW s, NEW S, Picks(list, s, S), NEW kind
    PROVE  LastTime(TimeOf(list, kind), s, {i \in S : s[i].kind = kind})
<1> DEFINE T == {i \in S : s[i].kind = kind}
           such == OfKind(list, {kind})
<1>1. Picks(such, s, T)
  <2>1. T = {i \in S : s[i].kind \in {kind}}
    OBVIOUS
  <2> QED  BY <2>1, KindPicks
<1>2. TimeOf(list, kind) = IF such = <<>> THEN NoTime ELSE Last(such).time
  BY DEF TimeOf
<1> HIDE DEF such, T
<1>3. IsList(such) /\ (such = <<>> <=> T = {})
  BY <1>1, PicksFacts
<1>4. PICK pos : PicksAt(such, s, T, pos)
  BY <1>1 DEF Picks
<1>5. CASE such = <<>>
  BY <1>2, <1>3, <1>5 DEF LastTime, T
<1>6. CASE such # <<>>
  <2>1. Len(such) \in Nat /\ Len(such) # 0
    BY <1>3, <1>6 DEF IsList
  <2> DEFINE n == Len(such)
  <2>2. n \in 1 .. Len(such) /\ Last(such) = such[n]
    BY <2>1 DEF Last
  <2>3. pos[n] \in T /\ such[n] = s[pos[n]] /\ T \subseteq Nat
    BY <1>4, <2>2 DEF PicksAt
  <2>4. ASSUME NEW j \in T
        PROVE  j <= pos[n]
    <3>1. PICK m \in 1 .. Len(such) : pos[m] = j
      BY <1>4 DEF PicksAt
    <3>2. m = n \/ m < n
      BY <2>1
    <3>3. m < n => pos[m] < pos[n]
      BY <1>4, <2>2 DEF PicksAt
    <3>4. j \in Nat /\ pos[n] \in Nat
      BY <2>3
    <3>5. j < pos[n] \/ j = pos[n]
      BY <3>1, <3>2, <3>3
    <3> QED  BY <3>4, <3>5
  <2>5. LastTime(Last(such).time, s, T)
    BY <2>2, <2>3, <2>4 DEF LastTime
  <2> QED  BY <1>2, <1>6, <2>5 DEF T
<1> QED
  BY <1>5, <1>6

-----------------------------------------------------------------------------
(* A session of a batch, and what the database tells of the lines it has.  *)

IsLogin(l) == l.kind \in {"login_success", "login_failed"}

SameLogin(k, l) == k.session = l.session /\ k.time = l.time /\ k.user = l.user

(* The lines at D of this session that are of this kind.                   *)
LinesOf(L, D, id, kind) == {i \in D : L[i].session = id /\ L[i].kind = kind}

(* The logins that are the first of their user and time.                   *)
FirstLogins(L, D) ==
    {i \in D : /\ IsLogin(L[i])
               /\ \A j \in D : IsLogin(L[j]) /\ SameLogin(L[j], L[i]) => i <= j}

(* The parsed session s is what the lines of id at C say.                  *)
SessionTold(s, L, C, id) ==
    /\ s.id = id
    /\ LastTime(s.start, L, LinesOf(L, C, id, "connect"))
    /\ LastTime(s.end, L, LinesOf(L, C, id, "closed"))
    /\ Picks(s.logins, L, {i \in C : L[i].session = id /\ IsLogin(L[i])})
    /\ Picks(s.commands, L, LinesOf(L, C, id, "command"))

LEMMA SessionIsTold ==
    ASSUME NEW lines, IsList(lines), NEW L, NEW n0 \in Nat, Part(lines, L, n0), NEW id,
           NEW C, C = {n0 + i : i \in {j \in 1 .. Len(lines) : lines[j].session = id}}
    PROVE  /\ SessionTold(SessionOf(lines, id), L, C, id)
           /\ \A i \in C : L[i].session = id
<1> DEFINE S == {j \in 1 .. Len(lines) : lines[j].session = id}
           own == Kept(lines, {i \in DOMAIN lines : lines[i].session = id})
           s == SessionOf(lines, id)
<1>1. DOMAIN lines = 1 .. Len(lines)
  BY ListFacts
<1>2. Picks(own, lines, S)
  BY <1>1, KeptPicks
<1>3. C = {n0 + i : i \in S} /\ S \subseteq 1 .. Len(lines)
  OBVIOUS
<1>4. \A i \in C : L[i].session = id
  BY <1>3 DEF Part
<1>5. /\ s.id = id
      /\ s.start = TimeOf(own, "connect") /\ s.end = TimeOf(own, "closed")
      /\ s.logins = OfKind(own, {"login_success", "login_failed"})
      /\ s.commands = OfKind(own, {"command"})
  BY DEF SessionOf
<1> HIDE DEF S, own, s
<1>6. Picks(own, L, C)
  <2>1. Picks(own, L, Shifted(S, n0))
    BY <1>2, <1>3, ShiftedPicks
  <2> QED  BY <1>3, <2>1 DEF Shifted
<1>7. LastTime(s.start, L, LinesOf(L, C, id, "connect"))
  <2>1. LinesOf(L, C, id, "connect") = {i \in C : L[i].kind = "connect"}
    BY <1>4 DEF LinesOf
  <2> QED  BY <1>5, <1>6, <2>1, TimeOfIs
<1>8. LastTime(s.end, L, LinesOf(L, C, id, "closed"))
  <2>1. LinesOf(L, C, id, "closed") = {i \in C : L[i].kind = "closed"}
    BY <1>4 DEF LinesOf
  <2> QED  BY <1>5, <1>6, <2>1, TimeOfIs
<1>9. Picks(s.logins, L, {i \in C : L[i].session = id /\ IsLogin(L[i])})
  <2>1. {i \in C : L[i].session = id /\ IsLogin(L[i])}
          = {i \in C : L[i].kind \in {"login_success", "login_failed"}}
    BY <1>4 DEF IsLogin
  <2> QED  BY <1>5, <1>6, <2>1, KindPicks
<1>10. Picks(s.commands, L, LinesOf(L, C, id, "command"))
  <2>1. LinesOf(L, C, id, "command") = {i \in C : L[i].kind \in {"command"}}
    BY <1>4 DEF LinesOf
  <2> QED  BY <1>5, <1>6, <2>1, KindPicks
<1> QED
  BY <1>4, <1>5, <1>7, <1>8, <1>9, <1>10 DEF SessionTold, s

RowTold(row, L, D, id) ==
    /\ row = [start |-> row.start, end |-> row.end]
    /\ LastTime(row.start, L, LinesOf(L, D, id, "connect"))
    /\ LastTime(row.end, L, LinesOf(L, D, id, "closed"))

RowsTold(rows, L, D) ==
    /\ rows = [id \in DOMAIN rows |-> rows[id]]
    /\ DOMAIN rows = {L[i].session : i \in D}
    /\ \A id \in DOMAIN rows : RowTold(rows[id], L, D, id)

LoginsTold(rows, L, D) ==
    rows = {LoginRow(L[i].session, L[i]) : i \in FirstLogins(L, D)}

CommandsTold(rows, L, D) ==
    rows = {CommandRow(L[i].session, L[i]) : i \in {j \in D : L[j].kind = "command"}}

Tells(d, L, D) ==
    /\ d = [sessions |-> d.sessions, logins |-> d.logins, commands |-> d.commands]
    /\ RowsTold(d.sessions, L, D)
    /\ LoginsTold(d.logins, L, D)
    /\ CommandsTold(d.commands, L, D)

(* Every line has a time, the connect lines of a session agree on theirs,  *)
(* and no line of a session comes before its first connect line.           *)
Agree(L, i, j) ==
    (L[i].kind = "connect" /\ L[j].kind = "connect" /\ L[i].session = L[j].session)
        => L[i].time = L[j].time

Follows(L, i, j) ==
    (L[j].kind = "connect" /\ L[i].session = L[j].session)
        => \E k \in 1 .. i : L[k].kind = "connect" /\ L[k].session = L[j].session

Steady(L) ==
    /\ \A i \in 1 .. Len(L) : L[i].time # NoTime
    /\ \A i, j \in 1 .. Len(L) : Agree(L, i, j)
    /\ \A i, j \in 1 .. Len(L) : Follows(L, i, j)

(* D are the lines stored so far: all of the first n0, and none of id      *)
(* beyond; C are those of id beyond.                                       *)
NextSession(L, n0, D, C, id) ==
    /\ n0 \in Nat /\ n0 <= Len(L) /\ Len(L) \in Nat
    /\ 1 .. n0 \subseteq D /\ D \subseteq 1 .. Len(L)
    /\ \A i \in D : L[i].session = id => i <= n0
    /\ C \subseteq n0 + 1 .. Len(L) /\ C # {}
    /\ \A i \in C : L[i].session = id

LEMMA LastTimeOfTwo ==
    ASSUME NEW L, NEW S, NEW T, S \subseteq Nat, T \subseteq Nat,
           \A i \in S : \A j \in T : i < j,
           \A i \in T : L[i].time # NoTime,
           NEW old, LastTime(old, L, S), NEW new, LastTime(new, L, T)
    PROVE  LastTime(IF new = NoTime THEN old ELSE new, L, S \union T)
<1>1. CASE T = {}
  <2>1. new = NoTime /\ S \union T = S
    BY <1>1 DEF LastTime
  <2> QED  BY <2>1
<1>2. CASE T # {}
  <2>1. PICK i \in T : (\A j \in T : j <= i) /\ new = L[i].time
    BY <1>2 DEF LastTime
  <2>2. \A j \in S \union T : j <= i
    BY <2>1
  <2>3. new # NoTime
    BY <2>1
  <2> QED  BY <2>1, <2>2, <2>3 DEF LastTime
<1> QED
  BY <1>1, <1>2

LEMMA UpsertTells ==
    ASSUME NEW L, Steady(L), NEW n0, NEW D, NEW C, NEW id, NextSession(L, n0, D, C, id),
           NEW rows, RowsTold(rows, L, D), NEW s, SessionTold(s, L, C, id)
    PROVE  RowsTold(Upsert(rows, s), L, D \union C)
<1> DEFINE new == Upsert(rows, s)
           old == LinesOf(L, D, id, "connect")
           more == LinesOf(L, C, id, "connect")
           row == IF id \notin DOMAIN rows THEN [start |-> s.start, end |-> s.end]
                  ELSE [start |-> rows[id].start,
                        end   |-> IF s.end = NoTime THEN rows[id].end ELSE s.end]
<1>1. s.id = id /\ LastTime(s.start, L, more)
      /\ LastTime(s.end, L, LinesOf(L, C, id, "closed"))
  BY DEF SessionTold
<1>2. /\ n0 \in Nat /\ n0 <= Len(L) /\ Len(L) \in Nat
      /\ 1 .. n0 \subseteq D /\ D \subseteq 1 .. Len(L)
      /\ \A i \in D : L[i].session = id => i <= n0
      /\ C \subseteq n0 + 1 .. Len(L) /\ C # {}
      /\ \A i \in C : L[i].session = id
      /\ C \subseteq 1 .. Len(L)
  BY DEF NextSession
<1>3. /\ rows = [x \in DOMAIN rows |-> rows[x]]
      /\ DOMAIN rows = {L[i].session : i \in D}
      /\ \A x \in DOMAIN rows : RowTold(rows[x], L, D, x)
  BY DEF RowsTold
<1>4. /\ DOMAIN new = DOMAIN rows \union {id}
      /\ new = [x \in DOMAIN new |-> new[x]]
      /\ new[id] = row
      /\ \A x \in DOMAIN rows : x # id => new[x] = rows[x]
  BY <1>1 DEF Upsert
<1> HIDE DEF new
<1>5. DOMAIN new = {L[i].session : i \in D \union C}
  BY <1>2, <1>3, <1>4
<1>6. ASSUME NEW x \in DOMAIN rows, x # id
      PROVE  RowTold(new[x], L, D \union C, x)
  <2>1. \A kind : LinesOf(L, D \union C, x, kind) = LinesOf(L, D, x, kind)
    BY <1>2, <1>6 DEF LinesOf
  <2> QED  BY <1>3, <1>4, <1>6, <2>1 DEF RowTold
<1>7. \A kind : /\ LinesOf(L, D \union C, id, kind)
                       = LinesOf(L, D, id, kind) \union LinesOf(L, C, id, kind)
                /\ LinesOf(L, D, id, kind) \subseteq Nat
                /\ LinesOf(L, C, id, kind) \subseteq Nat
                /\ \A i \in LinesOf(L, C, id, kind) : L[i].time # NoTime
                /\ \A i \in LinesOf(L, D, id, kind) : \A j \in LinesOf(L, C, id, kind) : i < j
  <2>1. \A kind : LinesOf(L, D \union C, id, kind)
                       = LinesOf(L, D, id, kind) \union LinesOf(L, C, id, kind)
    BY DEF LinesOf
  <2>2. \A i \in D : i \in Nat /\ (L[i].session = id => i <= n0)
    BY <1>2
  <2>3. \A i \in C : i \in Nat /\ n0 < i /\ L[i].time # NoTime
    BY <1>2 DEF Steady
  <2>4. \A i \in D, j \in C : L[i].session = id => i < j
    BY <1>2, <2>2, <2>3
  <2> QED  BY <2>1, <2>2, <2>3, <2>4 DEF LinesOf
<1>8. CASE id \notin DOMAIN rows
  <2>1. row = [start |-> s.start, end |-> s.end]
    BY <1>8
  <2>2. \A i \in D : L[i].session # id
    BY <1>3, <1>8
  <2>3. \A kind : LinesOf(L, D \union C, id, kind) = LinesOf(L, C, id, kind)
    BY <2>2 DEF LinesOf
  <2>4. RowTold(row, L, D \union C, id)
    BY <1>1, <2>1, <2>3 DEF RowTold
  <2> QED  BY <1>4, <1>5, <1>6, <2>4 DEF RowsTold, new
<1>9. CASE id \in DOMAIN rows
  <2> DEFINE end == IF s.end = NoTime THEN rows[id].end ELSE s.end
  <2>1. row = [start |-> rows[id].start, end |-> end]
    BY <1>9
  <2>2. LastTime(rows[id].start, L, old)
        /\ LastTime(rows[id].end, L, LinesOf(L, D, id, "closed"))
    BY <1>3, <1>9 DEF RowTold
  <2>3. LastTime(end, L, LinesOf(L, D \union C, id, "closed"))
    <3> DEFINE was == rows[id].end
               S == LinesOf(L, D, id, "closed")
               T == LinesOf(L, C, id, "closed")
    <3>1. LastTime(was, L, S) /\ LastTime(s.end, L, T)
      BY <1>1, <2>2
    <3>2. /\ LinesOf(L, D \union C, id, "closed") = S \union T
          /\ S \subseteq Nat /\ T \subseteq Nat
          /\ \A i \in T : L[i].time # NoTime
          /\ \A i \in S : \A j \in T : i < j
      BY <1>7
    <3> HIDE DEF was, S, T
    <3>3. LastTime(IF s.end = NoTime THEN was ELSE s.end, L, S \union T)
      BY <3>1, <3>2, LastTimeOfTwo
    <3> QED  BY <3>2, <3>3 DEF was
  <2>4. LastTime(rows[id].start, L, LinesOf(L, D \union C, id, "connect"))
    <3>1. LinesOf(L, D \union C, id, "connect") = old \union more
          /\ old \subseteq Nat /\ more \subseteq Nat
          /\ \A i \in old : \A j \in more : i < j
      BY <1>7
    <3>2. CASE more = {}
      BY <2>2, <3>1, <3>2
    <3>3. CASE more # {}
      <4>1. PICK c \in more : TRUE
        BY <3>3
      <4>2. c \in C /\ L[c].kind = "connect" /\ L[c].session = id /\ c \in 1 .. Len(L)
        BY <1>2, <4>1 DEF LinesOf
      <4>3. PICK i \in D : L[i].session = id
        BY <1>3, <1>9
      <4>4. i \in 1 .. Len(L) /\ i <= n0
        BY <1>2, <4>3
      <4>5. PICK k \in 1 .. i : L[k].kind = "connect" /\ L[k].session = id
        BY <4>2, <4>3, <4>4 DEF Steady, Follows
      <4>6. k \in 1 .. n0
        BY <1>2, <4>4, <4>5
      <4>7. k \in old
        BY <1>2, <4>5, <4>6 DEF LinesOf
      <4>8. PICK o \in old : rows[id].start = L[o].time
        BY <2>2, <4>7 DEF LastTime
      <4>9. PICK m \in more : \A j \in more : j <= m
        BY <1>1, <3>3 DEF LastTime
      <4>10. \A j \in old \union more : j <= m
        BY <3>1, <4>9
      <4>11. L[o].time = L[m].time
        <5>1. /\ o \in 1 .. Len(L) /\ m \in 1 .. Len(L)
              /\ L[o].kind = "connect" /\ L[o].session = id
              /\ L[m].kind = "connect" /\ L[m].session = id
          BY <1>2 DEF LinesOf
        <5> QED  BY <5>1 DEF Steady, Agree
      <4> QED  BY <3>1, <4>8, <4>9, <4>10, <4>11 DEF LastTime
    <3> QED  BY <3>2, <3>3
  <2> HIDE DEF end
  <2>5. RowTold(row, L, D \union C, id)
    BY <2>1, <2>3, <2>4 DEF RowTold
  <2> QED  BY <1>4, <1>5, <1>6, <2>5 DEF RowsTold, new
<1> QED
  BY <1>8, <1>9

LEMMA LoginRowsTell ==
    ASSUME NEW L, NEW n0, NEW D, NEW C, NEW id, NextSession(L, n0, D, C, id),
           NEW rows, LoginsTold(rows, L, D), NEW s, SessionTold(s, L, C, id)
    PROVE  LoginsTold(LoginRows(rows, s), L, D \union C)
<1> DEFINE logins == s.logins
           T == {i \in C : L[i].session = id /\ IsLogin(L[i])}
           Stored(i) == \E row \in rows : /\ row.id = s.id /\ row.time = logins[i].time
                                          /\ row.user = logins[i].user
           Ignored(i) == \E j \in 1 .. i - 1 : /\ logins[j].time = logins[i].time
                                               /\ logins[j].user = logins[i].user
           new == {i \in DOMAIN logins : ~Stored(i) /\ ~Ignored(i)}
           Row(i) == LoginRow(L[i].session, L[i])
           before == FirstLogins(L, D)
           after == FirstLogins(L, D \union C)
<1>1. s.id = id /\ Picks(logins, L, T)
  BY DEF SessionTold
<1>2. PICK pos : PicksAt(logins, L, T, pos)
  BY <1>1 DEF Picks
<1>3. /\ T \subseteq Nat /\ IsList(logins)
      /\ \A m \in 1 .. Len(logins) : pos[m] \in T /\ logins[m] = L[pos[m]]
      /\ \A m, n \in 1 .. Len(logins) : m < n => pos[m] < pos[n]
      /\ \A i \in T : \E m \in 1 .. Len(logins) : pos[m] = i
  BY <1>2 DEF PicksAt
<1>4. DOMAIN logins = 1 .. Len(logins) /\ Len(logins) \in Nat
  BY <1>3, ListFacts
<1>5. /\ \A i \in D : i \in Nat /\ (L[i].session = id => i <= n0)
      /\ \A i \in C : i \in Nat /\ n0 < i /\ L[i].session = id
      /\ n0 \in Nat
  BY DEF NextSession
<1>6. rows = {Row(i) : i \in before}
  BY DEF LoginsTold
<1>7. \A i \in T : L[i].session = id /\ IsLogin(L[i]) /\ i \in C /\ i \in Nat /\ n0 < i
  BY <1>5
<1>8. \A i \in D \union C : /\ Row(i).id = L[i].session /\ Row(i).time = L[i].time
                            /\ Row(i).user = L[i].user
  BY DEF LoginRow
<1>9. \A j \in D : IsLogin(L[j]) => \E i \in before : SameLogin(L[i], L[j])
  <2> SUFFICES ASSUME NEW j \in D, IsLogin(L[j])
               PROVE  \E i \in before : SameLogin(L[i], L[j])
    OBVIOUS
  <2> DEFINE same == {i \in D : IsLogin(L[i]) /\ SameLogin(L[i], L[j])}
  <2>1. same \subseteq Nat /\ same # {}
    BY <1>5 DEF SameLogin
  <2>2. PICK i \in same : \A k \in same : i <= k
    BY <2>1, LeastNatural
  <2>3. i \in before
    BY <2>2 DEF FirstLogins, SameLogin
  <2> QED  BY <2>3
<1>10. ASSUME NEW m \in 1 .. Len(logins)
       PROVE  Stored(m) <=> \E j \in D : IsLogin(L[j]) /\ SameLogin(L[j], L[pos[m]])
  <2>1. /\ logins[m] = L[pos[m]] /\ L[pos[m]].session = id
    BY <1>3, <1>7
  <2>2. \A j \in before : j \in D /\ IsLogin(L[j])
    BY DEF FirstLogins
  <2> HIDE DEF before
  <2>3. Stored(m) <=> \E j \in before : /\ Row(j).id = id /\ Row(j).time = L[pos[m]].time
                                        /\ Row(j).user = L[pos[m]].user
    BY <1>1, <1>6, <2>1
  <2> HIDE DEF Row, Stored
  <2>4. Stored(m) <=> \E j \in before : SameLogin(L[j], L[pos[m]])
    BY <1>8, <2>1, <2>2, <2>3 DEF SameLogin
  <2>5. ASSUME NEW j \in D, IsLogin(L[j]), SameLogin(L[j], L[pos[m]])
        PROVE  \E i \in before : SameLogin(L[i], L[pos[m]])
    BY <1>9, <2>5 DEF SameLogin
  <2> QED  BY <2>2, <2>4, <2>5
<1>11. ASSUME NEW m \in 1 .. Len(logins)
       PROVE  Ignored(m) <=> \E j \in T : j < pos[m] /\ SameLogin(L[j], L[pos[m]])
  <2>1. pos[m] \in T /\ logins[m] = L[pos[m]] /\ L[pos[m]].session = id
    BY <1>3, <1>7
  <2>2. ASSUME NEW k \in 1 .. m - 1, logins[k].time = logins[m].time,
               logins[k].user = logins[m].user
        PROVE  \E j \in T : j < pos[m] /\ SameLogin(L[j], L[pos[m]])
    <3>1. k \in 1 .. Len(logins) /\ k < m
      BY <1>4
    <3>2. pos[k] \in T /\ pos[k] < pos[m] /\ logins[k] = L[pos[k]]
      BY <1>3, <3>1
    <3>3. SameLogin(L[pos[k]], L[pos[m]])
      BY <1>7, <2>1, <2>2, <3>2 DEF SameLogin
    <3> QED  BY <3>2, <3>3
  <2>3. ASSUME NEW j \in T, j < pos[m], SameLogin(L[j], L[pos[m]])
        PROVE  Ignored(m)
    <3>1. PICK k \in 1 .. Len(logins) : pos[k] = j
      BY <1>3
    <3>2. k < m
      <4>1. k = m \/ k < m \/ m < k
        BY <1>4
      <4>2. ASSUME m < k PROVE pos[m] < pos[k]
        BY <1>3, <4>2
      <4>3. pos[m] \in Nat /\ j \in Nat
        BY <1>3, <2>1
      <4> QED  BY <2>3, <3>1, <4>1, <4>2, <4>3
    <3>3. k \in 1 .. m - 1
      BY <1>4, <3>2
    <3>4. logins[k] = L[j]
      BY <1>3, <3>1
    <3> QED  BY <2>1, <2>3, <3>3, <3>4 DEF SameLogin
  <2> QED  BY <2>2, <2>3
<1>12. LoginRows(rows, s) = rows \union {LoginRow(id, logins[i]) : i \in new}
  BY <1>1 DEF LoginRows
<1>13. ASSUME NEW m \in 1 .. Len(logins)
       PROVE  m \in new <=> pos[m] \in after
  <2> DEFINE p == pos[m]
  <2>1. p \in T /\ p \in C /\ IsLogin(L[p]) /\ L[p].session = id /\ p \in Nat /\ n0 < p
    BY <1>3, <1>7
  <2> HIDE DEF p
  <2>2. m \in new <=> /\ ~ \E j \in D : IsLogin(L[j]) /\ SameLogin(L[j], L[p])
                      /\ ~ \E j \in T : j < p /\ SameLogin(L[j], L[p])
    <3> HIDE DEF Stored, Ignored
    <3> QED  BY <1>4, <1>10, <1>11 DEF p
  <2>3. p \in after <=> \A j \in D \union C : IsLogin(L[j]) /\ SameLogin(L[j], L[p]) => p <= j
    BY <2>1 DEF FirstLogins
  <2>4. ASSUME NEW j \in D, IsLogin(L[j]), SameLogin(L[j], L[p])
        PROVE  ~ (p <= j)
    BY <1>5, <2>1, <2>4 DEF SameLogin
  <2>5. ASSUME NEW j \in C, IsLogin(L[j]), SameLogin(L[j], L[p])
        PROVE  j \in T /\ (j < p <=> ~ (p <= j))
    BY <1>5, <2>1, <2>5
  <2>6. ASSUME NEW j \in T
        PROVE  j \in C /\ IsLogin(L[j])
    BY <1>7
  <2> HIDE DEF new, after, T
  <2> QED  BY <2>2, <2>3, <2>4, <2>5, <2>6 DEF p
<1>14. before \subseteq after
  <2> SUFFICES ASSUME NEW i \in before, NEW j \in C, IsLogin(L[j]), SameLogin(L[j], L[i])
               PROVE  i <= j
    BY DEF FirstLogins
  <2>1. i \in D
    BY DEF FirstLogins
  <2> QED  BY <1>5, <2>1 DEF SameLogin
<1>15. \A i \in after : i \in before \/ i \in T
  BY <1>5 DEF FirstLogins
<1>16. \A i \in T : Row(i) = LoginRow(id, L[i])
  BY <1>7
<1> HIDE DEF new, before, after, T, Row
<1>17. ASSUME NEW i \in after
       PROVE  Row(i) \in LoginRows(rows, s)
  <2>1. CASE i \in before
    BY <1>6, <1>12, <2>1
  <2>2. CASE i \in T
    <3>1. PICK m \in 1 .. Len(logins) : pos[m] = i
      BY <1>3, <2>2
    <3>2. m \in new /\ logins[m] = L[i]
      BY <1>3, <1>13, <3>1
    <3> QED  BY <1>12, <1>16, <2>2, <3>2
  <2> QED  BY <1>15, <2>1, <2>2
<1>18. ASSUME NEW x \in LoginRows(rows, s)
       PROVE  \E i \in after : x = Row(i)
  <2>1. CASE x \in rows
    BY <1>6, <1>14, <2>1
  <2>2. CASE x \in {LoginRow(id, logins[i]) : i \in new}
    <3>1. PICK m \in new : x = LoginRow(id, logins[m])
      BY <2>2
    <3>2. m \in 1 .. Len(logins)
      BY <1>4 DEF new
    <3>3. pos[m] \in after /\ pos[m] \in T /\ logins[m] = L[pos[m]]
      BY <1>3, <1>13, <3>1, <3>2
    <3> QED  BY <1>16, <3>1, <3>3
  <2> QED  BY <1>12, <2>1, <2>2
<1>19. LoginRows(rows, s) = {Row(i) : i \in after}
  BY <1>17, <1>18
<1> QED
  BY <1>19 DEF LoginsTold, Row, after

LEMMA StoreSessionTells ==
    ASSUME NEW L, Steady(L), NEW n0, NEW D, NEW C, NEW id, NextSession(L, n0, D, C, id),
           NEW d, Tells(d, L, D), NEW s, SessionTold(s, L, C, id)
    PROVE  Tells(StoreSession(d, s), L, D \union C)
<1> DEFINE e == StoreSession(d, s)
           commands == d.commands \union CommandRows(s)
<1>1. e = [sessions |-> Upsert(d.sessions, s), logins |-> LoginRows(d.logins, s),
           commands |-> commands]
  BY DEF StoreSession
<1>2. /\ e.sessions = Upsert(d.sessions, s) /\ e.logins = LoginRows(d.logins, s)
      /\ e.commands = commands
      /\ e = [sessions |-> e.sessions, logins |-> e.logins, commands |-> e.commands]
  BY <1>1
<1> HIDE DEF e
<1>3. RowsTold(e.sessions, L, D \union C)
  BY <1>2, UpsertTells DEF Tells
<1>4. LoginsTold(e.logins, L, D \union C)
  BY <1>2, LoginRowsTell DEF Tells
<1>5. CommandsTold(commands, L, D \union C)
  <2> DEFINE T == LinesOf(L, C, id, "command")
             S == {j \in D : L[j].kind = "command"}
             all == {j \in D \union C : L[j].kind = "command"}
             Row(i) == CommandRow(L[i].session, L[i])
  <2>1. s.id = id /\ Picks(s.commands, L, T)
    BY DEF SessionTold
  <2>2. T = {i \in C : L[i].kind = "command"} /\ \A i \in T : L[i].session = id
    BY DEF LinesOf, NextSession
  <2>3. all = S \union T
    BY <2>2
  <2> HIDE DEF T
  <2>4. ToSet(s.commands) = {L[i] : i \in T}
    BY <2>1, PicksFacts
  <2>5. CommandRows(s) = {CommandRow(id, L[i]) : i \in T}
    BY <2>1, <2>4 DEF CommandRows
  <2>6. CommandRows(s) = {Row(i) : i \in T}
    BY <2>2, <2>5
  <2>7. d.commands = {Row(i) : i \in S}
    BY DEF Tells, CommandsTold
  <2> HIDE DEF S, all, Row
  <2>8. commands = {Row(i) : i \in all}
    BY <2>3, <2>6, <2>7
  <2> QED  BY <2>8 DEF CommandsTold, all, Row
<1> QED
  BY <1>2, <1>3, <1>4, <1>5 DEF Tells, e

-----------------------------------------------------------------------------
(* The loop over the sessions of a batch.                                  *)

Stores(f, d, sessions, n) ==
    f = [i \in 0 .. n |-> IF i = 0 THEN d ELSE StoreSession(f[i - 1], sessions[i])]

LEMMA StoresExists ==
    ASSUME NEW d, NEW sessions, NEW n \in Nat
    PROVE  \E f : Stores(f, d, sessions, n)
<1> DEFINE S == {m \in 0 .. n : \E f : Stores(f, d, sessions, m)}
<1>1. 0 \in S
  <2> DEFINE f == [i \in 0 .. 0 |-> d]
  <2>1. Stores(f, d, sessions, 0)
    <3>1. \A i \in 0 .. 0 : i = 0
      OBVIOUS
    <3> QED  BY <3>1 DEF Stores
  <2> QED  BY <2>1
<1>2. ASSUME NEW m \in 0 .. n - 1, m \in S
      PROVE  m + 1 \in S
  <2>1. PICK f : Stores(f, d, sessions, m)
    BY <1>2
  <2> DEFINE next == StoreSession(f[m], sessions[m + 1])
             g == [i \in 0 .. m + 1 |-> IF i = m + 1 THEN next ELSE f[i]]
  <2>2. \A i \in 0 .. m : /\ f[i] = IF i = 0 THEN d
                                    ELSE StoreSession(f[i - 1], sessions[i])
                          /\ i \in 0 .. m + 1 /\ i # m + 1
    BY <2>1 DEF Stores
  <2>3. (\A i \in 0 .. m : g[i] = f[i]) /\ g[m + 1] = next
    BY <2>2
  <2>4. \A i \in 0 .. m + 1 : g[i] = IF i = 0 THEN d
                                     ELSE StoreSession(g[i - 1], sessions[i])
    <3> HIDE DEF g
    <3>1. ASSUME NEW i \in 0 .. m
          PROVE  g[i] = IF i = 0 THEN d ELSE StoreSession(g[i - 1], sessions[i])
      <4>1. i # 0 => i - 1 \in 0 .. m
        OBVIOUS
      <4> QED  BY <2>2, <2>3, <4>1
    <3>2. g[m + 1] = StoreSession(g[(m + 1) - 1], sessions[m + 1]) /\ m + 1 # 0
      <4>1. m \in 0 .. m /\ (m + 1) - 1 = m
        OBVIOUS
      <4> QED  BY <2>3, <4>1
    <3>3. \A i \in 0 .. m + 1 : i \in 0 .. m \/ i = m + 1
      OBVIOUS
    <3> QED  BY <3>1, <3>2, <3>3
  <2>5. Stores(g, d, sessions, m + 1)
    BY <2>4 DEF Stores
  <2> QED  BY <2>5
<1>3. n \in 0 .. n /\ \A m \in 0 .. n - 1 : m \in S => m + 1 \in S
  BY <1>2
<1> HIDE DEF S
<1>4. n \in S
  BY <1>1, <1>3, Stepwise
<1> QED
  BY <1>4 DEF S

AllGood(lines) == \A i \in 1 .. Len(lines) : lines[i].good

(* The sessions of a batch that can be parsed, each once.                  *)
LEMMA SessionsFacts ==
    ASSUME NEW lines, IsList(lines), AllGood(lines)
    PROVE  \E ids : /\ IsList(ids) /\ ids = SessionIds(lines)
                    /\ ToSet(ids) = {lines[i].session : i \in 1 .. Len(lines)}
                    /\ \A m, n \in 1 .. Len(ids) : m # n => ids[m] # ids[n]
                    /\ IsList(Sessions(lines)) /\ Len(Sessions(lines)) = Len(ids)
                    /\ \A i \in 1 .. Len(ids) : Sessions(lines)[i] = SessionOf(lines, ids[i])
<1> DEFINE named == [i \in DOMAIN lines |-> lines[i].session]
           ids == SessionIds(lines)
           sessions == Sessions(lines)
<1>1. DOMAIN lines = 1 .. Len(lines) /\ Len(lines) \in Nat
  BY ListFacts
<1>2. IsList(named) /\ ToSet(named) = {lines[i].session : i \in 1 .. Len(lines)}
  BY <1>1, ListMade DEF ToSet
<1>3. ids = Distinct(named)
  BY DEF SessionIds
<1> HIDE DEF named
<1>4. /\ IsList(ids) /\ ToSet(ids) = ToSet(named)
      /\ \A m, n \in 1 .. Len(ids) : m # n => ids[m] # ids[n]
  BY <1>2, <1>3, DistinctFacts
<1>5. DOMAIN ids = 1 .. Len(ids) /\ Len(ids) \in Nat
  BY <1>4, ListFacts
<1>6. sessions = [i \in DOMAIN ids |-> SessionOf(lines, ids[i])]
  BY <1>1 DEF Sessions, AllGood
<1> HIDE DEF ids, sessions
<1>7. IsList(sessions) /\ Len(sessions) = Len(ids)
      /\ \A i \in 1 .. Len(ids) : sessions[i] = SessionOf(lines, ids[i])
  BY <1>5, <1>6, ListMade
<1> QED
  BY <1>2, <1>4, <1>7 DEF ids, sessions

(* One reading more: the database tells the lines it has told and those of *)
(* the batch.                                                              *)
LEMMA StoreMore ==
    ASSUME NEW L, IsList(L), Steady(L), NEW n0 \in 0 .. Len(L),
           NEW lines, IsList(lines), Len(L) = n0 + Len(lines), Part(lines, L, n0),
           AllGood(lines), NEW d, Tells(d, L, 1 .. n0)
    PROVE  Tells(StoreSessions(d, lines), L, 1 .. Len(L))
<1> DEFINE sessions == Sessions(lines)
           N == Len(sessions)
           f == CHOOSE g : Stores(g, d, sessions, N)
<1>1. PICK ids : /\ IsList(ids)
                 /\ ToSet(ids) = {lines[i].session : i \in 1 .. Len(lines)}
                 /\ \A m, n \in 1 .. Len(ids) : m # n => ids[m] # ids[n]
                 /\ IsList(sessions) /\ N = Len(ids)
                 /\ \A i \in 1 .. Len(ids) : sessions[i] = SessionOf(lines, ids[i])
  BY SessionsFacts
<1>2. Len(L) \in Nat /\ Len(lines) \in Nat /\ N \in Nat /\ n0 \in Nat /\ n0 <= Len(L)
  BY <1>1, ListFacts
<1>3. StoreSessions(d, lines) = f[N]
  BY DEF StoreSessions, Stores
<1>4. Stores(f, d, sessions, N)
  BY <1>2, StoresExists
<1> HIDE DEF f, sessions, N
<1>5. \A i \in 0 .. N : f[i] = IF i = 0 THEN d ELSE StoreSession(f[i - 1], sessions[i])
  BY <1>4 DEF Stores
<1> DEFINE Of(m) == {n0 + i : i \in {j \in 1 .. Len(lines) : lines[j].session = ids[m]}}
           Done(m) == 1 .. n0 \union UNION {Of(k) : k \in 1 .. m}
           S == {m \in 0 .. N : Tells(f[m], L, Done(m))}
<1>6. \A m \in 1 .. N : \A i \in Of(m) :
          i \in n0 + 1 .. Len(L) /\ i \in Nat /\ L[i].session = ids[m] /\ n0 < i
  <2> SUFFICES ASSUME NEW m \in 1 .. N, NEW j \in 1 .. Len(lines), lines[j].session = ids[m]
               PROVE  /\ n0 + j \in n0 + 1 .. Len(L) /\ n0 + j \in Nat
                      /\ L[n0 + j].session = ids[m] /\ n0 < n0 + j
    OBVIOUS
  <2>1. lines[j] = L[n0 + j]
    BY DEF Part
  <2> QED  BY <1>2, <2>1
<1>7. 0 \in S
  <2>1. Done(0) = 1 .. n0
    OBVIOUS
  <2>2. f[0] = d /\ 0 \in 0 .. N
    BY <1>2, <1>5
  <2> QED  BY <2>1, <2>2
<1>8. ASSUME NEW m \in 0 .. N - 1, m \in S
      PROVE  m + 1 \in S
  <2> DEFINE D == Done(m)
             C == Of(m + 1)
             id == ids[m + 1]
             s == sessions[m + 1]
  <2>1. m + 1 \in 1 .. N /\ m + 1 \in 0 .. N /\ (m + 1) - 1 = m /\ m + 1 # 0
    BY <1>2
  <2>2. f[m + 1] = StoreSession(f[m], s)
    BY <1>5, <2>1
  <2>3. s = SessionOf(lines, id)
    BY <1>1, <2>1
  <2>4. Done(m + 1) = D \union C
    <3>1. \A k : k \in 1 .. m + 1 <=> k \in 1 .. m \/ k = m + 1
      BY <1>2
    <3> QED  BY <3>1
  <2>5. C = {n0 + i : i \in {j \in 1 .. Len(lines) : lines[j].session = id}}
    OBVIOUS
  <2>6. \A i \in C : i \in n0 + 1 .. Len(L) /\ L[i].session = id
    BY <1>6, <2>1
  <2>7. C # {}
    <3>1. id \in ToSet(ids)
      BY <1>1, <2>1, ListFacts
    <3>2. PICK j \in 1 .. Len(lines) : lines[j].session = id
      BY <1>1, <3>1
    <3> QED  BY <2>5, <3>2
  <2>8. ASSUME NEW i \in D
        PROVE  i \in 1 .. Len(L) /\ (L[i].session = id => i <= n0)
    <3>1. CASE i \in 1 .. n0
      BY <1>2, <3>1
    <3>2. CASE \E k \in 1 .. m : i \in Of(k)
      <4>1. PICK k \in 1 .. m : i \in Of(k)
        BY <3>2
      <4>2. k \in 1 .. N /\ k # m + 1
        BY <1>2
      <4>3. i \in n0 + 1 .. Len(L) /\ L[i].session = ids[k]
        BY <1>6, <4>1, <4>2
      <4>4. ids[k] # id
        BY <1>1, <2>1, <4>2
      <4> QED  BY <1>2, <4>3, <4>4
    <3> QED  BY <3>1, <3>2
  <2>9. 1 .. n0 \subseteq D /\ Tells(f[m], L, D)
    BY <1>8
  <2> HIDE DEF D, C, id, s, Done, Of
  <2>10. NextSession(L, n0, D, C, id)
    BY <1>2, <2>6, <2>7, <2>8, <2>9 DEF NextSession
  <2>11. SessionTold(s, L, C, id)
    BY <1>2, <2>3, <2>5, SessionIsTold
  <2>12. Tells(f[m + 1], L, D \union C)
    BY <2>2, <2>9, <2>10, <2>11, StoreSessionTells
  <2> QED  BY <2>1, <2>4, <2>12
<1>9. \A m \in 0 .. N - 1 : m \in S => m + 1 \in S
  BY <1>8
<1>10. Done(N) = 1 .. Len(L)
  <2>1. ASSUME NEW i \in Done(N) PROVE i \in 1 .. Len(L)
    <3>1. CASE i \in 1 .. n0
      BY <1>2, <3>1
    <3>2. CASE \E k \in 1 .. N : i \in Of(k)
      <4> HIDE DEF Of
      <4> QED  BY <1>2, <1>6, <3>2
    <3> QED  BY <3>1, <3>2
  <2>2. ASSUME NEW i \in 1 .. Len(L) PROVE i \in Done(N)
    <3>1. CASE i <= n0
      BY <1>2, <3>1
    <3>2. CASE n0 < i
      <4>1. i - n0 \in 1 .. Len(lines) /\ n0 + (i - n0) = i
        BY <1>2, <3>2
      <4>2. lines[i - n0].session \in ToSet(ids)
        BY <1>1, <4>1
      <4>3. PICK k \in 1 .. N : ids[k] = lines[i - n0].session
        BY <1>1, <4>2, ListFacts DEF ToSet
      <4>4. i \in Of(k)
        BY <4>1, <4>3
      <4> QED  BY <4>4
    <3> QED  BY <1>2, <3>1, <3>2
  <2> HIDE DEF Done
  <2> QED  BY <2>1, <2>2
<1> HIDE DEF S, Done
<1>11. N \in S
  <2>1. N \in 0 .. N
    BY <1>2
  <2> QED  BY <1>2, <1>7, <1>9, <2>1, Stepwise
<1> QED
  BY <1>3, <1>10, <1>11 DEF S

LEMMA SameLastTime ==
    ASSUME NEW L, NEW S, S \subseteq Nat, NEW t, LastTime(t, L, S), NEW u, LastTime(u, L, S)
    PROVE  t = u
<1>1. CASE S = {}
  BY <1>1 DEF LastTime
<1>2. CASE S # {}
  <2>1. PICK i \in S : (\A j \in S : j <= i) /\ t = L[i].time
    BY <1>2 DEF LastTime
  <2>2. PICK k \in S : (\A j \in S : j <= k) /\ u = L[k].time
    BY <1>2 DEF LastTime
  <2>3. i \in Nat /\ k \in Nat /\ i <= k /\ k <= i
    BY <2>1, <2>2
  <2>4. i = k
    BY <2>3
  <2> QED  BY <2>1, <2>2, <2>4
<1> QED
  BY <1>1, <1>2

(* There is one database that tells these lines.                           *)
LEMMA TellsOne ==
    ASSUME NEW L, NEW D, D \subseteq Nat, NEW d, Tells(d, L, D), NEW e, Tells(e, L, D)
    PROVE  d = e
<1>1. d.logins = e.logins /\ d.commands = e.commands
  BY DEF Tells, LoginsTold, CommandsTold
<1> DEFINE rows == d.sessions
           others == e.sessions
<1>2. /\ rows = [id \in DOMAIN rows |-> rows[id]]
      /\ others = [id \in DOMAIN others |-> others[id]]
      /\ DOMAIN rows = DOMAIN others
      /\ \A id \in DOMAIN rows : RowTold(rows[id], L, D, id) /\ RowTold(others[id], L, D, id)
  BY DEF Tells, RowsTold
<1>3. d = [sessions |-> rows, logins |-> d.logins, commands |-> d.commands]
      /\ e = [sessions |-> others, logins |-> e.logins, commands |-> e.commands]
  BY DEF Tells
<1> HIDE DEF rows, others
<1>4. ASSUME NEW id \in DOMAIN rows
      PROVE  rows[id] = others[id]
  <2> DEFINE r == rows[id]
             o == others[id]
             S == LinesOf(L, D, id, "connect")
             T == LinesOf(L, D, id, "closed")
  <2>1. /\ r = [start |-> r.start, end |-> r.end] /\ o = [start |-> o.start, end |-> o.end]
        /\ LastTime(r.start, L, S) /\ LastTime(o.start, L, S)
        /\ LastTime(r.end, L, T) /\ LastTime(o.end, L, T)
    BY <1>2 DEF RowTold
  <2>2. S \subseteq Nat /\ T \subseteq Nat
    BY DEF LinesOf
  <2> HIDE DEF r, o, S, T
  <2>3. r.start = o.start /\ r.end = o.end
    BY <2>1, <2>2, SameLastTime
  <2>4. r = o
    BY <2>1, <2>3
  <2> QED  BY <2>4 DEF r, o
<1>5. rows = others
  BY <1>2, <1>4
<1> QED
  BY <1>1, <1>3, <1>5

(* What is told of a list is told of every longer one.                     *)
LEMMA TellsLonger ==
    ASSUME NEW K, NEW L, NEW n \in Nat, \A i \in 1 .. n : L[i] = K[i],
           NEW d, Tells(d, K, 1 .. n)
    PROVE  Tells(d, L, 1 .. n)
<1> DEFINE D == 1 .. n
<1>1. \A id, kind : /\ LinesOf(L, D, id, kind) = LinesOf(K, D, id, kind)
                    /\ LinesOf(L, D, id, kind) \subseteq D
  BY DEF LinesOf
<1>2. ASSUME NEW t, NEW S, S \subseteq D, LastTime(t, K, S)
      PROVE  LastTime(t, L, S)
  BY <1>2 DEF LastTime
<1>3. {L[i].session : i \in D} = {K[i].session : i \in D}
  <2>1. ASSUME NEW i \in D PROVE L[i].session = K[i].session
    OBVIOUS
  <2> QED  BY <2>1
<1>4. RowsTold(d.sessions, L, D)
  <2>1. ASSUME NEW id \in DOMAIN d.sessions
        PROVE  RowTold(d.sessions[id], L, D, id)
    <3>1. RowTold(d.sessions[id], K, D, id)
      BY DEF Tells, RowsTold
    <3> QED  BY <1>1, <1>2, <3>1 DEF RowTold
  <2> HIDE DEF D
  <2> QED  BY <1>3, <2>1 DEF Tells, RowsTold, D
<1>5. FirstLogins(L, D) = FirstLogins(K, D) /\ FirstLogins(L, D) \subseteq D
  BY DEF FirstLogins
<1>6. LoginsTold(d.logins, L, D)
  <2>1. d.logins = {LoginRow(K[i].session, K[i]) : i \in FirstLogins(K, D)}
    BY DEF Tells, LoginsTold
  <2>2. \A i \in FirstLogins(K, D) :
            LoginRow(K[i].session, K[i]) = LoginRow(L[i].session, L[i])
    BY <1>5
  <2> HIDE DEF D
  <2>3. d.logins = {LoginRow(L[i].session, L[i]) : i \in FirstLogins(K, D)}
    BY <2>1, <2>2
  <2> QED  BY <1>5, <2>3 DEF LoginsTold
<1>7. CommandsTold(d.commands, L, D)
  <2> DEFINE S == {j \in D : K[j].kind = "command"}
  <2>1. d.commands = {CommandRow(K[i].session, K[i]) : i \in S}
    BY DEF Tells, CommandsTold
  <2>2. \A i \in S : CommandRow(K[i].session, K[i]) = CommandRow(L[i].session, L[i])
    OBVIOUS
  <2>3. S = {j \in D : L[j].kind = "command"}
    OBVIOUS
  <2> HIDE DEF D, S
  <2>4. d.commands = {CommandRow(L[i].session, L[i]) : i \in S}
    BY <2>1, <2>2
  <2> QED  BY <2>3, <2>4 DEF CommandsTold
<1> QED
  BY <1>4, <1>6, <1>7 DEF Tells

LEMMA EmptyTellsNothing ==
    ASSUME NEW L
    PROVE  Tells(EmptyDb, L, {})
<1>1. /\ EmptyDb = [sessions |-> EmptyDb.sessions, logins |-> EmptyDb.logins,
                    commands |-> EmptyDb.commands]
      /\ EmptyDb.sessions = [id \in {} |-> {}]
      /\ EmptyDb.logins = {} /\ EmptyDb.commands = {}
  BY DEF EmptyDb
<1>2. DOMAIN EmptyDb.sessions = {}
  BY <1>1
<1>3. RowsTold(EmptyDb.sessions, L, {})
  <2>1. EmptyDb.sessions = [id \in DOMAIN EmptyDb.sessions |-> EmptyDb.sessions[id]]
    BY <1>1, <1>2
  <2> QED  BY <1>2, <2>1 DEF RowsTold
<1>4. LoginsTold(EmptyDb.logins, L, {}) /\ CommandsTold(EmptyDb.commands, L, {})
  BY <1>1 DEF LoginsTold, CommandsTold, FirstLogins
<1> QED
  BY <1>1, <1>3, <1>4 DEF Tells

(* A database that tells a list is what one reading of the list stores.    *)
LEMMA OneReading ==
    ASSUME NEW L, IsList(L), Steady(L), AllGood(L), NEW d, Tells(d, L, 1 .. Len(L))
    PROVE  d = StoreSessions(EmptyDb, L)
<1>1. Len(L) \in Nat /\ 0 \in 0 .. Len(L) /\ Len(L) = 0 + Len(L) /\ 1 .. 0 = {}
  BY ListFacts
<1>2. Part(L, L, 0)
  <2>1. \A i \in 1 .. Len(L) : 0 + i = i
    BY <1>1
  <2> QED  BY <2>1 DEF Part
<1>3. Tells(EmptyDb, L, 1 .. 0)
  BY <1>1, EmptyTellsNothing
<1>4. Tells(StoreSessions(EmptyDb, L), L, 1 .. Len(L))
  BY <1>1, <1>2, <1>3, StoreMore
<1>5. 1 .. Len(L) \subseteq Nat
  BY <1>1
<1> QED
  BY <1>4, <1>5, TellsOne

-----------------------------------------------------------------------------
(* The log, the lines that were read, and the alerts.                      *)

Opens(L, i) ==
    L[i].good =>
        (L[i].kind = "connect" <=> \A j \in 1 .. i - 1 : L[j].session # L[i].session)

BadLine(L) == \E i \in 1 .. Len(L) : ~L[i].good

IsRead(K, line) == \E j \in 1 .. Len(K) : K[j] = line

ConnectBefore(K, i) ==
    \E k \in 1 .. i : K[k].kind = "connect" /\ K[k].session = K[i].session

(* Line c of the log, if it opens the session of K[i], was read before it, *)
(* or is never read: whenever it is in a batch, a bad line is too.         *)
ReadBefore(K, i, L, c, from) ==
    (L[c].good /\ L[c].kind = "connect" /\ L[c].session = K[i].session)
        => \/ ConnectBefore(K, i)
           \/ BadLine(L) /\ (from = 0 \/ c <= from)

Entered(lines) ==
    {lines[i].session : i \in {j \in 1 .. Len(lines) : lines[j].kind = "login_success"}}

LoginAlert(a) ==
    a.rule = "rule_015" /\ a.key = [who |-> a.actor, what |-> <<>>, when |-> 0]

OneEach(stored, who) ==
    /\ IsList(stored)
    /\ \A a \in ToSet(stored) : LoginAlert(a)
    /\ \A i, j \in 1 .. Len(stored) : i # j => stored[i].actor # stored[j].actor
    /\ {stored[i].actor : i \in 1 .. Len(stored)} = who

(* A session begins with its connect line.                                 *)
LogWritten(L) ==
    /\ \A i \in 1 .. Len(L) : L[i] \in Entries["cowrie"]
    /\ \A i \in 1 .. Len(L) : Opens(L, i)

KeptRead(K, L, from) ==
    /\ IsList(K)
    /\ \A i \in 1 .. Len(K) : K[i].good /\ IsRead(L, K[i])
    /\ \A c \in 1 .. from : BadLine(L) \/ IsRead(K, L[c])
    /\ \A i \in 1 .. Len(K) : \A c \in 1 .. Len(L) : ReadBefore(K, i, L, c, from)
    /\ Steady(K)

SessionsInvariant ==
    source = "cowrie" =>
        /\ LogWritten(log)
        /\ KeptRead(kept, log, position)
        /\ Tells(db, kept, 1 .. Len(kept))
        /\ OneEach(alerts, Entered(kept))

(* A session has an alert exactly if a login of it succeeded.              *)
LEMMA SuccessesFacts ==
    ASSUME NEW lines, IsList(lines), NEW id
    PROVE  Successes(SessionOf(lines, id)) # <<>> <=> id \in Entered(lines)
<1> DEFINE C == {0 + i : i \in {j \in 1 .. Len(lines) : lines[j].session = id}}
           s == SessionOf(lines, id)
           T == {i \in C : lines[i].session = id /\ IsLogin(lines[i])}
           U == {i \in T : lines[i].kind \in {"login_success"}}
<1>1. Len(lines) \in Nat /\ 0 \in Nat
  BY ListFacts
<1>2. \A i \in 1 .. Len(lines) : 0 + i = i
  BY <1>1
<1>3. Part(lines, lines, 0)
  BY <1>2 DEF Part
<1>4. C = {j \in 1 .. Len(lines) : lines[j].session = id}
  BY <1>2
<1> HIDE DEF s
<1>5. SessionTold(s, lines, C, id)
  BY <1>1, <1>3, SessionIsTold DEF s
<1> HIDE DEF C
<1>6. Picks(s.logins, lines, T)
  BY <1>5 DEF SessionTold
<1> HIDE DEF T
<1>7. Picks(Successes(s), lines, U)
  BY <1>6, KindPicks DEF Successes
<1>8. Successes(s) = <<>> <=> U = {}
  BY <1>7, PicksFacts
<1>9. U = {j \in 1 .. Len(lines) : lines[j].session = id /\ lines[j].kind = "login_success"}
  BY <1>4 DEF T, IsLogin
<1>10. U # {} <=> id \in Entered(lines)
  BY <1>9 DEF Entered
<1> QED
  BY <1>8, <1>10 DEF s

LEMMA LoginAlertOf ==
    ASSUME NEW lines, IsList(lines), NEW id
    PROVE  LET found == HoneypotLogin(SessionOf(lines, id))
           IN  IF id \in Entered(lines)
               THEN \E a : found = <<a>> /\ LoginAlert(a) /\ a.actor = id
               ELSE found = <<>>
<1> DEFINE s == SessionOf(lines, id)
           first == Head(Successes(s)).time
           alert == [rule |-> "rule_015", key |-> [who |-> s.id, what |-> <<>>, when |-> 0],
                     severity |-> "CRITICAL", actor |-> s.id, first |-> first,
                     last |-> IF s.end = NoTime THEN first ELSE s.end]
<1>1. Successes(s) # <<>> <=> id \in Entered(lines)
  BY SuccessesFacts
<1>2. s.id = id
  BY DEF SessionOf
<1>3. HoneypotLogin(s) = IF Successes(s) = <<>> THEN <<>> ELSE <<alert>>
  BY DEF HoneypotLogin
<1>4. /\ alert.rule = "rule_015" /\ alert.actor = s.id
      /\ alert.key = [who |-> s.id, what |-> <<>>, when |-> 0]
  OBVIOUS
<1> HIDE DEF alert, s
<1>5. LoginAlert(alert) /\ alert.actor = id
  BY <1>2, <1>4 DEF LoginAlert
<1>6. CASE id \in Entered(lines)
  <2>1. HoneypotLogin(s) = <<alert>>
    BY <1>1, <1>3, <1>6
  <2> QED  BY <1>5, <1>6, <2>1 DEF s
<1>7. CASE id \notin Entered(lines)
  BY <1>1, <1>3, <1>7 DEF s
<1> QED
  BY <1>6, <1>7

ActorsOf(raised) == {raised[i].actor : i \in 1 .. Len(raised)}

LEMMA LoginAlertsFacts ==
    ASSUME NEW lines, IsList(lines)
    PROVE  /\ IsList(HoneypotAlerts(lines))
           /\ \A a \in ToSet(HoneypotAlerts(lines)) : LoginAlert(a)
           /\ ActorsOf(HoneypotAlerts(lines)) = IF AllGood(lines) THEN Entered(lines) ELSE {}
<1> DEFINE sessions == Sessions(lines)
           each == [i \in DOMAIN sessions |-> HoneypotLogin(sessions[i])]
           found == HoneypotAlerts(lines)
<1>1. found = FlattenSeq(each)
  BY DEF HoneypotAlerts
<1>2. CASE ~AllGood(lines)
  <2>1. sessions = <<>>
    <3>1. DOMAIN lines = 1 .. Len(lines)
      BY ListFacts
    <3> QED  BY <1>2, <3>1 DEF Sessions, AllGood
  <2>2. DOMAIN sessions = 1 .. 0 /\ 0 \in Nat
    BY <2>1
  <2> HIDE DEF sessions
  <2>3. IsList(each) /\ Len(each) = 0
    <3>1. DOMAIN each = 1 .. 0 /\ each = [i \in 1 .. 0 |-> each[i]]
      BY <2>2
    <3> HIDE DEF each
    <3> QED  BY <2>2, <3>1, ListMade
  <2>4. Joined(FlattenSeq(each), each, 0)
    <3> HIDE DEF each
    <3>1. \A i \in 1 .. Len(each) : IsList(each[i])
      BY <2>3
    <3> QED  BY <2>3, <3>1, Flattened
  <2>5. IsList(found) /\ ToSet(found) = {}
    <3> HIDE DEF each, found
    <3>1. Joined(found, each, 0)
      BY <1>1, <2>4
    <3>2. \A x \in ToSet(found) : FALSE
      BY <3>1, JoinedFrom
    <3> QED  BY <3>1, <3>2 DEF Joined
  <2> HIDE DEF found
  <2>6. ActorsOf(found) = {}
    <3>1. \A i \in 1 .. Len(found) : FALSE
      BY <2>5, ListFacts
    <3> QED  BY <3>1 DEF ActorsOf
  <2> QED  BY <1>2, <2>5, <2>6 DEF found
<1>3. CASE AllGood(lines)
  <2>1. PICK ids : /\ IsList(ids)
                   /\ ToSet(ids) = {lines[i].session : i \in 1 .. Len(lines)}
                   /\ IsList(sessions) /\ Len(sessions) = Len(ids)
                   /\ \A i \in 1 .. Len(ids) : sessions[i] = SessionOf(lines, ids[i])
    BY <1>3, SessionsFacts
  <2> DEFINE N == Len(ids)
  <2>2. N \in Nat /\ DOMAIN sessions = 1 .. N
    BY <2>1, ListFacts
  <2> HIDE DEF sessions, found
  <2>3. IsList(each) /\ Len(each) = N
    BY <2>2, ListMade
  <2>4. \A i \in 1 .. N : each[i] = HoneypotLogin(SessionOf(lines, ids[i]))
    BY <2>1, <2>2
  <2> HIDE DEF each
  <2>5. \A i \in 1 .. N :
            IF ids[i] \in Entered(lines)
            THEN \E a : each[i] = <<a>> /\ LoginAlert(a) /\ a.actor = ids[i]
            ELSE each[i] = <<>>
    BY <2>4, LoginAlertOf
  <2>6. ASSUME NEW i \in 1 .. N
        PROVE  /\ IsList(each[i])
               /\ \A a \in ToSet(each[i]) : /\ LoginAlert(a) /\ a.actor = ids[i]
                                            /\ ids[i] \in Entered(lines)
               /\ ids[i] \in Entered(lines) =>
                      \E a \in ToSet(each[i]) : a.actor = ids[i]
    <3>1. CASE ids[i] \in Entered(lines)
      <4>1. PICK a : each[i] = <<a>> /\ LoginAlert(a) /\ a.actor = ids[i]
        BY <2>5, <3>1
      <4>2. IsList(<<a>>) /\ ToSet(<<a>>) = {a}
        BY ShortLists
      <4> QED  BY <3>1, <4>1, <4>2
    <3>2. CASE ids[i] \notin Entered(lines)
      <4>1. each[i] = <<>>
        BY <2>5, <3>2
      <4>2. IsList(each[i]) /\ \A a \in ToSet(each[i]) : FALSE
        BY <4>1, ShortLists
      <4> QED  BY <3>2, <4>2
    <3> QED  BY <3>1, <3>2
  <2>7. Joined(found, each, N)
    BY <1>1, <2>3, <2>6, Flattened
  <2>8. IsList(found) /\ \A i \in 1 .. N : ToSet(each[i]) \subseteq ToSet(found)
    BY <2>7 DEF Joined
  <2>9. ASSUME NEW a \in ToSet(found)
        PROVE  LoginAlert(a) /\ a.actor \in Entered(lines)
    <3>1. PICK i \in 1 .. N : \E j \in 1 .. Len(each[i]) : a = each[i][j]
      BY <2>7, JoinedFrom
    <3>2. a \in ToSet(each[i])
      BY <2>6, <3>1, ListFacts
    <3> QED  BY <2>6, <3>2
  <2>10. ASSUME NEW id \in Entered(lines)
         PROVE  \E a \in ToSet(found) : a.actor = id
    <3>1. id \in ToSet(ids)
      BY <2>1 DEF Entered
    <3>2. PICK i \in 1 .. N : ids[i] = id
      BY <2>1, <3>1, ListFacts DEF ToSet
    <3>3. PICK a \in ToSet(each[i]) : a.actor = id
      BY <2>6, <3>2
    <3> QED  BY <2>8, <3>3
  <2>11. ActorsOf(found) = {a.actor : a \in ToSet(found)}
    BY <2>8, ListFacts DEF ActorsOf, ToSet
  <2>12. ActorsOf(found) = Entered(lines)
    BY <2>9, <2>10, <2>11
  <2> QED  BY <1>3, <2>8, <2>9, <2>12 DEF found
<1> QED
  BY <1>2, <1>3

LEMMA LoginAlertsAgree ==
    ASSUME NEW a, NEW b, LoginAlert(a), LoginAlert(b)
    PROVE  SameAlert(a, b) <=> a.actor = b.actor
<1>1. a.key.who = a.actor /\ b.key.who = b.actor
  BY DEF LoginAlert
<1> QED
  BY <1>1 DEF SameAlert, LoginAlert

(* Nobody gets a second alert, and everybody raised has one.               *)
LEMMA AddNewOneEach ==
    ASSUME NEW stored, NEW who, OneEach(stored, who), NEW raised, IsList(raised),
           \A a \in ToSet(raised) : LoginAlert(a)
    PROVE  OneEach(AddNew(stored, raised), who \union ActorsOf(raised))
<1> DEFINE Fresh(i) ==
               /\ \A j \in DOMAIN stored : ~SameAlert(stored[j], raised[i])
               /\ \A j \in 1 .. i - 1 : ~SameAlert(raised[j], raised[i])
           P == {i \in DOMAIN raised : Fresh(i)}
           all == AddNew(stored, raised)
           new == Kept(raised, P)
           n == Len(stored)
<1>1. all = stored \o new
  BY DEF AddNew
<1>2. /\ IsList(stored) /\ n \in Nat /\ DOMAIN stored = 1 .. n
      /\ \A i \in 1 .. n : stored[i] \in ToSet(stored) /\ LoginAlert(stored[i])
      /\ \A i, j \in 1 .. n : i # j => stored[i].actor # stored[j].actor
      /\ {stored[i].actor : i \in 1 .. n} = who
      /\ DOMAIN raised = 1 .. Len(raised) /\ Len(raised) \in Nat
      /\ \A i \in 1 .. Len(raised) : LoginAlert(raised[i])
  BY ListFacts DEF OneEach
<1>3. Picks(new, raised, P)
  BY KeptPicks
<1>4. /\ \A i \in P : \A j \in 1 .. n : stored[j].actor # raised[i].actor
      /\ \A i \in P : \A j \in 1 .. i - 1 : raised[j].actor # raised[i].actor
      /\ P \subseteq 1 .. Len(raised)
  <2>1. ASSUME NEW i \in P
        PROVE  /\ i \in 1 .. Len(raised)
               /\ \A j \in 1 .. n : stored[j].actor # raised[i].actor
               /\ \A j \in 1 .. i - 1 : raised[j].actor # raised[i].actor
    <3>1. i \in 1 .. Len(raised) /\ i \in Nat
      BY <1>2
    <3>2. \A j \in 1 .. i - 1 : j \in 1 .. Len(raised)
      BY <1>2, <3>1
    <3>3. \A j \in 1 .. n : ~SameAlert(stored[j], raised[i])
      BY <1>2
    <3>4. \A j \in 1 .. i - 1 : ~SameAlert(raised[j], raised[i])
      OBVIOUS
    <3> QED  BY <1>2, <3>1, <3>2, <3>3, <3>4, LoginAlertsAgree
  <2> QED  BY <2>1
<1>5. ASSUME NEW i \in 1 .. Len(raised)
      PROVE  \/ \E j \in 1 .. n : stored[j].actor = raised[i].actor
             \/ \E j \in P : raised[j].actor = raised[i].actor
  <2> DEFINE same == {j \in 1 .. Len(raised) : raised[j].actor = raised[i].actor}
  <2>1. same \subseteq Nat /\ same # {}
    BY <1>2
  <2>2. PICK j \in same : \A k \in same : j <= k
    BY <2>1, LeastNatural
  <2>3. j \in 1 .. Len(raised) /\ raised[j].actor = raised[i].actor /\ j \in Nat
    BY <2>1, <2>2
  <2>4. ASSUME NEW k \in 1 .. j - 1
        PROVE  k \in 1 .. Len(raised) /\ raised[k].actor # raised[j].actor
    <3>1. k \in 1 .. Len(raised) /\ ~ (j <= k)
      BY <1>2, <2>3
    <3>2. k \notin same
      BY <2>2, <3>1
    <3> QED  BY <2>3, <3>1, <3>2
  <2>5. \A k \in 1 .. j - 1 : ~SameAlert(raised[k], raised[j])
    <3> HIDE DEF same
    <3> QED  BY <1>2, <2>3, <2>4, LoginAlertsAgree
  <2>6. CASE \E k \in 1 .. n : SameAlert(stored[k], raised[j])
    <3> HIDE DEF same
    <3> QED  BY <1>2, <2>3, <2>6, LoginAlertsAgree
  <2>7. CASE ~ \E k \in 1 .. n : SameAlert(stored[k], raised[j])
    <3>1. j \in P
      BY <1>2, <2>3, <2>5, <2>7
    <3> QED  BY <2>3, <3>1
  <2> QED  BY <2>6, <2>7
<1> HIDE DEF P, new, all
<1>6. IsList(new) /\ ToSet(new) = {raised[i] : i \in P}
  BY <1>3, PicksFacts
<1>7. PICK pos : PicksAt(new, raised, P, pos)
  BY <1>3 DEF Picks
<1>8. /\ \A m \in 1 .. Len(new) : pos[m] \in P /\ new[m] = raised[pos[m]]
      /\ \A m, k \in 1 .. Len(new) : m < k => pos[m] < pos[k]
      /\ \A i \in P : \E m \in 1 .. Len(new) : pos[m] = i
      /\ P \subseteq Nat
  BY <1>7 DEF PicksAt
<1>9. /\ IsList(all) /\ ToSet(all) = ToSet(stored) \union ToSet(new)
      /\ Len(all) = n + Len(new)
      /\ \A i \in 1 .. n : all[i] = stored[i]
      /\ \A i \in 1 .. Len(new) : all[n + i] = new[i]
  BY <1>1, <1>2, <1>6, Concatenated
<1>10. Len(new) \in Nat
  BY <1>6, ListFacts
<1>11. \A a \in ToSet(all) : LoginAlert(a)
  <2>1. \A a \in ToSet(new) : LoginAlert(a)
    BY <1>2, <1>4, <1>6
  <2>2. \A a \in ToSet(stored) : LoginAlert(a)
    BY DEF OneEach
  <2> QED  BY <1>9, <2>1, <2>2
<1>12. ASSUME NEW i \in 1 .. Len(all)
       PROVE  i \in 1 .. n \/ \E k \in 1 .. Len(new) : i = n + k
  <2>1. CASE i <= n
    BY <1>2, <2>1
  <2>2. CASE n < i
    <3>1. i - n \in 1 .. Len(new) /\ i = n + (i - n)
      BY <1>2, <1>9, <1>10, <2>2
    <3> QED  BY <3>1
  <2> QED  BY <1>2, <2>1, <2>2
<1>13. ASSUME NEW m \in 1 .. Len(new), NEW k \in 1 .. Len(new), m < k
       PROVE  new[m].actor # new[k].actor
  <2>1. pos[m] \in P /\ pos[k] \in P /\ pos[m] < pos[k]
    BY <1>8, <1>13
  <2>2. pos[m] \in 1 .. pos[k] - 1
    <3>1. pos[m] \in 1 .. Len(raised) /\ pos[k] \in 1 .. Len(raised)
      BY <1>4, <2>1
    <3> QED  BY <1>2, <2>1, <3>1
  <2>3. raised[pos[m]].actor # raised[pos[k]].actor
    BY <1>4, <2>1, <2>2
  <2> QED  BY <1>8, <2>3
<1>14. ASSUME NEW i \in 1 .. n, NEW k \in 1 .. Len(new)
       PROVE  stored[i].actor # new[k].actor
  <2>1. pos[k] \in P /\ new[k] = raised[pos[k]]
    BY <1>8
  <2>2. stored[i].actor # raised[pos[k]].actor
    BY <1>4, <2>1
  <2> QED  BY <2>1, <2>2
<1>15. ASSUME NEW i \in 1 .. Len(all), NEW j \in 1 .. Len(all), i < j
       PROVE  all[i].actor # all[j].actor
  <2>1. i \in Nat /\ j \in Nat
    BY <1>9
  <2>2. CASE j \in 1 .. n
    <3>1. i \in 1 .. n /\ i # j
      BY <1>15, <2>1, <2>2
    <3> QED  BY <1>2, <1>9, <2>2, <3>1
  <2>3. ASSUME NEW k \in 1 .. Len(new), j = n + k
        PROVE  all[i].actor # all[j].actor
    <3>1. CASE i \in 1 .. n
      BY <1>9, <1>14, <2>3, <3>1
    <3>2. ASSUME NEW m \in 1 .. Len(new), i = n + m
          PROVE  all[i].actor # all[j].actor
      <4>1. m < k
        BY <1>2, <1>10, <1>15, <2>3, <3>2
      <4> QED  BY <1>9, <1>13, <2>3, <3>2, <4>1
    <3> QED  BY <1>12, <3>1, <3>2
  <2> QED  BY <1>12, <2>2, <2>3
<1>16. \A i, j \in 1 .. Len(all) : i # j => all[i].actor # all[j].actor
  <2>1. \A i, j \in 1 .. Len(all) : i # j => i < j \/ j < i
    BY <1>2, <1>9, <1>10
  <2> QED  BY <1>15, <2>1
<1>17. {all[i].actor : i \in 1 .. Len(all)} = who \union ActorsOf(raised)
  <2>1. ASSUME NEW i \in 1 .. Len(all)
        PROVE  all[i].actor \in who \union ActorsOf(raised)
    <3>1. CASE i \in 1 .. n
      BY <1>2, <1>9, <3>1
    <3>2. ASSUME NEW k \in 1 .. Len(new), i = n + k
          PROVE  all[i].actor \in ActorsOf(raised)
      <4>1. pos[k] \in 1 .. Len(raised) /\ all[i] = raised[pos[k]]
        BY <1>4, <1>8, <1>9, <3>2
      <4> QED  BY <4>1 DEF ActorsOf
    <3> QED  BY <1>12, <3>1, <3>2
  <2>2. ASSUME NEW x \in who
        PROVE  \E i \in 1 .. Len(all) : all[i].actor = x
    <3>1. PICK i \in 1 .. n : stored[i].actor = x
      BY <1>2
    <3>2. i \in 1 .. Len(all)
      BY <1>2, <1>9, <1>10
    <3> QED  BY <1>9, <3>1, <3>2
  <2>3. ASSUME NEW j \in P
        PROVE  \E i \in 1 .. Len(all) : all[i].actor = raised[j].actor
    <3>1. PICK m \in 1 .. Len(new) : pos[m] = j
      BY <1>8
    <3>2. n + m \in 1 .. Len(all) /\ all[n + m] = raised[j]
      BY <1>2, <1>8, <1>9, <1>10, <3>1
    <3> QED  BY <3>2
  <2>4. ASSUME NEW x \in ActorsOf(raised)
        PROVE  \E i \in 1 .. Len(all) : all[i].actor = x
    <3>1. PICK j \in 1 .. Len(raised) : raised[j].actor = x
      BY DEF ActorsOf
    <3>2. CASE \E k \in 1 .. n : stored[k].actor = x
      BY <1>2, <2>2, <3>2
    <3>3. CASE \E k \in P : raised[k].actor = x
      BY <2>3, <3>3
    <3> QED  BY <1>5, <3>1, <3>2, <3>3
  <2> QED  BY <2>1, <2>2, <2>4
<1> QED
  BY <1>9, <1>11, <1>16, <1>17 DEF OneEach, all

LEMMA OneEachCounted ==
    ASSUME NEW stored, NEW who, OneEach(stored, who), NEW id
    PROVE  Cardinality({i \in DOMAIN stored : stored[i].actor = id})
               = IF id \in who THEN 1 ELSE 0
<1> DEFINE S == {i \in DOMAIN stored : stored[i].actor = id}
<1>1. /\ DOMAIN stored = 1 .. Len(stored)
      /\ \A i, j \in 1 .. Len(stored) : i # j => stored[i].actor # stored[j].actor
      /\ {stored[i].actor : i \in 1 .. Len(stored)} = who
  BY ListFacts DEF OneEach
<1>2. CASE id \in who
  <2>1. PICK i \in 1 .. Len(stored) : stored[i].actor = id
    BY <1>1, <1>2
  <2>2. S = {i}
    BY <1>1, <2>1
  <2> HIDE DEF S
  <2>3. Cardinality(S) = 1
    BY <2>2, FS_Singleton
  <2> QED  BY <1>2, <2>3 DEF S
<1>3. CASE id \notin who
  <2>1. S = {}
    BY <1>1, <1>3
  <2> QED  BY <1>3, <2>1, FS_EmptySet
<1> QED
  BY <1>2, <1>3

LEMMA OpensFirst ==
    ASSUME NEW L, IsList(L), LogWritten(L), NEW c \in 1 .. Len(L), NEW p \in 1 .. Len(L),
           L[c].good, L[c].kind = "connect", L[p].session = L[c].session
    PROVE  c <= p
<1>1. \A j \in 1 .. c - 1 : L[j].session # L[c].session
  BY DEF LogWritten, Opens
<1>2. Len(L) \in Nat
  BY ListFacts
<1>3. p < c => p \in 1 .. c - 1
  BY <1>2
<1> QED
  BY <1>1, <1>2, <1>3

(* A batch without a bad line is read.                                     *)
LEMMA KeptGrows ==
    ASSUME NEW L, IsList(L), LogWritten(L), NEW K, NEW from \in 0 .. Len(L),
           KeptRead(K, L, from), NEW b, IsList(b), Len(b) = Len(L) - from,
           Part(b, L, from), AllGood(b)
    PROVE  KeptRead(K \o b, L, Len(L))
<1> DEFINE all == K \o b
           n == Len(K)
<1>1. /\ IsList(K)
      /\ \A i \in 1 .. n : K[i].good /\ IsRead(L, K[i])
      /\ \A c \in 1 .. from : BadLine(L) \/ IsRead(K, L[c])
      /\ \A i \in 1 .. n : \A c \in 1 .. Len(L) : ReadBefore(K, i, L, c, from)
      /\ Steady(K)
  BY DEF KeptRead
<1>2. n \in Nat /\ Len(L) \in Nat /\ Len(b) \in Nat /\ from \in Nat /\ from <= Len(L)
  BY <1>1, ListFacts
<1>3. /\ IsList(all) /\ Len(all) = n + Len(b)
      /\ \A i \in 1 .. n : all[i] = K[i]
      /\ \A i \in 1 .. Len(b) : all[n + i] = b[i]
  BY <1>1, Concatenated
<1> HIDE DEF all, n
<1>4. \A i \in 1 .. Len(b) : from + i \in 1 .. Len(L) /\ b[i] = L[from + i] /\ b[i].good
  BY DEF Part, AllGood
<1>5. ASSUME NEW i \in 1 .. Len(all)
      PROVE  /\ i \in 1 .. n \/ \E k \in 1 .. Len(b) : i = n + k
             /\ i \in Nat
  <2>1. n < i => i - n \in 1 .. Len(b) /\ i = n + (i - n)
    BY <1>2, <1>3
  <2> QED  BY <1>2, <1>3, <2>1
<1>6. /\ \A i \in 1 .. n : i \in 1 .. Len(all)
      /\ \A i \in 1 .. Len(b) : n + i \in 1 .. Len(all)
  BY <1>2, <1>3
<1>7. \A i \in 1 .. Len(all) : all[i].good /\ IsRead(L, all[i])
  <2>1. \A i \in 1 .. n : all[i].good /\ IsRead(L, all[i])
    BY <1>1, <1>3
  <2>2. \A k \in 1 .. Len(b) : all[n + k].good /\ IsRead(L, all[n + k])
    BY <1>3, <1>4 DEF IsRead
  <2> QED  BY <1>5, <2>1, <2>2
<1>8. ASSUME NEW c \in 1 .. Len(L)
      PROVE  BadLine(L) \/ IsRead(all, L[c])
  <2>1. CASE c <= from
    <3>1. c \in 1 .. from
      BY <1>2, <2>1
    <3>2. IsRead(K, L[c]) => IsRead(all, L[c])
      BY <1>3, <1>6 DEF IsRead, n
    <3> QED  BY <1>1, <3>1, <3>2
  <2>2. CASE from < c
    <3>1. c - from \in 1 .. Len(b) /\ from + (c - from) = c
      BY <1>2, <2>2
    <3>2. all[n + (c - from)] = L[c] /\ n + (c - from) \in 1 .. Len(all)
      BY <1>3, <1>4, <1>6, <3>1
    <3> QED  BY <3>2 DEF IsRead
  <2> QED  BY <1>2, <2>1, <2>2
<1>9. ASSUME from = 0 PROVE ~BadLine(L)
  <2> SUFFICES ASSUME NEW i \in 1 .. Len(L) PROVE L[i].good
    BY DEF BadLine
  <2>1. i \in 1 .. Len(b) /\ from + i = i
    BY <1>2, <1>9
  <2> QED  BY <1>4, <2>1
<1>10. ASSUME NEW i \in 1 .. Len(all), NEW c \in 1 .. Len(L)
       PROVE  ReadBefore(all, i, L, c, Len(L))
  <2> SUFFICES ASSUME L[c].good, L[c].kind = "connect", L[c].session = all[i].session
               PROVE  ConnectBefore(all, i) \/ BadLine(L)
    <3>1. c <= Len(L)
      BY <1>2
    <3> QED  BY <3>1 DEF ReadBefore
  <2>1. CASE i \in 1 .. n
    <3>1. all[i] = K[i] /\ ReadBefore(K, i, L, c, from)
      BY <1>1, <1>3, <2>1
    <3>2. ASSUME ConnectBefore(K, i) PROVE ConnectBefore(all, i)
      <4>1. \A k \in 1 .. i : k \in 1 .. n
        BY <1>2, <2>1
      <4> QED  BY <1>3, <2>1, <3>2, <4>1 DEF ConnectBefore
    <3> QED  BY <3>1, <3>2 DEF ReadBefore
  <2>2. ASSUME NEW k \in 1 .. Len(b), i = n + k
        PROVE  ConnectBefore(all, i) \/ BadLine(L)
    <3>1. all[i] = L[from + k] /\ from + k \in 1 .. Len(L)
      BY <1>3, <1>4, <2>2
    <3>2. c <= from + k
      BY <3>1, OpensFirst
    <3>3. CASE c <= from
      <4>1. c \in 1 .. from
        BY <1>2, <3>3
      <4>2. ASSUME IsRead(K, L[c]) PROVE ConnectBefore(all, i)
        <5>1. PICK j \in 1 .. n : K[j] = L[c]
          BY <4>2 DEF IsRead, n
        <5>2. j \in 1 .. i
          BY <1>2, <2>2
        <5> QED  BY <1>3, <5>1, <5>2 DEF ConnectBefore
      <4> QED  BY <1>1, <4>1, <4>2
    <3>4. CASE from < c
      <4>1. /\ c - from \in 1 .. Len(b) /\ from + (c - from) = c
            /\ n + (c - from) \in 1 .. i
        BY <1>2, <2>2, <3>2, <3>4
      <4>2. all[n + (c - from)] = L[c]
        BY <1>3, <1>4, <4>1
      <4> QED  BY <4>1, <4>2 DEF ConnectBefore
    <3> QED  BY <1>2, <3>3, <3>4
  <2> QED  BY <1>5, <2>1, <2>2
<1>11. \A i \in 1 .. Len(all) : all[i].time # NoTime
  <2> SUFFICES ASSUME NEW i \in 1 .. Len(all) PROVE all[i].time # NoTime
    OBVIOUS
  <2>1. PICK p \in 1 .. Len(L) : L[p] = all[i]
    BY <1>7 DEF IsRead
  <2> QED  BY <2>1, EntriesAssumption DEF LogWritten
<1>12. ASSUME NEW i \in 1 .. Len(all), NEW j \in 1 .. Len(all)
       PROVE  Agree(all, i, j)
  <2> SUFFICES ASSUME all[i].kind = "connect", all[j].kind = "connect",
                      all[i].session = all[j].session
               PROVE  all[i].time = all[j].time
    BY DEF Agree
  <2>1. PICK p \in 1 .. Len(L) : L[p] = all[i] /\ L[p].good
    BY <1>7 DEF IsRead
  <2>2. PICK q \in 1 .. Len(L) : L[q] = all[j] /\ L[q].good
    BY <1>7 DEF IsRead
  <2>3. p <= q
    BY <2>1, <2>2, OpensFirst
  <2>4. q <= p
    BY <2>1, <2>2, OpensFirst
  <2>5. p = q
    BY <1>2, <2>3, <2>4
  <2> QED  BY <2>1, <2>2, <2>5
<1>13. ASSUME NEW i \in 1 .. Len(all), NEW j \in 1 .. Len(all)
       PROVE  Follows(all, i, j)
  <2> SUFFICES ASSUME all[j].kind = "connect", all[i].session = all[j].session
               PROVE  ConnectBefore(all, i)
    BY DEF Follows, ConnectBefore
  <2>1. CASE j <= i
    <3>1. j \in 1 .. i
      BY <1>5, <2>1
    <3> QED  BY <3>1 DEF ConnectBefore
  <2>2. CASE i < j /\ j \in 1 .. n
    <3>1. i \in 1 .. n /\ \A k \in 1 .. i : k \in 1 .. n
      BY <1>2, <1>5, <2>2
    <3>2. all[i] = K[i] /\ all[j] = K[j] /\ Follows(K, i, j)
      BY <1>1, <1>3, <2>2, <3>1 DEF Steady, n
    <3>3. PICK k \in 1 .. i : K[k].kind = "connect" /\ K[k].session = K[j].session
      BY <3>2 DEF Follows
    <3> QED  BY <1>3, <3>1, <3>2, <3>3 DEF ConnectBefore
  <2>3. ASSUME i < j, NEW m \in 1 .. Len(b), j = n + m
        PROVE  ConnectBefore(all, i)
    <3> DEFINE c == from + m
    <3>1. c \in 1 .. Len(L) /\ L[c] = all[j] /\ L[c].good /\ from < c
      <4>1. from + m \in 1 .. Len(L) /\ b[m] = L[from + m] /\ b[m].good
        BY <1>4
      <4>2. all[j] = b[m]
        BY <1>3, <2>3
      <4>3. from < from + m
        BY <1>2
      <4> QED  BY <4>1, <4>2, <4>3
    <3> HIDE DEF c
    <3>2. CASE i \in 1 .. n
      <4>1. all[i] = K[i] /\ ReadBefore(K, i, L, c, from)
        BY <1>1, <1>3, <3>1, <3>2
      <4>2. ~ (BadLine(L) /\ (from = 0 \/ c <= from))
        BY <1>2, <1>9, <3>1
      <4>3. ConnectBefore(K, i)
        BY <3>1, <4>1, <4>2 DEF ReadBefore
      <4>4. \A k \in 1 .. i : k \in 1 .. n
        BY <1>2, <3>2
      <4> QED  BY <1>3, <3>2, <4>3, <4>4 DEF ConnectBefore
    <3>3. ASSUME NEW k \in 1 .. Len(b), i = n + k
          PROVE  FALSE
      <4>1. L[from + k] = all[i] /\ from + k \in 1 .. Len(L)
        BY <1>3, <1>4, <3>3
      <4>2. c <= from + k
        BY <3>1, <4>1, OpensFirst
      <4> QED  BY <1>2, <2>3, <3>3, <4>2 DEF c
    <3> QED  BY <1>5, <3>2, <3>3
  <2> QED  BY <1>5, <2>1, <2>2, <2>3
<1>14. Steady(all)
  BY <1>11, <1>12, <1>13 DEF Steady
<1> QED
  BY <1>3, <1>7, <1>8, <1>10, <1>14 DEF KeptRead, all

(* A batch with a bad line is lost, and every later one that reaches back  *)
(* to it.                                                                  *)
LEMMA KeptStays ==
    ASSUME NEW L, IsList(L), NEW K, NEW from \in 0 .. Len(L), KeptRead(K, L, from),
           NEW to, to = 0 \/ (to = Len(L) /\ BadLine(L))
    PROVE  KeptRead(K, L, to)
<1>1. Len(L) \in Nat
  BY ListFacts
<1>2. \A c \in 1 .. to : BadLine(L) \/ IsRead(K, L[c])
  OBVIOUS
<1>3. ASSUME NEW i \in 1 .. Len(K), NEW c \in 1 .. Len(L)
      PROVE  ReadBefore(K, i, L, c, to)
  <2>1. ReadBefore(K, i, L, c, from)
    BY DEF KeptRead
  <2>2. to = 0 \/ c <= to
    BY <1>1
  <2> QED  BY <2>1, <2>2 DEF ReadBefore
<1> QED
  BY <1>2, <1>3 DEF KeptRead

(* One more line in the log.                                               *)
LEMMA LogGrows ==
    ASSUME NEW L, IsList(L), LogWritten(L), NEW e, e \in Entries["cowrie"],
           e.good => (e.kind = "connect" <=> \A j \in 1 .. Len(L) : L[j].session # e.session),
           NEW K, NEW from \in 0 .. Len(L), KeptRead(K, L, from)
    PROVE  LogWritten(Append(L, e)) /\ KeptRead(K, Append(L, e), from)
<1> DEFINE M == Append(L, e)
           n == Len(L)
<1>1. /\ n \in Nat /\ Len(M) = n + 1
      /\ \A i \in 1 .. n : M[i] = L[i]
      /\ M[n + 1] = e
  BY Appended, ListFacts
<1> HIDE DEF M
<1>2. /\ \A i \in 1 .. Len(M) : i \in 1 .. n \/ i = n + 1
      /\ \A i \in 1 .. n : i \in 1 .. Len(M)
  BY <1>1
<1>3. \A i \in 1 .. Len(M) : M[i] \in Entries["cowrie"]
  BY <1>1, <1>2 DEF LogWritten
<1>4. ASSUME NEW i \in 1 .. Len(M)
      PROVE  Opens(M, i)
  <2>1. CASE i \in 1 .. n
    <3>1. \A j \in 1 .. i - 1 : j \in 1 .. n
      BY <1>1, <2>1
    <3>2. Opens(L, i)
      BY <2>1 DEF LogWritten
    <3> QED  BY <1>1, <2>1, <3>1, <3>2 DEF Opens
  <2>2. CASE i = n + 1
    <3>1. i - 1 = n /\ M[i] = e
      BY <1>1, <2>2
    <3> QED  BY <1>1, <3>1 DEF Opens
  <2> QED  BY <1>2, <2>1, <2>2
<1>5. BadLine(L) => BadLine(M)
  BY <1>1, <1>2 DEF BadLine
<1>6. \A line : IsRead(L, line) => IsRead(M, line)
  BY <1>1, <1>2 DEF IsRead
<1>7. ASSUME NEW c \in 1 .. from
      PROVE  BadLine(M) \/ IsRead(K, M[c])
  <2>1. c \in 1 .. n
    BY <1>1
  <2> QED  BY <1>1, <1>5, <2>1 DEF KeptRead
<1>8. ASSUME NEW i \in 1 .. Len(K), NEW c \in 1 .. Len(M)
      PROVE  ReadBefore(K, i, M, c, from)
  <2>1. CASE c \in 1 .. n
    <3>1. ReadBefore(K, i, L, c, from) /\ M[c] = L[c]
      BY <1>1, <2>1 DEF KeptRead
    <3> QED  BY <1>5, <3>1 DEF ReadBefore
  <2>2. CASE c = n + 1
    <3>1. PICK p \in 1 .. n : L[p] = K[i]
      BY DEF KeptRead, IsRead
    <3>2. M[c] = e
      BY <1>1, <2>2
    <3>3. ~ (e.good /\ e.kind = "connect" /\ e.session = K[i].session)
      BY <3>1
    <3> QED  BY <3>2, <3>3 DEF ReadBefore
  <2> QED  BY <1>2, <2>1, <2>2
<1>9. LogWritten(M)
  BY <1>3, <1>4 DEF LogWritten
<1>10. KeptRead(K, M, from)
  BY <1>6, <1>7, <1>8 DEF KeptRead
<1> QED
  BY <1>9, <1>10 DEF M

LEMMA BadBatch ==
    ASSUME NEW lines, IsList(lines), ~AllGood(lines), NEW d
    PROVE  Sessions(lines) = <<>> /\ StoreSessions(d, lines) = d
<1> DEFINE sessions == Sessions(lines)
           f == CHOOSE g : Stores(g, d, sessions, 0)
<1>1. DOMAIN lines = 1 .. Len(lines)
  BY ListFacts
<1>2. sessions = <<>>
  BY <1>1 DEF Sessions, AllGood
<1>3. Len(sessions) = 0
  BY <1>2
<1>4. StoreSessions(d, lines) = f[0]
  BY <1>3 DEF StoreSessions, Stores
<1>5. Stores(f, d, sessions, 0)
  BY StoresExists
<1> HIDE DEF f
<1>6. f[0] = d
  BY <1>5 DEF Stores
<1> QED
  BY <1>2, <1>4, <1>6

LEMMA SomeSessions ==
    ASSUME NEW lines, IsList(lines), AllGood(lines), Len(lines) # 0
    PROVE  Sessions(lines) # <<>>
<1>1. PICK ids : /\ IsList(ids)
                 /\ ToSet(ids) = {lines[i].session : i \in 1 .. Len(lines)}
                 /\ Len(Sessions(lines)) = Len(ids)
  BY SessionsFacts
<1>2. Len(lines) \in Nat /\ Len(ids) \in Nat
  BY <1>1, ListFacts
<1>3. 1 \in 1 .. Len(lines)
  BY <1>2
<1>4. lines[1].session \in ToSet(ids)
  BY <1>1, <1>3
<1>5. PICK k \in 1 .. Len(ids) : ids[k] = lines[1].session
  BY <1>1, <1>4, ListFacts DEF ToSet
<1>6. Len(ids) # 0
  BY <1>5
<1> QED
  BY <1>1, <1>6

LEMMA EnteredJoined ==
    ASSUME NEW s, NEW t, IsList(s), IsList(t)
    PROVE  Entered(s \o t) = Entered(s) \union Entered(t)
<1> DEFINE all == s \o t
           In(lines) == {line \in ToSet(lines) : line.kind = "login_success"}
<1>1. IsList(all) /\ ToSet(all) = ToSet(s) \union ToSet(t)
  BY Concatenated
<1>2. ASSUME NEW lines, IsList(lines)
      PROVE  Entered(lines) = {line.session : line \in In(lines)}
  BY <1>2, ListFacts DEF Entered, ToSet
<1> HIDE DEF all
<1>3. In(all) = In(s) \union In(t)
  BY <1>1
<1>4. /\ Entered(all) = {line.session : line \in In(all)}
      /\ Entered(s) = {line.session : line \in In(s)}
      /\ Entered(t) = {line.session : line \in In(t)}
  BY <1>1, <1>2
<1> HIDE DEF In
<1>5. Entered(all) = Entered(s) \union Entered(t)
  BY <1>3, <1>4
<1> QED
  BY <1>5 DEF all

LEMMA SessionsInitially == DetectionInit => SessionsInvariant
<1> SUFFICES ASSUME DetectionInit PROVE SessionsInvariant
  OBVIOUS
<1>1. log = <<>> /\ position = 0 /\ alerts = <<>> /\ kept = <<>> /\ db = EmptyDb
  BY DEF DetectionInit
<1>2. IsList(kept) /\ IsList(alerts) /\ Len(log) = 0 /\ Len(kept) = 0 /\ Len(alerts) = 0
      /\ ToSet(alerts) = {} /\ 1 .. 0 = {}
  BY <1>1, ShortLists
<1>3. LogWritten(log)
  BY <1>2 DEF LogWritten
<1>4. KeptRead(kept, log, position)
  BY <1>1, <1>2 DEF KeptRead, Steady
<1>5. Tells(db, kept, 1 .. Len(kept))
  BY <1>1, <1>2, EmptyTellsNothing
<1>6. Entered(kept) = {}
  BY <1>2 DEF Entered
<1>7. OneEach(alerts, {})
  BY <1>2 DEF OneEach
<1> QED
  BY <1>3, <1>4, <1>5, <1>6, <1>7 DEF SessionsInvariant

LEMMA SessionsCycle ==
    ASSUME DetectionInvariant, SessionsInvariant, Cycle
    PROVE  SessionsInvariant'
<1> SUFFICES ASSUME source = "cowrie"
             PROVE  /\ LogWritten(log') /\ KeptRead(kept', log', position')
                    /\ Tells(db', kept', 1 .. Len(kept'))
                    /\ OneEach(alerts', Entered(kept'))
  BY DEF SessionsInvariant, Cycle
<1> DEFINE b == Batch
           raised == HoneypotAlerts(b)
<1>1. /\ IsList(b) /\ Len(b) = Len(log) - position /\ Part(b, log, position)
      /\ IsList(log) /\ position \in 0 .. Len(log) /\ Len(log) \in Nat /\ position \in Nat
  BY BatchFacts, ListFacts DEF DetectionInvariant
<1>2. /\ log' = log /\ position' = Len(log) /\ position < Len(log)
      /\ alerts' = AddNew(alerts, raised)
      /\ db' = StoreSessions(db, b)
      /\ kept' = IF Sessions(b) = <<>> THEN kept ELSE kept \o b
  BY DEF Cycle, Raised
<1> HIDE DEF b, raised
<1>3. /\ LogWritten(log) /\ KeptRead(kept, log, position) /\ IsList(kept)
      /\ Tells(db, kept, 1 .. Len(kept)) /\ OneEach(alerts, Entered(kept))
  BY DEF SessionsInvariant, KeptRead
<1>4. /\ IsList(raised) /\ \A a \in ToSet(raised) : LoginAlert(a)
      /\ ActorsOf(raised) = IF AllGood(b) THEN Entered(b) ELSE {}
  BY <1>1, LoginAlertsFacts DEF raised
<1>5. OneEach(alerts', Entered(kept) \union ActorsOf(raised))
  BY <1>2, <1>3, <1>4, AddNewOneEach
<1>6. CASE AllGood(b)
  <2>1. Sessions(b) # <<>>
    <3>1. Len(b) # 0
      BY <1>1, <1>2
    <3> QED  BY <1>1, <1>6, <3>1, SomeSessions
  <2>2. kept' = kept \o b
    BY <1>2, <2>1
  <2> DEFINE all == kept \o b
  <2>3. KeptRead(all, log, Len(log))
    BY <1>1, <1>3, <1>6, KeptGrows
  <2>4. /\ IsList(all) /\ Len(all) = Len(kept) + Len(b)
        /\ \A i \in 1 .. Len(kept) : all[i] = kept[i]
        /\ \A i \in 1 .. Len(b) : all[Len(kept) + i] = b[i]
    BY <1>1, <1>3, Concatenated
  <2>5. Entered(all) = Entered(kept) \union Entered(b)
    BY <1>1, <1>3, EnteredJoined
  <2> HIDE DEF all
  <2>6. Len(kept) \in Nat /\ Len(b) \in Nat /\ Len(kept) \in 0 .. Len(all)
    BY <1>1, <1>3, <2>4, ListFacts
  <2>7. Part(b, all, Len(kept))
    BY <2>4, <2>6 DEF Part
  <2>8. Tells(db, all, 1 .. Len(kept))
    BY <1>3, <2>4, <2>6, TellsLonger
  <2>9. Steady(all)
    BY <2>3 DEF KeptRead
  <2>10. Tells(StoreSessions(db, b), all, 1 .. Len(all))
    BY <1>1, <1>6, <2>4, <2>6, <2>7, <2>8, <2>9, StoreMore
  <2>11. kept' = all
    BY <2>2 DEF all
  <2> QED  BY <1>2, <1>3, <1>4, <1>5, <1>6, <2>3, <2>5, <2>10, <2>11
<1>7. CASE ~AllGood(b)
  <2>1. Sessions(b) = <<>> /\ StoreSessions(db, b) = db
    BY <1>1, <1>7, BadBatch
  <2>2. kept' = kept /\ db' = db
    BY <1>2, <2>1
  <2>3. BadLine(log)
    BY <1>7, <1>1 DEF AllGood, BadLine, Part
  <2>4. KeptRead(kept, log, Len(log))
    BY <1>1, <1>3, <2>3, KeptStays
  <2>5. Entered(kept) \union ActorsOf(raised) = Entered(kept)
    BY <1>4, <1>7
  <2> QED  BY <1>2, <1>3, <1>5, <2>2, <2>4, <2>5
<1> QED
  BY <1>6, <1>7

LEMMA SessionsWrite ==
    ASSUME DetectionInvariant, SessionsInvariant, Write
    PROVE  SessionsInvariant'
<1> SUFFICES ASSUME source = "cowrie"
             PROVE  /\ LogWritten(log') /\ KeptRead(kept', log', position')
                    /\ Tells(db', kept', 1 .. Len(kept'))
                    /\ OneEach(alerts', Entered(kept'))
  BY DEF SessionsInvariant, Write
<1>1. /\ position' = position /\ alerts' = alerts /\ db' = db /\ kept' = kept
  BY DEF Write
<1>2. PICK e \in Entries["cowrie"] : FollowsSession(e) /\ log' = Append(log, e)
  BY DEF Write
<1>3. /\ LogWritten(log) /\ KeptRead(kept, log, position)
      /\ Tells(db, kept, 1 .. Len(kept)) /\ OneEach(alerts, Entered(kept))
  BY DEF SessionsInvariant
<1>4. IsList(log) /\ position \in 0 .. Len(log) /\ DOMAIN log = 1 .. Len(log)
  BY ListFacts DEF DetectionInvariant
<1>5. e.good => (e.kind = "connect" <=> \A j \in 1 .. Len(log) : log[j].session # e.session)
  BY <1>2, <1>4 DEF FollowsSession
<1>6. LogWritten(Append(log, e)) /\ KeptRead(kept, Append(log, e), position)
  BY <1>3, <1>4, <1>5, LogGrows
<1> QED
  BY <1>1, <1>2, <1>3, <1>6

LEMMA SessionsInvariantHolds == DetectionSpec => []SessionsInvariant
<1>1. DetectionInvariant /\ SessionsInvariant /\ [DetectionNext]_detectionVars
          => SessionsInvariant'
  <2> SUFFICES ASSUME DetectionInvariant, SessionsInvariant, [DetectionNext]_detectionVars
               PROVE  SessionsInvariant'
    OBVIOUS
  <2>1. CASE Cycle
    BY <2>1, SessionsCycle
  <2>2. CASE Reread
    <3>1. /\ source' = source /\ log' = log /\ alerts' = alerts /\ position' = 0
          /\ db' = db /\ kept' = kept
      BY <2>2 DEF Reread
    <3>2. ASSUME source = "cowrie" PROVE KeptRead(kept, log, 0)
      BY <3>2, KeptStays DEF DetectionInvariant, SessionsInvariant
    <3> QED  BY <3>1, <3>2 DEF SessionsInvariant
  <2>3. CASE Write
    BY <2>3, SessionsWrite
  <2>4. CASE UNCHANGED detectionVars
    BY <2>4 DEF detectionVars, SessionsInvariant
  <2> QED  BY <2>1, <2>2, <2>3, <2>4 DEF DetectionNext
<1> QED
  BY SessionsInitially, DetectionInvariantHolds, <1>1, PTL DEF DetectionSpec

(* However the lines of Cowrie's sessions are cut into batches and read    *)
(* again, the database holds what one reading of all lines that could be   *)
(* read would have stored, and each session with a successful login has    *)
(* one alert.                                                              *)
THEOREM SessionsAreComplete == DetectionSpec => []SessionsComplete
<1>1. SessionsInvariant => SessionsComplete
  <2> SUFFICES ASSUME SessionsInvariant, source = "cowrie"
               PROVE  /\ db = StoreSessions(EmptyDb, kept)
                      /\ \A id \in ToSet(SessionIds(kept)) :
                            Cardinality({i \in DOMAIN alerts : alerts[i].actor = id}) =
                                IF Successes(SessionOf(kept, id)) # <<>> THEN 1 ELSE 0
    BY DEF SessionsComplete
  <2>1. /\ IsList(kept) /\ Steady(kept) /\ AllGood(kept)
        /\ Tells(db, kept, 1 .. Len(kept)) /\ OneEach(alerts, Entered(kept))
    BY DEF SessionsInvariant, KeptRead, AllGood
  <2>2. db = StoreSessions(EmptyDb, kept)
    BY <2>1, OneReading
  <2>3. ASSUME NEW id
        PROVE  Cardinality({i \in DOMAIN alerts : alerts[i].actor = id}) =
                   IF Successes(SessionOf(kept, id)) # <<>> THEN 1 ELSE 0
    <3>1. Cardinality({i \in DOMAIN alerts : alerts[i].actor = id}) =
              IF id \in Entered(kept) THEN 1 ELSE 0
      BY <2>1, OneEachCounted
    <3>2. Successes(SessionOf(kept, id)) # <<>> <=> id \in Entered(kept)
      BY <2>1, SuccessesFacts
    <3> QED  BY <3>1, <3>2
  <2> QED  BY <2>2, <2>3
<1> QED
  BY SessionsInvariantHolds, <1>1, PTL

=============================================================================
