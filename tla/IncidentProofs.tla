--------------------------- MODULE IncidentProofs ---------------------------
(***************************************************************************)
(* correlation/, for any constants: the incidents a run builds (module     *)
(* Correlation) and the files it keeps them in (module IncidentStore).     *)
(*                                                                         *)
(* Correlation.  Sorting: a finite set of numbered links can be sorted, so *)
(* InOrder sorts; it has every link once, and the anchor, which begins     *)
(* after all others have ended, comes last.  Growth: what a run loads only *)
(* grows until an account is deleted, and of more alerts no incident is    *)
(* built shorter or weaker.                                                *)
(*                                                                         *)
(* The store.  As long as no mishap has occurred, at most one run is under *)
(* way, and either the two files on disk or the two parts it is about to   *)
(* write tell the truth about every incident that is known.                *)
(***************************************************************************)
EXTENDS Correlation, IncidentStore, FiniteSetTheorems, WellFoundedInduction, TLAPS

(* Least and greatest numbers.                                             *)

LEMMA LeastNatural ==
    ASSUME NEW S, S \subseteq Nat, S # {}
    PROVE  \E x \in S : \A y \in S : x <= y
<1> DEFINE less == {ss \in Nat \X Nat : ss[1] < ss[2]}
<1>1. IsWellFoundedOn(less, Nat)
  BY NatLessThanWellFounded DEF OpToRel
<1>2. PICK x \in S : \A y \in S : <<y, x>> \notin less
  BY <1>1, WFMin
<1>3. ASSUME NEW y \in S
      PROVE  x <= y
  <2>1. x \in Nat /\ y \in Nat
    OBVIOUS
  <2>2. ~ (y < x)
    BY <1>2, <2>1
  <2> QED
    BY <2>1, <2>2
<1> QED
  BY <1>3

LEMMA MinFacts ==
    ASSUME NEW S, S \subseteq Nat, S # {}
    PROVE  Min(S) \in S /\ \A x \in S : Min(S) <= x
<1>1. \E x \in S : \A y \in S : x <= y
  BY LeastNatural
<1> QED
  BY <1>1 DEF Min

LEMMA MaxFacts ==
    ASSUME NEW N \in Nat, NEW S, S \subseteq 0 .. N, S # {}
    PROVE  Max(S) \in S /\ \A x \in S : x <= Max(S)
<1> DEFINE T == {N - x : x \in S}
<1>1. \A x \in S : x \in Nat /\ N - x \in Nat
  OBVIOUS
<1>2. T \subseteq Nat /\ T # {}
  BY <1>1
<1>3. PICK t \in T : \A y \in T : t <= y
  BY <1>2, LeastNatural
<1>4. PICK m \in S : t = N - m
  OBVIOUS
<1>5. ASSUME NEW x \in S
      PROVE  m >= x
  <2>1. N - m <= N - x /\ m \in Nat /\ x \in Nat
    BY <1>1, <1>3, <1>4
  <2> HIDE DEF T
  <2> QED
    BY <2>1
<1>6. \E n \in S : \A x \in S : n >= x
  BY <1>5
<1> QED
  BY <1>6 DEF Max

-----------------------------------------------------------------------------
(* Severities.                                                             *)

Severities == ToSet(SEVERITY_ORDER)

LEMMA RankFacts ==
    /\ \A s \in Severities : Rank(s) \in 1 .. 5
    /\ \A r \in 1 .. 5 :
          SEVERITY_ORDER[r] \in Severities /\ Rank(SEVERITY_ORDER[r]) = r
<1>1. DOMAIN SEVERITY_ORDER = 1 .. 5
  BY DEF SEVERITY_ORDER
<1>2. ASSUME NEW s \in Severities
      PROVE  Rank(s) \in 1 .. 5 /\ SEVERITY_ORDER[Rank(s)] = s
  <2>1. \E r \in DOMAIN SEVERITY_ORDER : SEVERITY_ORDER[r] = s
    BY DEF Severities, ToSet
  <2> QED
    BY <1>1, <2>1 DEF Rank
<1>3. \A q, r \in 1 .. 5 : SEVERITY_ORDER[q] = SEVERITY_ORDER[r] => q = r
  BY DEF SEVERITY_ORDER
<1>4. ASSUME NEW r \in 1 .. 5
      PROVE  SEVERITY_ORDER[r] \in Severities /\ Rank(SEVERITY_ORDER[r]) = r
  <2>1. SEVERITY_ORDER[r] \in Severities
    BY <1>1 DEF Severities, ToSet
  <2> QED
    BY <1>2, <1>3, <2>1
<1> QED
  BY <1>2, <1>4

(* The grade of an incident is the strongest of its matches.               *)
LEMMA HighestSeverityFacts ==
    ASSUME NEW matches, DOMAIN matches # {},
           \A m \in DOMAIN matches : matches[m].severity \in Severities
    PROVE  /\ HighestSeverity(matches) \in Severities
           /\ \A m \in DOMAIN matches :
                 Rank(matches[m].severity) <= Rank(HighestSeverity(matches))
           /\ \E m \in DOMAIN matches :
                 Rank(matches[m].severity) = Rank(HighestSeverity(matches))
<1> DEFINE ranks == {Rank(matches[m].severity) : m \in DOMAIN matches}
<1>1. ranks \subseteq 1 .. 5 /\ ranks # {}
  BY RankFacts
<1>2. ranks \subseteq 0 .. 5
  BY <1>1
<1>3. Max(ranks) \in ranks /\ \A r \in ranks : r <= Max(ranks)
  BY <1>1, <1>2, MaxFacts
<1>4. HighestSeverity(matches) = SEVERITY_ORDER[Max(ranks)]
  BY DEF HighestSeverity
<1>5. /\ Rank(HighestSeverity(matches)) = Max(ranks)
      /\ HighestSeverity(matches) \in Severities
  BY <1>1, <1>3, <1>4, RankFacts
<1>6. \A m \in DOMAIN matches : Rank(matches[m].severity) \in ranks
  OBVIOUS
<1>7. \E m \in DOMAIN matches : Rank(matches[m].severity) = Max(ranks)
  BY <1>3
<1> QED
  BY <1>3, <1>5, <1>6, <1>7

-----------------------------------------------------------------------------
(* Sorting.                                                                *)

(* That `order` sorts the numbers in D by their links.                     *)
Sorts(order, links, n, D) ==
    /\ order \in [1 .. n -> D]
    /\ \A l, m \in 1 .. n : l < m => Before(links, order[l], order[m])

(* A number can be put in its place among numbers that are sorted.         *)
LEMMA Insertion ==
    ASSUME NEW n \in Nat, NEW D, NEW links, NEW order, Sorts(order, links, n, D),
           D \subseteq Nat, NEW x \in Nat, x \notin D,
           \A d \in D \union {x} : EventStart(links[d]) \in Int
    PROVE  \E q : Sorts(q, links, n + 1, D \union {x})
<1> DEFINE later == {c \in 1 .. n + 1 : c = n + 1 \/ Before(links, x, order[c])}
<1>1. later \subseteq Nat /\ n + 1 \in later
  OBVIOUS
<1>2. PICK k \in later : \A c \in later : k <= c
  BY <1>1, LeastNatural
<1>3. k \in 1 .. n + 1
  OBVIOUS
<1>4. ASSUME NEW c \in 1 .. n, c < k
      PROVE  Before(links, order[c], x)
  <2>1. c \in 1 .. n + 1 /\ c # n + 1
    OBVIOUS
  <2>2. ~ Before(links, x, order[c])
    <3>1. c \notin later
      BY <1>2, <1>3, <1>4, <2>1
    <3> QED
      BY <2>1, <3>1
  <2>3. order[c] \in D /\ order[c] # x /\ order[c] \in Nat
    BY DEF Sorts
  <2>4. EventStart(links[order[c]]) \in Int /\ EventStart(links[x]) \in Int
    BY <2>3
  <2> QED
    BY <2>2, <2>3, <2>4 DEF Before
<1>5. ASSUME NEW c \in 1 .. n, k <= c
      PROVE  Before(links, x, order[c])
  <2>1. k \in 1 .. n /\ (k = n + 1 \/ Before(links, x, order[k])) /\ k # n + 1
    BY <1>3, <1>5
  <2>2. Before(links, x, order[k]) /\ (k = c \/ Before(links, order[k], order[c]))
    BY <1>5, <2>1 DEF Sorts
  <2>3. order[c] \in D /\ order[k] \in D
    BY <2>1 DEF Sorts
  <2>4. /\ EventStart(links[order[c]]) \in Int /\ EventStart(links[order[k]]) \in Int
        /\ EventStart(links[x]) \in Int
        /\ order[c] \in Nat /\ order[k] \in Nat
    BY <2>3
  <2> QED
    BY <2>2, <2>4 DEF Before
<1> HIDE DEF later
<1> DEFINE q == [c \in 1 .. n + 1 |-> IF c < k THEN order[c]
                                     ELSE IF c = k THEN x ELSE order[c - 1]]
<1>6. \A c \in 1 .. n + 1 : /\ c < k => c \in 1 .. n
                            /\ c > k => c - 1 \in 1 .. n /\ c - 1 >= k
  BY <1>3
<1>7. \A c \in 1 .. n : order[c] \in D
  BY DEF Sorts
<1>8. q \in [1 .. n + 1 -> D \union {x}]
  <2>1. ASSUME NEW c \in 1 .. n + 1
        PROVE  q[c] \in D \union {x}
    BY <1>3, <1>6, <1>7
  <2> QED
    BY <2>1
<1>9. /\ \A c \in 1 .. n + 1 : c < k => q[c] = order[c]
      /\ q[k] = x
      /\ \A c \in 1 .. n + 1 : c > k => q[c] = order[c - 1]
  BY <1>3
<1> HIDE DEF q
<1>10. ASSUME NEW l \in 1 .. n + 1, NEW m \in 1 .. n + 1, l < m
       PROVE  Before(links, q[l], q[m])
  <2>1. l \in Nat /\ m \in Nat /\ k \in Nat
    BY <1>3
  <2>2. CASE m < k
    <3>1. l < k /\ l \in 1 .. n /\ m \in 1 .. n
      BY <1>6, <1>10, <2>1, <2>2
    <3> QED
      BY <1>9, <1>10, <2>2, <3>1 DEF Sorts
  <2>3. CASE m = k
    <3>1. l < k /\ l \in 1 .. n
      BY <1>6, <1>10, <2>1, <2>3
    <3> QED
      BY <1>4, <1>9, <2>3, <3>1
  <2>4. CASE m > k /\ l < k
    <3>1. l \in 1 .. n /\ m - 1 \in 1 .. n /\ l < m - 1
      BY <1>6, <2>1, <2>4
    <3> QED
      BY <1>9, <2>4, <3>1 DEF Sorts
  <2>5. CASE m > k /\ l = k
    <3>1. m - 1 \in 1 .. n /\ k <= m - 1
      BY <1>6, <2>1, <2>5
    <3> QED
      BY <1>5, <1>9, <2>5, <3>1
  <2>6. CASE m > k /\ l > k
    <3>1. l - 1 \in 1 .. n /\ m - 1 \in 1 .. n /\ l - 1 < m - 1
      BY <1>6, <1>10, <2>1, <2>6
    <3> QED
      BY <1>9, <2>6, <3>1 DEF Sorts
  <2> QED
    BY <2>1, <2>2, <2>3, <2>4, <2>5, <2>6
<1> QED
  BY <1>8, <1>10 DEF Sorts

(* Any finite set of numbers can be sorted: if not, a smallest one cannot. *)
LEMMA SortingExists ==
    ASSUME NEW links, NEW D, IsFiniteSet(D), D \subseteq Nat,
           \A d \in D : EventStart(links[d]) \in Int
    PROVE  \E order : Sorts(order, links, Cardinality(D), D)
<1> DEFINE Unsorted(E) == ~ \E order : Sorts(order, links, Cardinality(E), E)
           sizes == {n \in Nat : \E E \in SUBSET D :
                        Cardinality(E) = n /\ Unsorted(E)}
<1>1. SUFFICES ASSUME Unsorted(D) PROVE FALSE
  OBVIOUS
<1>2. Cardinality(D) \in sizes
  BY <1>1, FS_CardinalityType
<1>3. PICK n \in sizes : \A m \in sizes : n <= m
  BY <1>2, LeastNatural
<1>4. PICK E \in SUBSET D : Cardinality(E) = n /\ Unsorted(E)
  OBVIOUS
<1>5. IsFiniteSet(E) /\ n \in Nat
  BY FS_Subset
<1>6. CASE E = {}
  <2>1. Cardinality(E) = 0
    BY <1>6, FS_EmptySet
  <2>2. Sorts(<<>>, links, 0, E)
    BY <1>6 DEF Sorts
  <2> QED
    BY <1>4, <2>1, <2>2
<1>7. CASE E # {}
  <2>1. PICK x \in E : TRUE
    BY <1>7
  <2> DEFINE F == E \ {x}
  <2>2. IsFiniteSet(F) /\ Cardinality(F) = n - 1 /\ n - 1 \in Nat
    <3>1. IsFiniteSet(F) /\ Cardinality(F) = Cardinality(E) - 1
      BY <1>5, <2>1, FS_RemoveElement
    <3>2. Cardinality(F) \in Nat
      BY <3>1, FS_CardinalityType
    <3> QED
      BY <1>4, <3>1, <3>2
  <2>3. ~ Unsorted(F)
    <3>1. SUFFICES ASSUME Unsorted(F) PROVE FALSE
      OBVIOUS
    <3>2. n - 1 \in sizes
      BY <2>2, <3>1
    <3> HIDE DEF sizes
    <3> QED
      BY <1>3, <1>5, <2>2, <3>2
  <2>4. PICK order : Sorts(order, links, n - 1, F)
    BY <2>2, <2>3
  <2>5. x \notin F /\ F \subseteq Nat /\ x \in Nat /\ F \union {x} = E
        /\ \A d \in F \union {x} : EventStart(links[d]) \in Int
    BY <2>1
  <2> HIDE DEF F
  <2>6. \E q : Sorts(q, links, (n - 1) + 1, F \union {x})
    BY <2>2, <2>4, <2>5, Insertion
  <2>7. (n - 1) + 1 = n
    BY <1>5
  <2> QED
    BY <1>4, <2>5, <2>6, <2>7
<1> QED
  BY <1>6, <1>7

(* A sorted order has every number in it once, and a number that is after  *)
(* all others is its last.                                                 *)
Reached(order, n, z) == \E c \in 1 .. n : order[c] = z

LEMMA SortedOnto ==
    ASSUME NEW links, NEW D, IsFiniteSet(D), D \subseteq Nat,
           \A d \in D : EventStart(links[d]) \in Int,
           NEW order, Sorts(order, links, Cardinality(D), D)
    PROVE  \A z \in D : Reached(order, Cardinality(D), z)
<1> DEFINE n == Cardinality(D)
<1>1. n \in Nat /\ IsFiniteSet(1 .. n) /\ Cardinality(1 .. n) = n
  <2>1. n \in Nat
    BY FS_CardinalityType
  <2>2. IsFiniteSet(1 .. n) /\ Cardinality(1 .. n) = IF 1 > n THEN 0 ELSE n - 1 + 1
    <3>1. 1 \in Int /\ n \in Int
      BY <2>1
    <3> HIDE DEF n
    <3> QED
      BY <3>1, FS_Interval
  <2> QED
    BY <2>1, <2>2
<1>2. order \in [1 .. n -> D] /\ \A l, m \in 1 .. n : l < m => Before(links, order[l], order[m])
  BY DEF Sorts
<1>3. \A g \in D : ~ Before(links, g, g)
  BY DEF Before
<1> HIDE DEF n
<1>4. ASSUME NEW l \in 1 .. n, NEW m \in 1 .. n, order[l] = order[m]
      PROVE  l = m
  <2>1. ~ (l < m) /\ ~ (m < l)
    BY <1>2, <1>3, <1>4
  <2>2. l \in Nat /\ m \in Nat
    BY <1>1
  <2> QED
    BY <2>1, <2>2
<1>5. order \in Injection(1 .. n, D)
  BY <1>2, <1>4 DEF Injection, IsInjective
<1>6. Cardinality(1 .. n) = Cardinality(D)
  BY <1>1 DEF n
<1>7. order \in Surjection(1 .. n, D)
  BY <1>5, <1>6, FS_Injection
<1> QED
  BY <1>7 DEF Surjection, n, Reached

LEMMA SortedLast ==
    ASSUME NEW links, NEW D, IsFiniteSet(D), D \subseteq Nat,
           \A d \in D : EventStart(links[d]) \in Int,
           NEW order, Sorts(order, links, Cardinality(D), D), NEW z \in D,
           \A d \in D : d # z => EventStart(links[d]) < EventStart(links[z])
    PROVE  order[Cardinality(D)] = z
<1>0. Reached(order, Cardinality(D), z)
  BY SortedOnto
<1>1. PICK c \in 1 .. Cardinality(D) : order[c] = z
  BY <1>0 DEF Reached
<1>2. Cardinality(D) \in Nat
  BY FS_CardinalityType
<1> DEFINE n == Cardinality(D)
<1>3. n \in Nat /\ c \in 1 .. n /\ order[c] = z
  BY <1>1, <1>2
<1>4. order \in [1 .. n -> D] /\ \A l, m \in 1 .. n : l < m => Before(links, order[l], order[m])
  BY DEF Sorts
<1> HIDE DEF n
<1>5. ASSUME order[n] # z PROVE FALSE
  <2>1. c < n /\ n \in 1 .. n
    BY <1>3, <1>5
  <2>2. Before(links, z, order[n])
    BY <1>3, <1>4, <2>1
  <2>3. order[n] \in D
    BY <1>4, <2>1
  <2>4. /\ EventStart(links[order[n]]) < EventStart(links[z])
        /\ EventStart(links[order[n]]) \in Int /\ EventStart(links[z]) \in Int
    BY <1>5, <2>3
  <2> QED
    BY <2>2, <2>3, <2>4 DEF Before
<1> QED
  BY <1>5 DEF n

-----------------------------------------------------------------------------
(* What a run loads and what it finds before an anchor.                    *)

(* What the proofs need of an alert.                                       *)
WellTimed(a) ==
    /\ a.severity \in Severities
    /\ EventStart(a) \in Int /\ EventEnd(a) \in Int
    /\ EventStart(a) <= EventEnd(a)

Listing(alerts) ==
    /\ DOMAIN alerts \subseteq Nat
    /\ \A i \in DOMAIN alerts : WellTimed(alerts[i])

LEMMA AlertFacts ==
    ASSUME NEW a \in Alerts, NEW name
    PROVE  WellTimed(a) /\ WellTimed([a EXCEPT !.username = name])
<1>1. /\ a \in [rule : STRING, key : STRING, username : STRING, auid : Int,
                severity : Severities,
                first : Int, last : Int \union {NoTime}, valid : BOOLEAN]
      /\ a.last # NoTime => a.first <= a.last
  BY AlertAssumption DEF Severities
<1> DEFINE b == [a EXCEPT !.username = name]
<1>2. b.severity = a.severity /\ b.first = a.first /\ b.last = a.last
  BY <1>1
<1>3. WellTimed(a)
  BY <1>1 DEF WellTimed, EventStart, EventEnd
<1> HIDE DEF b
<1>4. WellTimed(b)
  BY <1>2, <1>3 DEF WellTimed, EventStart, EventEnd
<1> QED
  BY <1>3, <1>4 DEF b

(* That a is one of the same user's alerts that ended before the anchor    *)
(* began, in its window.                                                   *)
Precedes(a, anchor) ==
    /\ WellTimed(a)
    /\ a.username # NoUser /\ a.username = anchor.username
    /\ EventEnd(a) < EventStart(anchor)
    /\ EventStart(anchor) - EventEnd(a) <= WindowHours

LEMMA CandidateFacts ==
    ASSUME NEW alerts, Listing(alerts), NEW anchor, WellTimed(anchor), NEW rule
    PROVE  Candidates(alerts, anchor, rule) =
              {i \in DOMAIN alerts : alerts[i].rule = rule /\ Precedes(alerts[i], anchor)}
<1>1. ASSUME NEW i \in DOMAIN alerts
      PROVE  EventStart(anchor) - EventEnd(alerts[i]) \in 1 .. WindowHours
             <=> /\ EventEnd(alerts[i]) < EventStart(anchor)
                 /\ EventStart(anchor) - EventEnd(alerts[i]) <= WindowHours
  <2> DEFINE s == EventStart(anchor)
             e == EventEnd(alerts[i])
  <2>1. s \in Int /\ e \in Int /\ WindowHours \in Nat
    BY CorrelationBoundAssumption DEF Listing, WellTimed
  <2> HIDE DEF s, e
  <2>2. s - e \in 1 .. WindowHours <=> e < s /\ s - e <= WindowHours
    BY <2>1
  <2> QED
    BY <2>2 DEF s, e
<1>2. \A i \in DOMAIN alerts : WellTimed(alerts[i])
  BY DEF Listing
<1> QED
  BY <1>1, <1>2 DEF Candidates, AlertsOf, Precedes

(* If anything qualifies, the nearest of it is found.                      *)
LEMMA NearestFacts ==
    ASSUME NEW alerts, Listing(alerts), NEW anchor, WellTimed(anchor),
           NEW candidates, candidates # {},
           \A i \in candidates : i \in DOMAIN alerts /\ Precedes(alerts[i], anchor)
    PROVE  \E i \in candidates : Nearest(alerts, candidates) = alerts[i]
<1> DEFINE gap(i) == EventStart(anchor) - EventEnd(alerts[i])
           gaps == {gap(i) : i \in candidates}
           nearest == {i \in candidates :
                          \A j \in candidates : EventEnd(alerts[j]) <= EventEnd(alerts[i])}
<1>1. ASSUME NEW i \in candidates
      PROVE  EventEnd(alerts[i]) \in Int /\ EventStart(anchor) \in Int /\ gap(i) \in Nat
  <2>1. EventEnd(alerts[i]) \in Int /\ EventStart(anchor) \in Int
        /\ EventEnd(alerts[i]) < EventStart(anchor)
    BY DEF Precedes, WellTimed
  <2> QED
    BY <2>1
<1>2. gaps \subseteq Nat /\ gaps # {}
  BY <1>1
<1>3. PICK least \in gaps : \A h \in gaps : least <= h
  BY <1>2, LeastNatural
<1>4. PICK i \in candidates : least = gap(i)
  OBVIOUS
<1>5. ASSUME NEW j \in candidates
      PROVE  EventEnd(alerts[j]) <= EventEnd(alerts[i])
  <2>1. gap(i) <= gap(j)
    BY <1>3, <1>4
  <2> QED
    BY <1>1, <2>1
<1>6. i \in nearest
  BY <1>5
<1>7. nearest \subseteq Nat
  BY DEF Listing
<1>8. Min(nearest) \in nearest
  BY <1>6, <1>7, MinFacts
<1> QED
  BY <1>8 DEF Nearest

-----------------------------------------------------------------------------
(* What the groups of an anchor match.                                     *)

(* Tiers, listed from the strongest to the weakest.                        *)
Ranked(group) ==
    /\ DOMAIN group \subseteq Nat
    /\ \A t \in DOMAIN group : group[t].severity \in Severities
    /\ \A t, u \in DOMAIN group :
          t < u => Rank(group[u].severity) <= Rank(group[t].severity)

LEMMA GroupFacts ==
    ASSUME NEW rule \in DOMAIN CORRELATION_RULES
    PROVE  /\ DOMAIN CORRELATION_RULES[rule] \subseteq Nat \ {0}
           /\ IsFiniteSet(DOMAIN CORRELATION_RULES[rule])
           /\ \A g \in DOMAIN CORRELATION_RULES[rule] : Ranked(CORRELATION_RULES[rule][g])
<1> DEFINE groups == CORRELATION_RULES[rule]
<1>1. /\ groups \in Seq(ToSet(groups))
      /\ \A group \in ToSet(groups) :
            /\ group \in Seq(ToSet(group))
            /\ \A t \in DOMAIN group : group[t].severity \in Severities
            /\ \A t, u \in DOMAIN group :
                  t < u => Rank(group[u].severity) <= Rank(group[t].severity)
  BY RulesAssumption DEF Severities
<1> HIDE DEF groups
<1>2. Len(groups) \in Nat /\ DOMAIN groups = 1 .. Len(groups)
  BY <1>1
<1>3. IsFiniteSet(DOMAIN groups)
  BY <1>2, FS_Interval
<1>4. ASSUME NEW g \in DOMAIN groups
      PROVE  Ranked(groups[g])
  <2>1. groups[g] \in ToSet(groups)
    BY DEF ToSet
  <2>2. groups[g] \in Seq(ToSet(groups[g]))
    BY <1>1, <2>1
  <2>3. DOMAIN groups[g] \subseteq Nat
    BY <2>2
  <2> QED
    BY <1>1, <2>1, <2>3 DEF Ranked
<1>5. DOMAIN groups \subseteq Nat \ {0}
  BY <1>2
<1> QED
  BY <1>3, <1>4, <1>5 DEF groups

(* That match is one of the alerts that precede the anchor, graded.        *)
IsMatch(match, alerts, anchor) ==
    /\ match.severity \in Severities
    /\ \E i \in DOMAIN alerts : match.matched = alerts[i] /\ Precedes(alerts[i], anchor)

(* A group matches an alert that precedes the anchor, with the grade of    *)
(* the strongest of its tiers that match anything.                         *)
LEMMA GroupMatchFacts ==
    ASSUME NEW alerts, Listing(alerts), NEW anchor, WellTimed(anchor),
           NEW group, Ranked(group), MatchingTiers(alerts, anchor, group) # {}
    PROVE  /\ IsMatch(GroupMatch(alerts, anchor, group), alerts, anchor)
           /\ \A t \in MatchingTiers(alerts, anchor, group) :
                 Rank(group[t].severity)
                    <= Rank(GroupMatch(alerts, anchor, group).severity)
<1> DEFINE tiers == MatchingTiers(alerts, anchor, group)
           first == Min(tiers)
           candidates == Candidates(alerts, anchor, group[first].rule)
           match == GroupMatch(alerts, anchor, group)
<1>1. tiers \subseteq DOMAIN group /\ tiers \subseteq Nat
  BY DEF MatchingTiers, Ranked
<1>2. first \in tiers /\ \A t \in tiers : first <= t
  <2> HIDE DEF tiers
  <2> QED
    BY <1>1, MinFacts DEF tiers
<1>3. match = [matched |-> Nearest(alerts, candidates), severity |-> group[first].severity]
  BY DEF GroupMatch
<1>4. candidates # {}
  BY <1>2 DEF MatchingTiers
<1>5. \A i \in candidates : i \in DOMAIN alerts /\ Precedes(alerts[i], anchor)
  BY CandidateFacts
<1> HIDE DEF candidates, first, match, tiers
<1>6. \E i \in candidates : Nearest(alerts, candidates) = alerts[i]
  BY <1>4, <1>5, NearestFacts
<1>7. match.matched = Nearest(alerts, candidates) /\ match.severity = group[first].severity
  BY <1>3
<1>8. IsMatch(match, alerts, anchor)
  BY <1>1, <1>2, <1>5, <1>6, <1>7 DEF IsMatch, Ranked
<1>9. ASSUME NEW t \in tiers
      PROVE  Rank(group[t].severity) <= Rank(match.severity)
  <2>1. /\ first \in DOMAIN group /\ t \in DOMAIN group
        /\ first \in Nat /\ t \in Nat /\ first <= t
    BY <1>1, <1>2
  <2>2. Rank(group[t].severity) \in Nat
    <3>1. group[t].severity \in Severities
      BY <2>1 DEF Ranked
    <3> QED
      BY <3>1, RankFacts
  <2>3. CASE first = t
    BY <1>7, <2>2, <2>3
  <2>4. CASE first < t
    BY <1>7, <2>1, <2>4 DEF Ranked
  <2> QED
    BY <2>1, <2>3, <2>4
<1> QED
  BY <1>8, <1>9 DEF match, tiers

LEMMA GroupMatchesFacts ==
    ASSUME NEW alerts, Listing(alerts), NEW anchor, WellTimed(anchor),
           anchor.rule \in DOMAIN CORRELATION_RULES
    PROVE  LET matches == GroupMatches(alerts, anchor)
           IN  /\ IsFiniteSet(DOMAIN matches) /\ DOMAIN matches \subseteq Nat \ {0}
               /\ \A g \in DOMAIN matches : IsMatch(matches[g], alerts, anchor)
<1> DEFINE groups == CORRELATION_RULES[anchor.rule]
           matches == GroupMatches(alerts, anchor)
           matching == {h \in DOMAIN groups : MatchingTiers(alerts, anchor, groups[h]) # {}}
<1>1. /\ matches = [g \in matching |-> GroupMatch(alerts, anchor, groups[g])]
      /\ DOMAIN matches = matching
  BY DEF GroupMatches
<1>2. /\ DOMAIN groups \subseteq Nat \ {0} /\ IsFiniteSet(DOMAIN groups)
      /\ \A g \in DOMAIN groups : Ranked(groups[g])
  BY GroupFacts
<1>3. matching \in SUBSET DOMAIN groups
  OBVIOUS
<1>4. IsFiniteSet(matching)
  BY <1>2, <1>3, FS_Subset
<1>5. ASSUME NEW g \in matching
      PROVE  IsMatch(matches[g], alerts, anchor)
  <2>1. Ranked(groups[g]) /\ MatchingTiers(alerts, anchor, groups[g]) # {}
    BY <1>2
  <2>2. IsMatch(GroupMatch(alerts, anchor, groups[g]), alerts, anchor)
    BY <2>1, GroupMatchFacts
  <2> QED
    BY <1>1, <2>2
<1> HIDE DEF matching, matches
<1> QED
  BY <1>1, <1>2, <1>3, <1>4, <1>5 DEF matches

-----------------------------------------------------------------------------
(* The story an incident tells.                                            *)

(* That a ended before b began, in its window.                             *)
EndedBefore(a, b) ==
    /\ EventEnd(a) < EventStart(b)
    /\ EventStart(b) - EventEnd(a) <= WindowHours

(* That the chain of an incident names the alerts at those at, in the  *)
(* order they began and the parent last.                                   *)
Story(incident, places, alerts) ==
    LET n == Len(incident.chain)
    IN  /\ n \in Nat /\ n > 1
        /\ DOMAIN incident.chain = 1 .. n
        /\ places \in [1 .. n -> DOMAIN alerts]
        /\ incident.parent = AlertRef(alerts[places[n]])
        /\ \A c \in 1 .. n : incident.chain[c] = AlertRef(alerts[places[c]])
        /\ \A c \in 1 .. n - 1 :
              /\ EventStart(alerts[places[c]]) <= EventStart(alerts[places[c + 1]])
              /\ EndedBefore(alerts[places[c]], alerts[places[n]])

OneUser(incident, places, alerts) ==
    \A c \in DOMAIN incident.chain :
        /\ alerts[places[c]].username # NoUser
        /\ alerts[places[c]].username = alerts[places[Len(incident.chain)]].username

LEMMA ChainLength ==
    ASSUME NEW n \in Nat, NEW refs, DOMAIN refs = 1 .. n,
           refs = [c \in 1 .. n |-> refs[c]]
    PROVE  Len(refs) = n
<1>1. refs \in Seq({refs[c] : c \in 1 .. n})
  OBVIOUS
<1> QED
  BY <1>1

LEMMA InOrderFacts ==
    ASSUME NEW links, IsFiniteSet(DOMAIN links), DOMAIN links \subseteq Nat,
           \A g \in DOMAIN links : EventStart(links[g]) \in Int
    PROVE  Sorts(InOrder(links), links, Cardinality(DOMAIN links), DOMAIN links)
<1>1. PICK order : Sorts(order, links, Cardinality(DOMAIN links), DOMAIN links)
  BY SortingExists
<1> DEFINE D == DOMAIN links
           n == Cardinality(D)
           Sorted(q) == \A l, m \in DOMAIN q : l < m => Before(links, q[l], q[m])
<1>2. order \in [1 .. n -> D] /\ Sorted(order)
  BY <1>1 DEF Sorts
<1>3. InOrder(links) = CHOOSE q \in [1 .. n -> D] : Sorted(q)
  BY DEF InOrder
<1> HIDE DEF n, D, Sorted
<1>4. InOrder(links) \in [1 .. n -> D] /\ Sorted(InOrder(links))
  BY <1>2, <1>3
<1> QED
  BY <1>4 DEF Sorts, n, D, Sorted

LEMMA BuildFacts ==
    ASSUME NEW alerts, Listing(alerts), NEW k \in DOMAIN alerts, NEW matches,
           IsFiniteSet(DOMAIN matches), DOMAIN matches \subseteq Nat \ {0},
           DOMAIN matches # {},
           \A g \in DOMAIN matches : IsMatch(matches[g], alerts, alerts[k]),
           NEW incident, incident = BuildIncident(alerts[k], matches)
    PROVE  /\ Len(incident.chain) = Cardinality(DOMAIN matches) + 1
           /\ \E places : Story(incident, places, alerts) /\ OneUser(incident, places, alerts)
<1> DEFINE anchor == alerts[k]
           links == Links(anchor, matches)
           D == {0} \union DOMAIN matches
           n == Cardinality(D)
           order == InOrder(links)
           place == [g \in D |-> IF g = 0 THEN k
                                 ELSE CHOOSE i \in DOMAIN alerts :
                                         /\ matches[g].matched = alerts[i]
                                         /\ Precedes(alerts[i], anchor)]
           places == [c \in 1 .. n |-> place[order[c]]]
<1>1. DOMAIN links = D
  BY DEF Links
<1>2. /\ IsFiniteSet(D) /\ D \subseteq Nat
      /\ n = Cardinality(DOMAIN matches) + 1
      /\ Cardinality(DOMAIN matches) \in Nat /\ n \in Nat /\ n > 1
  <2>1. D = DOMAIN matches \union {0} /\ 0 \notin DOMAIN matches
    OBVIOUS
  <2>2. IsFiniteSet(D) /\ n = Cardinality(DOMAIN matches) + 1
    BY <2>1, FS_AddElement
  <2>3. Cardinality(DOMAIN matches) \in Nat /\ Cardinality(DOMAIN matches) # 0
    BY FS_CardinalityType, FS_EmptySet
  <2>4. D \subseteq Nat
    OBVIOUS
  <2> HIDE DEF D
  <2> QED
    BY <2>2, <2>3, <2>4
<1>3. /\ place[0] = k /\ links[0] = anchor
      /\ \A g \in D : place[g] \in DOMAIN alerts /\ links[g] = alerts[place[g]]
      /\ \A g \in D : g # 0 => Precedes(links[g], anchor)
  <2>1. ASSUME NEW g \in DOMAIN matches
        PROVE  /\ place[g] \in DOMAIN alerts /\ matches[g].matched = alerts[place[g]]
               /\ Precedes(alerts[place[g]], anchor)
    <3>1. \E i \in DOMAIN alerts : matches[g].matched = alerts[i] /\ Precedes(alerts[i], anchor)
      BY DEF IsMatch
    <3>2. g # 0 /\ g \in D
      OBVIOUS
    <3>3. place[g] = CHOOSE i \in DOMAIN alerts :
                        matches[g].matched = alerts[i] /\ Precedes(alerts[i], anchor)
      BY <3>2
    <3> HIDE DEF place
    <3> QED
      BY <3>1, <3>3
  <2>2. place[0] = k
    OBVIOUS
  <2>3. \A g \in D : links[g] = IF g = 0 THEN anchor ELSE matches[g].matched
    BY DEF Links
  <2>4. \A g \in D : g = 0 \/ g \in DOMAIN matches
    OBVIOUS
  <2>5. 0 \in D
    OBVIOUS
  <2> HIDE DEF place, links, D
  <2> QED
    BY <2>1, <2>2, <2>3, <2>4, <2>5
<1> HIDE DEF place
<1>4. WellTimed(anchor) /\ \A g \in D : WellTimed(links[g])
  BY <1>3 DEF Listing
<1>5. \A g \in D : EventStart(links[g]) \in Int
  BY <1>4 DEF WellTimed
<1> HIDE DEF links
<1>6. Sorts(order, links, n, D)
  BY <1>1, <1>2, <1>5, InOrderFacts
<1>7. \A g \in D : g # 0 => EventStart(links[g]) < EventStart(links[0])
  <2>1. ASSUME NEW g \in D, g # 0
        PROVE  EventStart(links[g]) < EventStart(links[0])
    <3>1. Precedes(links[g], anchor) /\ links[0] = anchor
      BY <1>3, <2>1
    <3>2. /\ EventStart(links[g]) <= EventEnd(links[g])
          /\ EventEnd(links[g]) < EventStart(links[0])
          /\ EventStart(links[g]) \in Int /\ EventEnd(links[g]) \in Int
          /\ EventStart(links[0]) \in Int
      BY <1>4, <3>1 DEF Precedes, WellTimed
    <3> QED
      BY <3>2
  <2> QED
    BY <2>1
<1>8. 0 \in D
  OBVIOUS
<1> HIDE DEF D, order, anchor
<1>9. order[n] = 0
  BY <1>2, <1>5, <1>6, <1>7, <1>8, SortedLast
<1> HIDE DEF n
<1>10. /\ order \in [1 .. n -> D] /\ n \in 1 .. n
       /\ \A l, m \in 1 .. n : l < m => Before(links, order[l], order[m])
  BY <1>2, <1>6 DEF Sorts
<1>11. /\ places \in [1 .. n -> DOMAIN alerts] /\ places[n] = k
       /\ \A c \in 1 .. n : alerts[places[c]] = links[order[c]]
  BY <1>3, <1>9, <1>10
<1> HIDE DEF places
<1>12. /\ incident.parent = AlertRef(anchor)
       /\ DOMAIN order = 1 .. n
       /\ incident.chain = [c \in 1 .. n |-> AlertRef(links[order[c]])]
  <2>1. DOMAIN order = 1 .. n
    BY <1>10
  <2> QED
    BY <2>1 DEF BuildIncident, order, links, anchor
<1>13. /\ DOMAIN incident.chain = 1 .. n
       /\ \A c \in 1 .. n : incident.chain[c] = AlertRef(links[order[c]])
  BY <1>12
<1>14. Len(incident.chain) = n
  <2>1. incident.chain = [c \in 1 .. n |-> incident.chain[c]]
    BY <1>12
  <2> QED
    BY <1>2, <1>13, <2>1, ChainLength
<1>15. ASSUME NEW c \in 1 .. n - 1
       PROVE  /\ EventStart(links[order[c]]) <= EventStart(links[order[c + 1]])
              /\ order[c] # 0 /\ order[c] \in D
  <2>1. c \in 1 .. n /\ c + 1 \in 1 .. n /\ c < c + 1 /\ c < n
    BY <1>2
  <2>2. Before(links, order[c], order[c + 1]) /\ Before(links, order[c], 0)
    BY <1>9, <1>10, <2>1
  <2>3. order[c] \in D /\ order[c + 1] \in D
    BY <1>10, <2>1
  <2>4. /\ EventStart(links[order[c]]) \in Int
        /\ EventStart(links[order[c + 1]]) \in Int /\ EventStart(links[0]) \in Int
    BY <1>5, <1>8, <2>3
  <2>5. order[c] # 0
    BY <2>2, <2>4 DEF Before
  <2> QED
    BY <2>2, <2>3, <2>4, <2>5 DEF Before
<1>16. ASSUME NEW c \in 1 .. n - 1
       PROVE  EndedBefore(alerts[places[c]], alerts[places[n]])
  <2>1. c \in 1 .. n
    BY <1>2
  <2>2. Precedes(links[order[c]], anchor)
    BY <1>3, <1>15
  <2> QED
    BY <1>3, <1>9, <1>10, <1>11, <2>1, <2>2 DEF Precedes, EndedBefore
<1>17. Story(incident, places, alerts)
  <2>1. \A c \in 1 .. n - 1 : c \in 1 .. n /\ c + 1 \in 1 .. n
    BY <1>2
  <2>2. \A c \in 1 .. n - 1 :
           EventStart(alerts[places[c]]) <= EventStart(alerts[places[c + 1]])
    BY <1>11, <1>15, <2>1
  <2>3. incident.parent = AlertRef(alerts[places[n]])
    BY <1>11, <1>12 DEF anchor
  <2>4. \A c \in 1 .. n : incident.chain[c] = AlertRef(alerts[places[c]])
    BY <1>11, <1>13
  <2> QED
    BY <1>2, <1>11, <1>13, <1>14, <1>16, <2>2, <2>3, <2>4 DEF Story
<1>18. OneUser(incident, places, alerts)
  <2>1. ASSUME NEW g \in D
        PROVE  links[g].username = anchor.username /\ anchor.username # NoUser
    <3>1. PICK h \in DOMAIN matches : TRUE
      OBVIOUS
    <3>2. h \in D /\ h # 0
      BY DEF D
    <3>3. anchor.username # NoUser
      BY <1>3, <3>2 DEF Precedes
    <3>4. g # 0 => links[g].username = anchor.username
      BY <1>3 DEF Precedes
    <3> QED
      BY <1>3, <3>3, <3>4
  <2>2. \A c \in 1 .. n : order[c] \in D
    BY <1>10
  <2>3. \A c \in 1 .. n : alerts[places[c]].username = anchor.username
    BY <1>11, <2>1, <2>2
  <2>4. anchor.username # NoUser
    BY <1>8, <2>1
  <2> QED
    BY <1>10, <1>13, <1>14, <2>3, <2>4 DEF OneUser
<1> QED
  BY <1>2, <1>14, <1>17, <1>18

(* What every incident that a run builds is built from.                    *)
LEMMA IncidentsFacts ==
    ASSUME NEW alerts, Listing(alerts), NEW incident \in Incidents(alerts)
    PROVE  \E k \in DOMAIN alerts :
              /\ alerts[k].rule \in DOMAIN CORRELATION_RULES
              /\ DOMAIN GroupMatches(alerts, alerts[k]) # {}
              /\ incident = BuildIncident(alerts[k], GroupMatches(alerts, alerts[k]))
BY DEF Incidents

LEMMA StoryFacts ==
    ASSUME NEW alerts, Listing(alerts), NEW incident \in Incidents(alerts)
    PROVE  \E places : Story(incident, places, alerts) /\ OneUser(incident, places, alerts)
<1>1. PICK k \in DOMAIN alerts :
         /\ alerts[k].rule \in DOMAIN CORRELATION_RULES
         /\ DOMAIN GroupMatches(alerts, alerts[k]) # {}
         /\ incident = BuildIncident(alerts[k], GroupMatches(alerts, alerts[k]))
  BY IncidentsFacts
<1> DEFINE matches == GroupMatches(alerts, alerts[k])
<1>2. WellTimed(alerts[k])
  BY DEF Listing
<1>3. /\ IsFiniteSet(DOMAIN matches) /\ DOMAIN matches \subseteq Nat \ {0}
      /\ \A g \in DOMAIN matches : IsMatch(matches[g], alerts, alerts[k])
  BY <1>1, <1>2, GroupMatchesFacts
<1>4. DOMAIN matches # {} /\ incident = BuildIncident(alerts[k], matches)
  BY <1>1
<1> HIDE DEF matches
<1> QED
  BY <1>3, <1>4, BuildFacts

-----------------------------------------------------------------------------
(* More alerts and more names never weaken an incident.                    *)

Graded(incident) == Rank(incident.severity) \in Nat /\ Len(incident.chain) \in Nat

AsStrong(next, incident) ==
    /\ next.parent = incident.parent
    /\ Rank(next.severity) >= Rank(incident.severity)
    /\ Len(next.chain) >= Len(incident.chain)

(* That b is the alert a, whose user may have been unknown.                *)
SameAlert(a, b) ==
    /\ b.rule = a.rule /\ b.severity = a.severity /\ AlertRef(b) = AlertRef(a)
    /\ EventStart(b) = EventStart(a) /\ EventEnd(b) = EventEnd(a)
    /\ a.username # NoUser => b.username = a.username

Grows(old, new) ==
    /\ Listing(old) /\ Listing(new)
    /\ DOMAIN old \subseteq DOMAIN new
    /\ \A i \in DOMAIN old : SameAlert(old[i], new[i])

LEMMA TiersGrow ==
    ASSUME NEW old, NEW new, Grows(old, new), NEW k \in DOMAIN old, NEW group
    PROVE  MatchingTiers(old, old[k], group) \subseteq MatchingTiers(new, new[k], group)
<1>1. Listing(old) /\ Listing(new) /\ k \in DOMAIN new
  BY DEF Grows
<1>2. WellTimed(old[k]) /\ WellTimed(new[k])
  BY <1>1 DEF Listing
<1>3. SameAlert(old[k], new[k])
  BY DEF Grows
<1>4. ASSUME NEW rule, NEW i \in Candidates(old, old[k], rule)
      PROVE  i \in Candidates(new, new[k], rule)
  <2>1. i \in DOMAIN old /\ old[i].rule = rule /\ Precedes(old[i], old[k])
    BY <1>1, <1>2, <1>4, CandidateFacts
  <2>2. i \in DOMAIN new /\ SameAlert(old[i], new[i]) /\ WellTimed(new[i])
    BY <2>1 DEF Grows, Listing
  <2>3. Precedes(new[i], new[k])
    BY <1>3, <2>1, <2>2 DEF Precedes, SameAlert
  <2>4. new[i].rule = rule
    BY <2>1, <2>2 DEF SameAlert
  <2> QED
    BY <1>1, <1>2, <2>2, <2>3, <2>4, CandidateFacts
<1> QED
  BY <1>4 DEF MatchingTiers

LEMMA MatchesGrow ==
    ASSUME NEW old, NEW new, Grows(old, new), NEW k \in DOMAIN old,
           old[k].rule \in DOMAIN CORRELATION_RULES
    PROVE  /\ DOMAIN GroupMatches(old, old[k]) \subseteq DOMAIN GroupMatches(new, new[k])
           /\ \A g \in DOMAIN GroupMatches(old, old[k]) :
                 Rank(GroupMatches(old, old[k])[g].severity)
                    <= Rank(GroupMatches(new, new[k])[g].severity)
<1> DEFINE groups == CORRELATION_RULES[old[k].rule]
           was == GroupMatches(old, old[k])
           is == GroupMatches(new, new[k])
<1>1. Listing(old) /\ Listing(new) /\ k \in DOMAIN new
  BY DEF Grows
<1>2. WellTimed(old[k]) /\ WellTimed(new[k]) /\ new[k].rule = old[k].rule
  BY <1>1 DEF Listing, Grows, SameAlert
<1>3. /\ DOMAIN was = {h \in DOMAIN groups : MatchingTiers(old, old[k], groups[h]) # {}}
      /\ \A g \in DOMAIN was : was[g] = GroupMatch(old, old[k], groups[g])
  BY DEF GroupMatches
<1>4. /\ DOMAIN is = {h \in DOMAIN groups : MatchingTiers(new, new[k], groups[h]) # {}}
      /\ \A g \in DOMAIN is : is[g] = GroupMatch(new, new[k], groups[g])
  BY <1>2 DEF GroupMatches
<1>5. \A g \in DOMAIN groups : Ranked(groups[g])
  BY GroupFacts
<1> HIDE DEF groups, was, is
<1>6. ASSUME NEW g \in DOMAIN was
      PROVE  g \in DOMAIN is /\ Rank(was[g].severity) <= Rank(is[g].severity)
  <2> DEFINE before == MatchingTiers(old, old[k], groups[g])
             after == MatchingTiers(new, new[k], groups[g])
  <2>1. g \in DOMAIN groups /\ before # {} /\ Ranked(groups[g])
    BY <1>3, <1>5
  <2>2. before \subseteq after
    BY TiersGrow
  <2>3. g \in DOMAIN is
    BY <1>4, <2>1, <2>2
  <2>4. Min(before) \in before
    <3>1. before \subseteq Nat
      BY <2>1 DEF MatchingTiers, Ranked
    <3> HIDE DEF before
    <3> QED
      BY <2>1, <3>1, MinFacts
  <2>5. was[g].severity = groups[g][Min(before)].severity
    <3>1. GroupMatch(old, old[k], groups[g]).severity = groups[g][Min(before)].severity
      BY Zenon DEF GroupMatch
    <3> QED
      BY <1>3, <3>1
  <2>6. after # {} /\ Min(before) \in after
    BY <2>2, <2>4
  <2>7. Rank(groups[g][Min(before)].severity)
           <= Rank(GroupMatch(new, new[k], groups[g]).severity)
    <3> HIDE DEF before
    <3> QED
      BY <1>1, <1>2, <2>1, <2>6, GroupMatchFacts
  <2> QED
    BY <1>4, <2>3, <2>5, <2>7
<1> QED
  BY <1>6 DEF was, is

(* The chain of an incident has one link per group that matches and the    *)
(* parent; its grade is the anchor's, or the strongest of the matches.     *)
LEMMA GradeFacts ==
    ASSUME NEW alerts, Listing(alerts), NEW k \in DOMAIN alerts, NEW matches,
           alerts[k].rule \in DOMAIN CORRELATION_RULES,
           matches = GroupMatches(alerts, alerts[k]), DOMAIN matches # {},
           NEW incident, incident = BuildIncident(alerts[k], matches)
    PROVE  /\ IsFiniteSet(DOMAIN matches)
           /\ Len(incident.chain) = Cardinality(DOMAIN matches) + 1
           /\ Graded(incident) /\ incident.parent = AlertRef(alerts[k])
           /\ alerts[k].rule \notin SEVERITY_OPT_IN_RULES =>
                 incident.severity = alerts[k].severity
           /\ alerts[k].rule \in SEVERITY_OPT_IN_RULES =>
                 /\ \A g \in DOMAIN matches :
                       Rank(matches[g].severity) <= Rank(incident.severity)
                 /\ \E g \in DOMAIN matches :
                       Rank(matches[g].severity) = Rank(incident.severity)
           /\ \A g \in DOMAIN matches : Rank(matches[g].severity) \in Nat
<1>1. WellTimed(alerts[k])
  BY DEF Listing
<1>2. /\ IsFiniteSet(DOMAIN matches) /\ DOMAIN matches \subseteq Nat \ {0}
      /\ \A g \in DOMAIN matches : IsMatch(matches[g], alerts, alerts[k])
  BY <1>1, GroupMatchesFacts
<1>3. Len(incident.chain) = Cardinality(DOMAIN matches) + 1
  BY <1>2, BuildFacts
<1>4. Cardinality(DOMAIN matches) \in Nat
  BY <1>2, FS_CardinalityType
<1>5. \A g \in DOMAIN matches : matches[g].severity \in Severities
  BY <1>2 DEF IsMatch
<1>6. /\ HighestSeverity(matches) \in Severities
      /\ \A g \in DOMAIN matches :
            Rank(matches[g].severity) <= Rank(HighestSeverity(matches))
      /\ \E g \in DOMAIN matches :
            Rank(matches[g].severity) = Rank(HighestSeverity(matches))
  BY <1>5, HighestSeverityFacts
<1>7. /\ incident.parent = AlertRef(alerts[k])
      /\ incident.severity = IF alerts[k].rule \in SEVERITY_OPT_IN_RULES
                             THEN HighestSeverity(matches) ELSE alerts[k].severity
  BY DEF BuildIncident
<1>8. incident.severity \in Severities
  BY <1>1, <1>6, <1>7 DEF WellTimed
<1>9. Graded(incident)
  BY <1>3, <1>4, <1>8, RankFacts DEF Graded
<1>10. \A g \in DOMAIN matches : Rank(matches[g].severity) \in Nat
  BY <1>5, RankFacts
<1> QED
  BY <1>2, <1>3, <1>6, <1>7, <1>9, <1>10

LEMMA IncidentsGrow ==
    ASSUME NEW old, NEW new, Grows(old, new), NEW incident \in Incidents(old)
    PROVE  \E next \in Incidents(new) : AsStrong(next, incident)
<1>1. Listing(old) /\ Listing(new) /\ DOMAIN old \subseteq DOMAIN new
  BY DEF Grows
<1>2. PICK k \in DOMAIN old :
         /\ old[k].rule \in DOMAIN CORRELATION_RULES
         /\ DOMAIN GroupMatches(old, old[k]) # {}
         /\ incident = BuildIncident(old[k], GroupMatches(old, old[k]))
  BY <1>1, IncidentsFacts
<1>3. PICK was : was = GroupMatches(old, old[k])
  OBVIOUS
<1>4. PICK is : is = GroupMatches(new, new[k])
  OBVIOUS
<1>5. PICK next : next = BuildIncident(new[k], is)
  OBVIOUS
<1>6. /\ k \in DOMAIN new /\ new[k].rule = old[k].rule
      /\ new[k].severity = old[k].severity /\ AlertRef(new[k]) = AlertRef(old[k])
  BY <1>1 DEF Grows, SameAlert
<1>7. /\ DOMAIN was \subseteq DOMAIN is
      /\ \A g \in DOMAIN was : Rank(was[g].severity) <= Rank(is[g].severity)
  BY <1>2, <1>3, <1>4, MatchesGrow
<1>8. next \in Incidents(new)
  BY <1>2, <1>3, <1>4, <1>5, <1>6, <1>7 DEF Incidents
<1>9. DOMAIN was # {} /\ DOMAIN is # {} /\ new[k].rule \in DOMAIN CORRELATION_RULES
  BY <1>2, <1>3, <1>6, <1>7
<1>10. incident = BuildIncident(old[k], was)
  BY <1>2, <1>3
<1>11. /\ Len(incident.chain) = Cardinality(DOMAIN was) + 1
       /\ Graded(incident) /\ incident.parent = AlertRef(old[k])
       /\ old[k].rule \notin SEVERITY_OPT_IN_RULES => incident.severity = old[k].severity
       /\ old[k].rule \in SEVERITY_OPT_IN_RULES =>
             \E g \in DOMAIN was : Rank(was[g].severity) = Rank(incident.severity)
  BY <1>1, <1>2, <1>3, <1>9, <1>10, GradeFacts
<1>12. /\ IsFiniteSet(DOMAIN is)
       /\ Len(next.chain) = Cardinality(DOMAIN is) + 1
       /\ Graded(next) /\ next.parent = AlertRef(new[k])
       /\ new[k].rule \notin SEVERITY_OPT_IN_RULES => next.severity = new[k].severity
       /\ new[k].rule \in SEVERITY_OPT_IN_RULES =>
             \A g \in DOMAIN is : Rank(is[g].severity) <= Rank(next.severity)
       /\ \A g \in DOMAIN is : Rank(is[g].severity) \in Nat
  BY <1>1, <1>4, <1>5, <1>6, <1>9, GradeFacts
<1>13. Len(next.chain) >= Len(incident.chain)
  <2>1. Cardinality(DOMAIN was) <= Cardinality(DOMAIN is)
    BY <1>7, <1>12, FS_Subset
  <2>2. /\ Cardinality(DOMAIN was) \in Nat /\ Cardinality(DOMAIN is) \in Nat
    BY <1>7, <1>12, FS_Subset, FS_CardinalityType
  <2> QED
    BY <1>11, <1>12, <2>1, <2>2
<1>14. Rank(next.severity) >= Rank(incident.severity)
  <2>1. Rank(next.severity) \in Nat /\ Rank(incident.severity) \in Nat
    BY <1>11, <1>12 DEF Graded
  <2>2. CASE old[k].rule \in SEVERITY_OPT_IN_RULES
    <3>1. PICK g \in DOMAIN was : Rank(was[g].severity) = Rank(incident.severity)
      BY <1>11, <2>2
    <3>2. Rank(incident.severity) <= Rank(is[g].severity)
      BY <1>7, <3>1
    <3>3. Rank(is[g].severity) <= Rank(next.severity) /\ Rank(is[g].severity) \in Nat
      BY <1>6, <1>7, <1>12, <2>2, <3>1
    <3> QED
      BY <2>1, <3>2, <3>3
  <2>3. CASE old[k].rule \notin SEVERITY_OPT_IN_RULES
    BY <1>6, <1>11, <1>12, <2>1, <2>3
  <2> QED
    BY <2>2, <2>3
<1> QED
  BY <1>6, <1>8, <1>11, <1>12, <1>13, <1>14 DEF AsStrong

-----------------------------------------------------------------------------
(* The invariant.                                                          *)

CorrelationTypes == stored \in Seq(Alerts) /\ removals \in Nat

(* The engine stores an alert once.                                        *)
UniqueAlerts ==
    \A i, j \in DOMAIN stored : AlertRef(stored[i]) = AlertRef(stored[j]) => i = j

Named(incident, places) ==
    \A c \in DOMAIN incident.chain :
        /\ Identity(stored[places[c]]) # NoUser
        /\ Identity(stored[places[c]]) = Identity(stored[places[Len(incident.chain)]])

Told(incident) ==
    \E places : Story(incident, places, stored) /\ (removals = 0 => Named(incident, places))

(* Another run would not weaken what the last one derived.                 *)
NothingWeakens ==
    \A incident \in derived :
        /\ Graded(incident)
        /\ removals = 0 => \E next \in Incidents(Loaded) : AsStrong(next, incident)

CorrelationInvariant ==
    /\ CorrelationTypes
    /\ UniqueAlerts
    /\ \A incident \in saved : Told(incident)
    /\ NothingWeakens
    /\ current => derived = Incidents(Loaded)

(* Alerts are listed under the name they have.                             *)
LEMMA LoadedFacts ==
    ASSUME CorrelationTypes
    PROVE  /\ Listing(Loaded) /\ DOMAIN Loaded \subseteq DOMAIN stored
           /\ \A i \in DOMAIN Loaded :
                 /\ Loaded[i].username = Identity(stored[i])
                 /\ Identity(Loaded[i]) = Identity(stored[i])
                 /\ AlertRef(Loaded[i]) = AlertRef(stored[i])
                 /\ EventStart(Loaded[i]) = EventStart(stored[i])
                 /\ EventEnd(Loaded[i]) = EventEnd(stored[i])
<1>1. /\ DOMAIN stored \subseteq Nat
      /\ \A i \in DOMAIN stored : stored[i] \in Alerts
  BY DEF CorrelationTypes
<1>2. /\ DOMAIN Loaded = {j \in DOMAIN stored : stored[j].valid}
      /\ \A i \in DOMAIN Loaded :
            Loaded[i] = [stored[i] EXCEPT !.username = Identity(stored[i])]
  BY DEF Loaded
<1>3. ASSUME NEW a \in Alerts
      PROVE  LET b == [a EXCEPT !.username = Identity(a)]
             IN  /\ b.username = Identity(a) /\ Identity(b) = Identity(a)
                 /\ AlertRef(b) = AlertRef(a) /\ EventStart(b) = EventStart(a)
                 /\ EventEnd(b) = EventEnd(a)
  <2> DEFINE b == [a EXCEPT !.username = Identity(a)]
  <2>1. a \in [rule : STRING, key : STRING, username : STRING, auid : Int,
               severity : Severities,
               first : Int, last : Int \union {NoTime}, valid : BOOLEAN]
    BY AlertAssumption DEF Severities
  <2>2. /\ b.username = Identity(a) /\ b.auid = a.auid
        /\ b.rule = a.rule /\ b.key = a.key /\ b.first = a.first /\ b.last = a.last
    BY <2>1
  <2> HIDE DEF b
  <2>3. Identity(b) = IF Identity(a) # NoUser THEN Identity(a) ELSE UsernameOf(a.auid)
    BY <2>2 DEF Identity
  <2>4. Identity(a) = NoUser => UsernameOf(a.auid) = NoUser
    BY DEF Identity
  <2>5. Identity(b) = Identity(a)
    BY <2>3, <2>4
  <2>6. AlertRef(b) = AlertRef(a) /\ EventStart(b) = EventStart(a) /\ EventEnd(b) = EventEnd(a)
    BY <2>2 DEF AlertRef, EventStart, EventEnd
  <2> QED
    BY <2>2, <2>5, <2>6 DEF b
<1>4. Listing(Loaded)
  <2>1. ASSUME NEW i \in DOMAIN Loaded
        PROVE  WellTimed(Loaded[i])
    <3>1. stored[i] \in Alerts
      BY <1>1, <1>2
    <3>2. WellTimed([stored[i] EXCEPT !.username = Identity(stored[i])])
      BY <3>1, AlertFacts
    <3> QED
      BY <1>2, <3>2
  <2> QED
    BY <1>1, <1>2, <2>1 DEF Listing
<1> QED
  BY <1>1, <1>2, <1>3, <1>4

LEMMA NewIncidentsTold ==
    ASSUME CorrelationTypes, NEW incident \in Incidents(Loaded)
    PROVE  Told(incident)
<1>1. /\ Listing(Loaded) /\ DOMAIN Loaded \subseteq DOMAIN stored
      /\ \A i \in DOMAIN Loaded :
            /\ Loaded[i].username = Identity(stored[i])
            /\ AlertRef(Loaded[i]) = AlertRef(stored[i])
            /\ EventStart(Loaded[i]) = EventStart(stored[i])
            /\ EventEnd(Loaded[i]) = EventEnd(stored[i])
  BY LoadedFacts
<1>2. PICK places : Story(incident, places, Loaded) /\ OneUser(incident, places, Loaded)
  BY <1>1, StoryFacts
<1> DEFINE n == Len(incident.chain)
<1>3. /\ n \in Nat /\ n > 1 /\ DOMAIN incident.chain = 1 .. n
      /\ places \in [1 .. n -> DOMAIN Loaded]
      /\ incident.parent = AlertRef(Loaded[places[n]])
      /\ \A c \in 1 .. n : incident.chain[c] = AlertRef(Loaded[places[c]])
      /\ \A c \in 1 .. n - 1 :
            /\ EventStart(Loaded[places[c]]) <= EventStart(Loaded[places[c + 1]])
            /\ EndedBefore(Loaded[places[c]], Loaded[places[n]])
  BY <1>2 DEF Story
<1> HIDE DEF n
<1>4. /\ n \in 1 .. n
      /\ \A c \in 1 .. n - 1 : c \in 1 .. n /\ c + 1 \in 1 .. n
  BY <1>3
<1>5. \A c \in 1 .. n : places[c] \in DOMAIN Loaded
  BY <1>3
<1>6. places \in [1 .. n -> DOMAIN stored]
  BY <1>1, <1>3
<1>7. /\ incident.parent = AlertRef(stored[places[n]])
      /\ \A c \in 1 .. n : incident.chain[c] = AlertRef(stored[places[c]])
  BY <1>1, <1>3, <1>4, <1>5
<1>8. ASSUME NEW c \in 1 .. n - 1
      PROVE  /\ EventStart(stored[places[c]]) <= EventStart(stored[places[c + 1]])
             /\ EndedBefore(stored[places[c]], stored[places[n]])
  BY <1>1, <1>3, <1>4, <1>5 DEF EndedBefore
<1>9. Story(incident, places, stored)
  BY <1>3, <1>6, <1>7, <1>8 DEF Story, n
<1>10. Named(incident, places)
  BY <1>1, <1>2, <1>3, <1>4, <1>5 DEF OneUser, Named, n
<1> QED
  BY <1>9, <1>10 DEF Told

-----------------------------------------------------------------------------
(* Steps.                                                                  *)

(* An account keeps its uid and its name as long as it is there.           *)
LEMMA UsersKept ==
    ASSUME \/ UNCHANGED passwd
           \/ \E account \in Accounts : Useradd(account)
    PROVE  \A a : Identity(a) # NoUser => Identity(a)' = Identity(a)
<1>1. CASE UNCHANGED passwd
  BY <1>1 DEF Identity, UsernameOf
<1>2. CASE \E account \in Accounts : Useradd(account)
  <2>1. PICK account \in Accounts : Useradd(account)
    BY <1>2
  <2>2. ASSUME NEW uid, UsernameOf(uid) # NoUser
        PROVE  UsernameOf(uid)' = UsernameOf(uid)
    <3>1. {entry[2] : entry \in {e \in passwd : e[1] = uid}} # {}
      BY <2>2 DEF UsernameOf
    <3>2. account[1] # uid
      BY <2>1, <3>1 DEF Useradd
    <3>3. {e \in passwd' : e[1] = uid} = {e \in passwd : e[1] = uid}
      BY <2>1, <3>2 DEF Useradd
    <3> QED
      BY <3>3 DEF UsernameOf
  <2>3. ASSUME NEW a, Identity(a) # NoUser
        PROVE  Identity(a)' = Identity(a)
    BY <2>2, <2>3 DEF Identity
  <2> QED
    BY <2>3
<1> QED
  BY <1>1, <1>2

(* Only userdel takes anything from what a run loads.                      *)
LEMMA LoadedGrows ==
    ASSUME CorrelationTypes, CorrelationTypes',
           \/ UNCHANGED <<stored, passwd>>
           \/ \E a \in Alerts : StoreAlert(a)
           \/ \E account \in Accounts : Useradd(account)
    PROVE  Grows(Loaded, Loaded')
<1>1. /\ Listing(Loaded) /\ DOMAIN Loaded \subseteq DOMAIN stored
      /\ DOMAIN stored \subseteq DOMAIN stored'
      /\ \A i \in DOMAIN stored : stored[i] \in Alerts /\ stored'[i] = stored[i]
  <2>1. CASE UNCHANGED stored
    BY <2>1, LoadedFacts DEF CorrelationTypes
  <2>2. CASE \E a \in Alerts : StoreAlert(a)
    <3>1. PICK a \in Alerts : stored' = Append(stored, a)
      BY <2>2 DEF StoreAlert
    <3>2. /\ DOMAIN stored \subseteq DOMAIN stored'
          /\ \A i \in DOMAIN stored : stored[i] \in Alerts /\ stored'[i] = stored[i]
      BY <3>1 DEF CorrelationTypes
    <3> QED
      BY <3>2, LoadedFacts
  <2> QED
    BY <2>1, <2>2 DEF Useradd
<1>2. Listing(Loaded)'
  BY LoadedFacts, PTL
<1>3. \A a : Identity(a) # NoUser => Identity(a)' = Identity(a)
  BY UsersKept DEF StoreAlert
<1>4. ASSUME NEW i \in DOMAIN Loaded
      PROVE  i \in DOMAIN Loaded' /\ SameAlert(Loaded[i], Loaded'[i])
  <2>1. /\ i \in DOMAIN stored /\ stored[i].valid
        /\ Loaded[i] = [stored[i] EXCEPT !.username = Identity(stored[i])]
    BY DEF Loaded
  <2>2. PICK a \in Alerts : a = stored[i] /\ a = stored'[i] /\ i \in DOMAIN stored'
    BY <1>1, <2>1
  <2>3. Loaded[i] = [a EXCEPT !.username = Identity(a)]
    BY <2>1, <2>2
  <2>4. i \in DOMAIN Loaded' /\ Loaded'[i] = [a EXCEPT !.username = Identity(a)']
    BY <2>1, <2>2 DEF Loaded, Identity, UsernameOf
  <2>5. PICK was, is : was = Identity(a) /\ is = Identity(a)'
    OBVIOUS
  <2>6. was # NoUser => is = was
    BY <1>3, <2>5
  <2>7. SameAlert([a EXCEPT !.username = was], [a EXCEPT !.username = is])
    <3>1. a \in [rule : STRING, key : STRING, username : STRING, auid : Int,
                 severity : Severities,
                 first : Int, last : Int \union {NoTime}, valid : BOOLEAN]
      BY AlertAssumption DEF Severities
    <3> QED
      BY <2>6, <3>1 DEF SameAlert, AlertRef, EventStart, EventEnd
  <2> QED
    BY <2>3, <2>4, <2>5, <2>7
<1> QED
  BY <1>1, <1>2, <1>4 DEF Grows

LEMMA CorrelationTypesKept ==
    CorrelationTypes /\ [CorrelationNext]_correlationVars => CorrelationTypes'
<1> SUFFICES ASSUME CorrelationTypes, [CorrelationNext]_correlationVars
             PROVE  CorrelationTypes'
  OBVIOUS
<1>1. CASE UNCHANGED <<stored, removals>>
  BY <1>1 DEF CorrelationTypes
<1>2. ASSUME NEW a \in Alerts, StoreAlert(a)
      PROVE  CorrelationTypes'
  BY <1>2 DEF CorrelationTypes, StoreAlert
<1>3. ASSUME NEW account, Userdel(account)
      PROVE  CorrelationTypes'
  BY <1>3 DEF CorrelationTypes, Userdel
<1> QED
  BY <1>1, <1>2, <1>3 DEF CorrelationNext, CorrelationRun, Useradd, correlationVars

LEMMA UniqueKept ==
    ASSUME CorrelationTypes, UniqueAlerts, [CorrelationNext]_correlationVars
    PROVE  UniqueAlerts'
<1>1. CASE UNCHANGED stored
  BY <1>1 DEF UniqueAlerts
<1>2. ASSUME NEW a \in Alerts, StoreAlert(a)
      PROVE  UniqueAlerts'
  <2>1. /\ \A i \in DOMAIN stored : AlertRef(stored[i]) # AlertRef(a)
        /\ stored' = Append(stored, a)
    BY <1>2 DEF StoreAlert
  <2>2. /\ DOMAIN stored' = DOMAIN stored \union {Len(stored) + 1}
        /\ stored'[Len(stored) + 1] = a
        /\ \A i \in DOMAIN stored : stored'[i] = stored[i]
    BY <2>1 DEF CorrelationTypes
  <2>3. ASSUME NEW i \in DOMAIN stored', NEW j \in DOMAIN stored',
               AlertRef(stored'[i]) = AlertRef(stored'[j])
        PROVE  i = j
    BY <2>1, <2>2, <2>3 DEF UniqueAlerts
  <2>4. \A ref : AlertRef(ref)' = AlertRef(ref)
    BY DEF AlertRef
  <2> QED
    BY <2>3 DEF UniqueAlerts, AlertRef
<1> QED
  BY <1>1, <1>2 DEF CorrelationNext, CorrelationRun, Useradd, Userdel, correlationVars

(* An incident that is told stays told.                                    *)
LEMMA ToldKept ==
    ASSUME CorrelationTypes, [CorrelationNext]_correlationVars,
           NEW incident, Told(incident)
    PROVE  Told(incident)'
<1>1. PICK places : Story(incident, places, stored) /\ (removals = 0 => Named(incident, places))
  BY DEF Told
<1>2. /\ DOMAIN stored \subseteq DOMAIN stored'
      /\ \A i \in DOMAIN stored : stored'[i] = stored[i]
  <2>1. CASE UNCHANGED stored
    BY <2>1
  <2>2. ASSUME NEW a \in Alerts, StoreAlert(a)
        PROVE  /\ DOMAIN stored \subseteq DOMAIN stored'
               /\ \A i \in DOMAIN stored : stored'[i] = stored[i]
    BY <2>2 DEF StoreAlert, CorrelationTypes
  <2> QED
    BY <2>1, <2>2 DEF CorrelationNext, CorrelationRun, Useradd, Userdel, correlationVars
<1> DEFINE n == Len(incident.chain)
<1>3. /\ n \in Nat /\ n > 1 /\ DOMAIN incident.chain = 1 .. n
      /\ places \in [1 .. n -> DOMAIN stored]
      /\ incident.parent = AlertRef(stored[places[n]])
      /\ \A c \in 1 .. n : incident.chain[c] = AlertRef(stored[places[c]])
      /\ \A c \in 1 .. n - 1 :
            /\ EventStart(stored[places[c]]) <= EventStart(stored[places[c + 1]])
            /\ EndedBefore(stored[places[c]], stored[places[n]])
  BY <1>1 DEF Story
<1> HIDE DEF n
<1>4. /\ n \in 1 .. n
      /\ \A c \in 1 .. n - 1 : c \in 1 .. n /\ c + 1 \in 1 .. n
  BY <1>3
<1>5. \A c \in 1 .. n : places[c] \in DOMAIN stored /\ stored'[places[c]] = stored[places[c]]
  BY <1>2, <1>3
<1>6. places \in [1 .. n -> DOMAIN stored']
  BY <1>2, <1>3
<1>7. Story(incident, places, stored')
  BY <1>3, <1>4, <1>5, <1>6 DEF Story, n
<1>8. ASSUME removals' = 0
      PROVE  Named(incident, places)'
  <2>1. \A account : ~ Userdel(account)
    BY <1>8 DEF Userdel, CorrelationTypes
  <2>2. removals = 0 /\ \A a : Identity(a) # NoUser => Identity(a)' = Identity(a)
    <3>1. removals = 0
      BY <1>8, <2>1 DEF CorrelationNext, CorrelationRun, StoreAlert, Useradd, correlationVars
    <3>2. UNCHANGED passwd \/ \E account \in Accounts : Useradd(account)
      BY <2>1 DEF CorrelationNext, CorrelationRun, StoreAlert, correlationVars
    <3> QED
      BY <3>1, <3>2, UsersKept
  <2>3. \A c \in 1 .. n : /\ Identity(stored[places[c]]) # NoUser
                          /\ Identity(stored[places[c]]) = Identity(stored[places[n]])
    BY <1>1, <1>3, <2>2 DEF Named, n
  <2>4. ASSUME NEW c \in 1 .. n
        PROVE  /\ Identity(stored[places[c]])' = Identity(stored[places[c]])
    <3>1. PICK a : a = stored[places[c]]
      OBVIOUS
    <3>2. stored'[places[c]] = a /\ Identity(a) # NoUser
      BY <1>5, <2>3, <3>1
    <3>3. Identity(a)' = Identity(a)
      BY <2>2, <3>2
    <3>4. Identity(stored[places[c]])' = Identity(a)'
      BY <3>2 DEF Identity, UsernameOf
    <3> QED
      BY <3>1, <3>3, <3>4
  <2>5. \A c \in 1 .. n : /\ Identity(stored[places[c]])' # NoUser
                          /\ Identity(stored[places[c]])' = Identity(stored[places[n]])'
    BY <1>4, <2>3, <2>4
  <2> QED
    BY <1>3, <2>5 DEF Named, n
<1> QED
  BY <1>7, <1>8 DEF Told

LEMMA RunFacts ==
    ASSUME CorrelationTypes, CorrelationRun
    PROVE  Incidents(Loaded)' = Incidents(Loaded)
<1>1. UNCHANGED <<stored, passwd>>
  BY DEF CorrelationRun
<1>2. \A a : Identity(a)' = Identity(a)
  BY <1>1 DEF Identity, UsernameOf
<1>3. Loaded' = Loaded
  BY <1>1, <1>2 DEF Loaded, Identity, UsernameOf
<1> QED
  BY <1>3

LEMMA WeakeningKept ==
    ASSUME CorrelationInvariant, [CorrelationNext]_correlationVars
    PROVE  NothingWeakens'
<1>1. CorrelationTypes /\ CorrelationTypes' /\ Listing(Loaded)
  BY CorrelationTypesKept, LoadedFacts DEF CorrelationInvariant
<1>2. CASE CorrelationRun
  <2>1. derived' = Incidents(Loaded) /\ Incidents(Loaded)' = Incidents(Loaded)
    BY <1>1, <1>2, RunFacts DEF CorrelationRun
  <2>2. ASSUME NEW incident \in Incidents(Loaded)
        PROVE  Graded(incident) /\ AsStrong(incident, incident)
    <3>1. Graded(incident)
      <4>1. PICK k \in DOMAIN Loaded :
               /\ Loaded[k].rule \in DOMAIN CORRELATION_RULES
               /\ DOMAIN GroupMatches(Loaded, Loaded[k]) # {}
               /\ incident = BuildIncident(Loaded[k], GroupMatches(Loaded, Loaded[k]))
        BY <1>1, IncidentsFacts
      <4>2. PICK matches : matches = GroupMatches(Loaded, Loaded[k])
        OBVIOUS
      <4> QED
        BY <1>1, <4>1, <4>2, GradeFacts
    <3> QED
      BY <3>1 DEF AsStrong, Graded
  <2> QED
    BY <2>1, <2>2 DEF NothingWeakens
<1>3. CASE ~ CorrelationRun
  <2>1. derived' = derived
    BY <1>3 DEF CorrelationNext, StoreAlert, Useradd, Userdel, correlationVars
  <2>2. ASSUME NEW incident \in derived
        PROVE  Graded(incident)
    BY DEF CorrelationInvariant, NothingWeakens
  <2>3. ASSUME NEW incident \in derived, removals' = 0
        PROVE  \E next \in Incidents(Loaded)' : AsStrong(next, incident)
    <3>1. \A account : ~ Userdel(account)
      BY <1>1, <2>3 DEF Userdel, CorrelationTypes
    <3>2. removals = 0
      BY <1>3, <2>3, <3>1 DEF CorrelationNext, StoreAlert, Useradd, correlationVars
    <3>3. \/ UNCHANGED <<stored, passwd>>
          \/ \E a \in Alerts : StoreAlert(a)
          \/ \E account \in Accounts : Useradd(account)
      BY <1>3, <3>1 DEF CorrelationNext, correlationVars
    <3>4. Grows(Loaded, Loaded')
      BY <1>1, <3>3, LoadedGrows
    <3>5. PICK old, new : old = Loaded /\ new = Loaded'
      OBVIOUS
    <3>6. PICK next \in Incidents(old) : AsStrong(next, incident)
      BY <3>2, <3>5 DEF CorrelationInvariant, NothingWeakens
    <3>7. PICK stronger \in Incidents(new) : AsStrong(stronger, next)
      BY <3>4, <3>5, <3>6, IncidentsGrow
    <3>8. Graded(incident) /\ Graded(next) /\ Graded(stronger)
      <4>1. Listing(old) /\ Listing(new)
        BY <3>4, <3>5 DEF Grows
      <4>2. ASSUME NEW list, Listing(list), NEW x \in Incidents(list)
            PROVE  Graded(x)
        <5>1. PICK k \in DOMAIN list :
                 /\ list[k].rule \in DOMAIN CORRELATION_RULES
                 /\ DOMAIN GroupMatches(list, list[k]) # {}
                 /\ x = BuildIncident(list[k], GroupMatches(list, list[k]))
          BY <4>2, IncidentsFacts
        <5>2. PICK matches : matches = GroupMatches(list, list[k])
          OBVIOUS
        <5> QED
          BY <4>2, <5>1, <5>2, GradeFacts
      <4> QED
        BY <2>2, <3>6, <3>7, <4>1, <4>2
    <3>9. AsStrong(stronger, incident)
      BY <3>6, <3>7, <3>8 DEF AsStrong, Graded
    <3>10. Incidents(Loaded)' = Incidents(new)
      BY <3>5
    <3> QED
      BY <3>7, <3>9, <3>10
  <2> QED
    BY <2>1, <2>2, <2>3 DEF NothingWeakens
<1> QED
  BY <1>2, <1>3

LEMMA CorrelationInvariantKept ==
    CorrelationInvariant /\ [CorrelationNext]_correlationVars => CorrelationInvariant'
<1> SUFFICES ASSUME CorrelationInvariant, [CorrelationNext]_correlationVars
             PROVE  CorrelationInvariant'
  OBVIOUS
<1>1. CorrelationTypes /\ CorrelationTypes' /\ UniqueAlerts' /\ NothingWeakens'
  BY CorrelationTypesKept, UniqueKept, WeakeningKept DEF CorrelationInvariant
<1>2. \A incident \in saved : Told(incident)'
  BY <1>1, ToldKept DEF CorrelationInvariant
<1>3. CASE CorrelationRun
  <2>1. /\ derived' = Incidents(Loaded) /\ Incidents(Loaded)' = Incidents(Loaded)
        /\ saved' = saved \union derived' /\ UNCHANGED <<stored, passwd, removals>>
    BY <1>1, <1>3, RunFacts DEF CorrelationRun
  <2>2. ASSUME NEW incident \in Incidents(Loaded)
        PROVE  Told(incident)'
    BY <1>1, <2>2, NewIncidentsTold, ToldKept
  <2>3. \A incident \in saved' : Told(incident)'
    BY <1>2, <2>1, <2>2
  <2> QED
    BY <1>1, <2>1, <2>3 DEF CorrelationInvariant
<1>4. CASE ~ CorrelationRun
  <2>1. saved' = saved
    BY <1>4 DEF CorrelationNext, StoreAlert, Useradd, Userdel, correlationVars
  <2>2. CASE UNCHANGED correlationVars
    <3>1. Loaded' = Loaded
      BY <2>2 DEF Loaded, Identity, UsernameOf, correlationVars
    <3>2. Incidents(Loaded)' = Incidents(Loaded)
      BY <3>1
    <3>3. current' => derived' = Incidents(Loaded)'
      BY <2>2, <3>2 DEF CorrelationInvariant, correlationVars
    <3> QED
      BY <1>1, <1>2, <2>1, <3>3 DEF CorrelationInvariant
  <2>3. CASE ~ UNCHANGED correlationVars
    <3>1. current' = FALSE
      BY <1>4, <2>3 DEF CorrelationNext, StoreAlert, Useradd, Userdel
    <3> QED
      BY <1>1, <1>2, <2>1, <3>1 DEF CorrelationInvariant
  <2> QED
    BY <2>2, <2>3
<1> QED
  BY <1>3, <1>4

LEMMA CorrelationInvariantHolds == CorrelationSpec => []CorrelationInvariant
<1>1. CorrelationInit => CorrelationInvariant
  BY DEF CorrelationInit, CorrelationInvariant, CorrelationTypes, UniqueAlerts,
         NothingWeakens
<1> QED
  BY <1>1, CorrelationInvariantKept, PTL DEF CorrelationSpec

-----------------------------------------------------------------------------
(* The properties.                                                         *)

(* Every incident tells one story, whatever was stored after it was built  *)
(* (build_incident, matching).                                             *)
THEOREM ChainsTellOneStory == CorrelationSpec => []ChainsHold
<1>1. ASSUME CorrelationInvariant
      PROVE  ChainsHold
  <2>1. SUFFICES ASSUME NEW incident \in saved
                 PROVE  LET links == [c \in DOMAIN incident.chain |-> AlertOf(incident.chain[c])]
                            parent == links[Len(links)]
                        IN  /\ AlertRef(parent) = incident.parent
                            /\ Len(links) > 1
                            /\ \A c \in 1 .. Len(links) - 1 :
                                  /\ EventStart(links[c]) <= EventStart(links[c + 1])
                                  /\ EventEnd(links[c]) < EventStart(parent)
                                  /\ EventStart(parent) - EventEnd(links[c]) <= WindowHours
                                  /\ removals = 0 => Identity(links[c]) = Identity(parent)
    BY DEF ChainsHold
  <2> DEFINE links == [c \in DOMAIN incident.chain |-> AlertOf(incident.chain[c])]
             n == Len(incident.chain)
  <2>2. PICK places : Story(incident, places, stored) /\ (removals = 0 => Named(incident, places))
    BY <1>1 DEF CorrelationInvariant, Told
  <2>3. /\ n \in Nat /\ n > 1 /\ DOMAIN incident.chain = 1 .. n
        /\ places \in [1 .. n -> DOMAIN stored]
        /\ incident.parent = AlertRef(stored[places[n]])
        /\ \A c \in 1 .. n : incident.chain[c] = AlertRef(stored[places[c]])
        /\ \A c \in 1 .. n - 1 :
              /\ EventStart(stored[places[c]]) <= EventStart(stored[places[c + 1]])
              /\ EndedBefore(stored[places[c]], stored[places[n]])
    BY <2>2 DEF Story
  <2>4. removals = 0 => \A c \in DOMAIN incident.chain :
                           Identity(stored[places[c]]) = Identity(stored[places[n]])
    BY <2>2 DEF Named
  <2> HIDE DEF n
  <2>5. ASSUME NEW i \in DOMAIN stored
        PROVE  AlertOf(AlertRef(stored[i])) = stored[i]
    BY <1>1 DEF CorrelationInvariant, UniqueAlerts, AlertOf
  <2>6. DOMAIN links = 1 .. n /\ \A c \in 1 .. n : links[c] = stored[places[c]]
    <3>1. \A c \in 1 .. n : places[c] \in DOMAIN stored
      BY <2>3
    <3> QED
      BY <2>3, <2>5, <3>1
  <2>7. links = [c \in 1 .. n |-> links[c]]
    BY <2>3
  <2> HIDE DEF links
  <2>8. Len(links) = n
    BY <2>3, <2>6, <2>7, ChainLength
  <2>9. n \in 1 .. n /\ \A c \in 1 .. n - 1 : c \in 1 .. n /\ c + 1 \in 1 .. n
    BY <2>3
  <2>10. AlertRef(links[n]) = incident.parent
    BY <2>3, <2>6, <2>9
  <2>11. ASSUME NEW c \in 1 .. n - 1
         PROVE  /\ EventStart(links[c]) <= EventStart(links[c + 1])
                /\ EventEnd(links[c]) < EventStart(links[n])
                /\ EventStart(links[n]) - EventEnd(links[c]) <= WindowHours
                /\ removals = 0 => Identity(links[c]) = Identity(links[n])
    BY <2>3, <2>4, <2>6, <2>9 DEF EndedBefore
  <2> QED
    BY <2>3, <2>8, <2>10, <2>11 DEF links
<1> QED
  BY <1>1, CorrelationInvariantHolds, PTL

(* A run surfaces every anchor that something earlier speaks for, at least *)
(* as high as the strongest of it (run_correlation, highest_severity).     *)
THEOREM NoIncidentUnderstated == CorrelationSpec => []NothingUnderstated
<1>1. ASSUME CorrelationInvariant
      PROVE  NothingUnderstated
  <2>1. SUFFICES ASSUME current,
                        NEW anchor \in ToSet(Loaded), NEW earlier \in ToSet(Loaded),
                        anchor.rule \in SEVERITY_OPT_IN_RULES,
                        Identity(earlier) # NoUser,
                        Identity(earlier) = Identity(anchor),
                        EventEnd(earlier) < EventStart(anchor),
                        EventEnd(earlier) + WindowHours >= EventStart(anchor),
                        NEW group \in ToSet(CORRELATION_RULES[anchor.rule]),
                        NEW tier \in ToSet(group), tier.rule = earlier.rule
                 PROVE  \E incident \in IncidentsOf(AlertRef(anchor), derived) :
                           Rank(incident.severity) >= Rank(tier.severity)
    BY DEF NothingUnderstated
  <2>2. /\ derived = Incidents(Loaded) /\ Listing(Loaded)
        /\ \A i \in DOMAIN Loaded : Loaded[i].username = Identity(Loaded[i])
    BY <1>1, <2>1, LoadedFacts DEF CorrelationInvariant
  <2>3. PICK k \in DOMAIN Loaded, j \in DOMAIN Loaded :
           anchor = Loaded[k] /\ earlier = Loaded[j]
    BY DEF ToSet
  <2>4. WellTimed(anchor) /\ WellTimed(earlier)
    BY <2>2, <2>3 DEF Listing
  <2>5. Precedes(earlier, anchor)
    <3>1. EventStart(anchor) - EventEnd(earlier) <= WindowHours
      <4>1. /\ EventStart(anchor) \in Int /\ EventEnd(earlier) \in Int
            /\ WindowHours \in Nat
        BY <2>4, CorrelationBoundAssumption DEF WellTimed
      <4> QED
        BY <2>1, <4>1
    <3> QED
      BY <2>1, <2>2, <2>3, <2>4, <3>1 DEF Precedes
  <2>6. anchor.rule \in DOMAIN CORRELATION_RULES
    BY <2>1, RulesAssumption
  <2>7. PICK groups : groups = CORRELATION_RULES[anchor.rule]
    OBVIOUS
  <2>8. PICK g \in DOMAIN groups, t \in DOMAIN group :
           group = groups[g] /\ tier = group[t]
    BY <2>1, <2>7 DEF ToSet
  <2>9. Ranked(group)
    BY <2>6, <2>7, <2>8, GroupFacts
  <2>10. t \in MatchingTiers(Loaded, anchor, group)
    <3>1. j \in Candidates(Loaded, anchor, tier.rule)
      BY <2>1, <2>2, <2>3, <2>4, <2>5, CandidateFacts
    <3> QED
      BY <2>8, <3>1 DEF MatchingTiers
  <2>11. Rank(tier.severity) <= Rank(GroupMatch(Loaded, anchor, group).severity)
    BY <2>2, <2>4, <2>8, <2>9, <2>10, GroupMatchFacts
  <2>12. PICK matches : matches = GroupMatches(Loaded, anchor)
    OBVIOUS
  <2>13. g \in DOMAIN matches /\ matches[g] = GroupMatch(Loaded, anchor, group)
    BY <2>7, <2>8, <2>10, <2>12 DEF GroupMatches
  <2>14. PICK incident : incident = BuildIncident(anchor, matches)
    OBVIOUS
  <2>15. /\ Graded(incident) /\ incident.parent = AlertRef(anchor)
         /\ Rank(matches[g].severity) <= Rank(incident.severity)
         /\ Rank(matches[g].severity) \in Nat
    BY <2>1, <2>2, <2>3, <2>6, <2>12, <2>13, <2>14, GradeFacts
  <2>16. incident \in IncidentsOf(AlertRef(anchor), derived)
    BY <2>2, <2>3, <2>6, <2>12, <2>13, <2>14, <2>15 DEF Incidents, IncidentsOf
  <2>17. Rank(tier.severity) \in Nat
    <3>1. tier.severity \in Severities
      BY <2>8, <2>9 DEF Ranked
    <3> QED
      BY <3>1, RankFacts
  <2>18. Rank(incident.severity) >= Rank(tier.severity)
    BY <2>11, <2>13, <2>15, <2>17 DEF Graded
  <2> QED
    BY <2>16, <2>18
<1> QED
  BY <1>1, CorrelationInvariantHolds, PTL

(* Until an account is deleted no run derives less for a parent than the   *)
(* run before it (run_correlation, build_incident).                        *)
THEOREM IncidentsNeverWeakened == CorrelationSpec => NeverWeakened
<1> DEFINE Weakens ==
        removals = 0 =>
          \A incident \in derived :
              \E next \in IncidentsOf(incident.parent, derived') :
                  /\ Rank(next.severity) >= Rank(incident.severity)
                  /\ Len(next.chain) >= Len(incident.chain)
<1>1. ASSUME CorrelationInvariant, CorrelationNext
      PROVE  Weakens
  <2>1. SUFFICES ASSUME removals = 0, NEW incident \in derived
                 PROVE  \E next \in IncidentsOf(incident.parent, derived') :
                           /\ Rank(next.severity) >= Rank(incident.severity)
                           /\ Len(next.chain) >= Len(incident.chain)
    OBVIOUS
  <2>2. Graded(incident) /\ \E next \in Incidents(Loaded) : AsStrong(next, incident)
    BY <1>1, <2>1 DEF CorrelationInvariant, NothingWeakens
  <2>3. CASE derived' = Incidents(Loaded)
    BY <2>2, <2>3 DEF AsStrong, IncidentsOf
  <2>4. CASE derived' = derived
    BY <2>2, <2>4 DEF Graded, IncidentsOf
  <2> QED
    BY <1>1, <2>3, <2>4 DEF CorrelationNext, CorrelationRun, StoreAlert, Useradd, Userdel
<1>2. ASSUME CorrelationInvariant, [CorrelationNext]_correlationVars
      PROVE  [Weakens]_correlationVars
  BY <1>1, <1>2
<1> QED
  BY <1>2, CorrelationInvariantHolds, PTL DEF CorrelationSpec, NeverWeakened

(* What a file of active incidents says agrees with what happened to them. *)
Truthful(active, ages, closed) ==
    \A k \in DOMAIN active :
        /\ active[k].closed <=> k \in closed
        /\ k \in DOMAIN ages => active[k].age = ages[k]

Archivable(archive, ages, closed) ==
    \A k \in DOMAIN archive : k \in closed /\ k \in DOMAIN ages /\ Ripe(archive[k])

(* Two parts that lose no known incident and have none twice; ages are the *)
(* known incidents, closed those the analyst has closed.                   *)
Sound(active, archive, ages, closed) ==
    /\ DOMAIN ages \subseteq DOMAIN active \union DOMAIN archive
    /\ DOMAIN active \intersect DOMAIN archive = {}
    /\ Truthful(active, ages, closed)
    /\ Archivable(archive, ages, closed)

(* Where run r stands, if no other is under way: before its first open the *)
(* files are sound; it has seen what is on disk; from its reads to its last*)
(* close its plan is sound; a file it writes is empty until it closes it;  *)
(* and the first file is as planned when it is at the second.              *)
Orderly(r) ==
    /\ shut \subseteq DOMAIN known
    /\ ~Writing(r) => Sound(Active, Archive, known, shut) /\ DOMAIN Active \subseteq DOMAIN known
    /\ pc[r] = "read" /\ at[r] = "archive" => seen[r] = Active
    /\ pc[r] # "read" => Sound(plan[r]["active"], plan[r]["archive"], known, shut)
    /\ pc[r] \in {"lock", "dump", "close"} =>
          file[at[r]] = [status |-> "empty", data |-> NoData]
    /\ pc[r] # "read" /\ at[r] = "archive" =>
          Active = plan[r]["active"] /\ DOMAIN Active \subseteq DOMAIN known

(* At most one run is under way.                                           *)
OneRun == \A q, r \in Runs : Idle(q) \/ Idle(r) \/ q = r

AllOrderly ==
    /\ OneRun
    /\ \A r \in Runs : (\A q \in Runs : q # r => Idle(q)) => Orderly(r)

StoreInvariant == TypeOK /\ (mishaps = {} => AllOrderly)

-----------------------------------------------------------------------------
(* Operators on the data of a file.                                        *)

LEMMA BoundsAreNumbers ==
    /\ ArchiveDelay \in Nat /\ MaxKills \in Nat /\ Ages \subseteq Nat /\ 0 \in Ages
    /\ None \notin Ages
BY BoundAssumption, NoneAssumption DEF Ages

LEMMA DataFacts ==
    ASSUME NEW data \in Data
    PROVE  /\ DOMAIN data \in SUBSET Keys
           /\ \A k \in DOMAIN data : data[k] \in Incident
BY DEF Data

LEMMA IsData ==
    ASSUME NEW K \in SUBSET Keys, NEW data, data \in [K -> Incident]
    PROVE  data \in Data
BY DEF Data

LEMMA NoDataFacts == NoData \in Data /\ DOMAIN NoData = {}
<1>1. NoData \in [{} -> Incident]
  BY DEF NoData
<1> QED
  BY <1>1, IsData DEF NoData

LEMMA OlderType ==
    /\ \A a \in Ages : Older(a) \in Ages
    /\ \A a \in Ages \union {None} : Older(a) \in Ages \union {None}
<1>1. \A a \in Ages : Older(a) \in Ages
  BY BoundsAreNumbers DEF Older, Ages
<1> QED
  BY <1>1 DEF Older

(* Ageing keeps keys and closed flags, and what was ripe.                  *)
LEMMA AgedFacts ==
    ASSUME NEW data \in Data
    PROVE  /\ Aged(data) \in Data
           /\ DOMAIN Aged(data) = DOMAIN data
           /\ \A k \in DOMAIN data :
                 /\ Aged(data)[k].closed = data[k].closed
                 /\ Aged(data)[k].age = Older(data[k].age)
                 /\ Ripe(data[k]) => Ripe(Aged(data)[k])
<1>1. DOMAIN Aged(data) = DOMAIN data
  BY DEF Aged
<1>2. ASSUME NEW k \in DOMAIN data
      PROVE  /\ Aged(data)[k] \in Incident
             /\ Aged(data)[k].closed = data[k].closed
             /\ Aged(data)[k].age = Older(data[k].age)
             /\ Aged(data)[k].closedAge = Older(data[k].closedAge)
             /\ data[k].closedAge \in Ages \union {None}
  <2>1. data[k] \in Incident
    BY DataFacts
  <2> QED
    BY <2>1, OlderType DEF Aged, Incident
<1>3. ASSUME NEW k \in DOMAIN data, Ripe(data[k])
      PROVE  Ripe(Aged(data)[k])
  <2>1. data[k].closedAge = ArchiveDelay
    BY <1>2, <1>3, BoundsAreNumbers DEF Ripe, Ages
  <2> QED
    BY <1>2, <1>3, <2>1 DEF Ripe, Older
<1>4. Aged(data) \in Data
  BY <1>1, <1>2, DataFacts, IsData DEF Aged
<1> QED
  BY <1>1, <1>2, <1>3, <1>4

(* merge_incidents adds what is new and stamps what is closed.             *)
LEMMA MergedFacts ==
    ASSUME NEW new \in SUBSET Keys, NEW existing \in Data
    PROVE  /\ Merged(new, existing) \in Data
           /\ DOMAIN Merged(new, existing) = new \union DOMAIN existing
           /\ \A k \in DOMAIN existing :
                 /\ Merged(new, existing)[k].closed = existing[k].closed
                 /\ Merged(new, existing)[k].age = existing[k].age
           /\ \A k \in new \ DOMAIN existing : Merged(new, existing)[k] = Fresh
<1>1. DOMAIN Merged(new, existing) = new \union DOMAIN existing
  BY DEF Merged
<1>2. Fresh \in Incident
  BY BoundsAreNumbers DEF Fresh, Incident
<1>3. ASSUME NEW k \in DOMAIN existing
      PROVE  /\ Merged(new, existing)[k] \in Incident
             /\ Merged(new, existing)[k].closed = existing[k].closed
             /\ Merged(new, existing)[k].age = existing[k].age
  <2>1. existing[k] \in Incident
    BY DataFacts
  <2> QED
    BY <2>1, BoundsAreNumbers DEF Merged, Incident
<1>4. \A k \in new \ DOMAIN existing : Merged(new, existing)[k] = Fresh
  BY DEF Merged
<1>5. Merged(new, existing) \in Data
  <2>1. \A k \in new \union DOMAIN existing : Merged(new, existing)[k] \in Incident
    BY <1>2, <1>3, <1>4
  <2>2. Merged(new, existing) \in [new \union DOMAIN existing -> Incident]
    BY <1>1, <2>1 DEF Merged
  <2> QED
    BY <2>2, DataFacts, IsData
<1> QED
  BY <1>1, <1>3, <1>4, <1>5

(* The incidents save_incidents splits.                                    *)
MergedNew(keys, active, archive) == Merged(keys \ DOMAIN archive, active)

(* The two parts of merged, the ripe incidents added to archive.           *)
SplitInto(active, archive, merged, old) ==
    /\ DOMAIN active = DOMAIN merged \ RipeKeys(merged)
    /\ \A k \in DOMAIN active : active[k] = merged[k]
    /\ DOMAIN archive = DOMAIN old \union RipeKeys(merged)
    /\ \A k \in DOMAIN old : archive[k] = old[k]
    /\ \A k \in RipeKeys(merged) \ DOMAIN old : archive[k] = merged[k]

(* What save_incidents writes.                                             *)
LEMMA PlannedFacts ==
    ASSUME NEW keys \in SUBSET Keys, NEW active \in Data, NEW archive \in Data
    PROVE  /\ Planned(keys, active, archive) \in [Files -> Data]
           /\ SplitInto(Planned(keys, active, archive)["active"],
                        Planned(keys, active, archive)["archive"],
                        MergedNew(keys, active, archive), archive)
<1> DEFINE merged == MergedNew(keys, active, archive)
           ripe   == RipeKeys(merged)
           kept   == Restrict(merged, DOMAIN merged \ ripe)
           moved  == Restrict(merged, ripe)
           parts  == Planned(keys, active, archive)
<1>1. merged \in Data
  BY MergedFacts DEF MergedNew
<1>2. DOMAIN merged \in SUBSET Keys /\ \A k \in DOMAIN merged : merged[k] \in Incident
  BY <1>1, DataFacts
<1>3. ripe \subseteq DOMAIN merged
  BY DEF RipeKeys
<1>4. parts = [f \in Files |-> IF f = "active" THEN kept ELSE Extended(archive, moved)]
  BY DEF Planned, MergedNew
<1> HIDE DEF merged, ripe, parts
<1>5. /\ DOMAIN kept = DOMAIN merged \ ripe
      /\ \A k \in DOMAIN merged \ ripe : kept[k] = merged[k]
      /\ DOMAIN moved = ripe
      /\ \A k \in ripe : moved[k] = merged[k]
  BY DEF Restrict
<1>6. kept \in Data
  <2>1. kept \in [DOMAIN merged \ ripe -> Incident]
    BY <1>2 DEF Restrict
  <2> QED
    BY <1>2, <2>1, IsData
<1> HIDE DEF kept, moved
<1>7. Extended(archive, moved) \in Data
  <2>1. ASSUME NEW k \in DOMAIN archive \union ripe
        PROVE  Extended(archive, moved)[k] \in Incident
    <3>1. CASE k \in DOMAIN archive
      BY <3>1, DataFacts DEF Extended
    <3>2. CASE k \in ripe \ DOMAIN archive
      <4>1. Extended(archive, moved)[k] = merged[k]
        BY <1>5, <3>2 DEF Extended
      <4> QED
        BY <1>2, <1>3, <3>2, <4>1
    <3> QED
      BY <3>1, <3>2
  <2>2. Extended(archive, moved) \in [DOMAIN archive \union ripe -> Incident]
    BY <1>5, <2>1 DEF Extended
  <2>3. DOMAIN archive \union ripe \in SUBSET Keys
    BY <1>2, <1>3, DataFacts
  <2> QED
    BY <2>2, <2>3, IsData
<1>8. parts["active"] = kept /\ parts["archive"] = Extended(archive, moved)
  BY <1>4 DEF Files
<1>9. parts \in [Files -> Data]
  BY <1>4, <1>6, <1>7
<1>10. /\ parts \in [Files -> Data]
       /\ DOMAIN parts["active"] = DOMAIN merged \ ripe
       /\ \A k \in DOMAIN parts["active"] : parts["active"][k] = merged[k]
       /\ DOMAIN parts["archive"] = DOMAIN archive \union ripe
       /\ \A k \in DOMAIN archive : parts["archive"][k] = archive[k]
       /\ \A k \in ripe \ DOMAIN archive : parts["archive"][k] = merged[k]
  <2>1. /\ DOMAIN Extended(archive, moved) = DOMAIN archive \union ripe
        /\ \A k \in DOMAIN archive : Extended(archive, moved)[k] = archive[k]
        /\ \A k \in ripe \ DOMAIN archive : Extended(archive, moved)[k] = moved[k]
    BY <1>5 DEF Extended
  <2> QED
    BY <1>5, <1>8, <1>9, <2>1
<1> QED
  BY <1>10 DEF merged, ripe, parts, SplitInto

-----------------------------------------------------------------------------
(* Types.                                                                  *)

(* Who leaves, or is killed, forgets everything.                           *)
LEMMA LeaveTypes ==
    ASSUME TypeOK, NEW r \in Runs, Leave(r)
    PROVE  /\ pc' \in [Runs -> {"read", "open", "lock", "dump", "close"}]
           /\ at' \in [Runs -> Files] /\ found' \in [Runs -> SUBSET Keys]
           /\ seen' \in [Runs -> Data] /\ plan' \in [Runs -> [Files -> Data]]
<1>1. NoPlan \in [Files -> Data]
  BY NoDataFacts DEF NoPlan
<1> QED
  BY <1>1, NoDataFacts DEF TypeOK, Leave, Files

LEMMA RunStepTypes == ASSUME TypeOK, NEW r \in Runs, RunStep(r) PROVE TypeOK'
<1>1. Derived \in SUBSET Keys
  BY DEF Derived, Keys, TypeOK
<1>2. CASE ReadActive(r)
  <2>1. seen' \in [Runs -> Data] /\ found' \in [Runs -> SUBSET Keys]
    BY <1>1, <1>2 DEF ReadActive, TypeOK, Files
  <2>2. at' \in [Runs -> Files] /\ mishaps' \in SUBSET Mishaps
    BY <1>2 DEF ReadActive, TypeOK, Files, Mishaps
  <2> QED
    BY <1>2, <2>1, <2>2 DEF ReadActive, TypeOK
<1>3. CASE ReadArchive(r)
  <2>1. Planned(found[r], seen[r], file["archive"].data) \in [Files -> Data]
    BY PlannedFacts DEF TypeOK, Files
  <2>2. plan' \in [Runs -> [Files -> Data]]
    BY <1>3, <2>1 DEF ReadArchive, TypeOK
  <2>3. /\ pc' \in [Runs -> {"read", "open", "lock", "dump", "close"}]
        /\ at' \in [Runs -> Files] /\ found' \in [Runs -> SUBSET Keys]
        /\ seen' \in [Runs -> Data]
    BY <1>3, NoDataFacts DEF ReadArchive, TypeOK, Files
  <2> QED
    BY <1>3, <2>2, <2>3 DEF ReadArchive, TypeOK, history
<1>4. CASE ReadFails(r)
  BY <1>4, LeaveTypes DEF ReadFails, TypeOK, history
<1>5. CASE Open(r)
  <2>1. file' \in [Files -> [status : {"absent", "list", "empty", "garbled"}, data : Data]]
    BY <1>5, NoDataFacts DEF Open, TypeOK
  <2> QED
    BY <1>5, <2>1 DEF Open, TypeOK, history
<1>6. CASE Lock(r)
  BY <1>6 DEF Lock, TypeOK, history
<1>7. CASE Dump(r)
  BY <1>7 DEF Dump, TypeOK, history
<1>8. CASE Close(r)
  <2>1. plan[r][at[r]] \in Data
    BY DEF TypeOK
  <2>2. file' \in [Files -> [status : {"absent", "list", "empty", "garbled"}, data : Data]]
    BY <1>8, <2>1, NoDataFacts DEF Close, TypeOK
  <2>3. known' \in UNION {[K -> Ages] : K \in SUBSET Keys}
    <3>1. PICK K \in SUBSET Keys : known \in [K -> Ages]
      BY DEF TypeOK
    <3>2. DOMAIN plan[r][at[r]] \in SUBSET Keys
          /\ \A k \in DOMAIN plan[r][at[r]] : plan[r][at[r]][k].age \in Ages
      BY <2>1, DataFacts DEF Incident
    <3>3. known' \in [K \union DOMAIN plan[r][at[r]] -> Ages]
      BY <1>8, <3>1, <3>2 DEF Close, Extended
    <3> QED
      BY <3>1, <3>2, <3>3
  <2>4. /\ pc' \in [Runs -> {"read", "open", "lock", "dump", "close"}]
        /\ at' \in [Runs -> Files] /\ found' \in [Runs -> SUBSET Keys]
        /\ seen' \in [Runs -> Data] /\ plan' \in [Runs -> [Files -> Data]]
    <3>1. CASE at[r] = "active"
      BY <1>8, <3>1 DEF Close, TypeOK, Files
    <3>2. CASE at[r] # "active"
      BY <1>8, <3>2, LeaveTypes DEF Close
    <3> QED
      BY <3>1, <3>2
  <2> QED
    BY <1>8, <2>2, <2>3, <2>4 DEF Close, TypeOK
<1> QED
  BY <1>2, <1>3, <1>4, <1>5, <1>6, <1>7, <1>8 DEF RunStep

LEMMA KillTypes == ASSUME TypeOK, NEW r \in Runs, Kill(r) PROVE TypeOK'
<1>1. kills' \in 0 .. MaxKills
  BY BoundsAreNumbers DEF TypeOK, Kill
<1>2. lock' \in [Files -> Runs \union {NoRun}] /\ mishaps' \in SUBSET Mishaps
  BY DEF TypeOK, Kill, Mishaps
<1> QED
  BY <1>1, <1>2, LeaveTypes DEF Kill, TypeOK

LEMMA ExtendTypes == ASSUME TypeOK, NEW p \in Parents, Extend(p) PROVE TypeOK'
<1>1. chain' \in [Parents -> Nat] /\ \A q \in Parents : chain'[q] <= MaxChain[q]
  <2>1. \A q \in Parents : chain[q] \in Nat /\ MaxChain[q] \in Nat /\ chain[q] <= MaxChain[q]
    BY BoundAssumption DEF TypeOK
  <2>2. chain' = [chain EXCEPT ![p] = chain[p] + 1] /\ chain[p] < MaxChain[p]
    BY DEF Extend
  <2>3. \A q \in Parents : chain'[q] = IF q = p THEN chain[p] + 1 ELSE chain[q]
    BY <2>2 DEF TypeOK
  <2> QED
    BY <2>1, <2>2, <2>3 DEF TypeOK
<1> QED
  BY <1>1 DEF Extend, TypeOK, runVars, history

(* Only the closed flag of one incident changes.                           *)
LEMMA CloseFacts ==
    ASSUME TypeOK, NEW k, CloseIncident(k)
    PROVE  /\ k \in DOMAIN Active
           /\ file' \in [Files -> [status : {"absent", "list", "empty", "garbled"},
                                   data : Data]]
           /\ Archive' = Archive /\ DOMAIN Active' = DOMAIN Active
           /\ \A i \in DOMAIN Active :
                 /\ Active'[i].age = Active[i].age
                 /\ Active'[i].closed = (Active[i].closed \/ i = k)
<1> DEFINE closed == [file["active"].data[k] EXCEPT !.closed = TRUE]
           data   == [file["active"].data EXCEPT ![k] = closed]
<1>1. file["active"].data \in Data /\ k \in DOMAIN file["active"].data
  BY DEF TypeOK, CloseIncident, Files
<1>2. DOMAIN Active \in SUBSET Keys /\ \A i \in DOMAIN Active : Active[i] \in Incident
  BY <1>1, DataFacts DEF Active
<1>3. closed \in Incident
  BY <1>1, <1>2 DEF Active, Incident
<1>4. DOMAIN data = DOMAIN Active /\ \A i \in DOMAIN Active : data[i] = IF i = k THEN closed ELSE Active[i]
  BY <1>1 DEF Active
<1>5. closed.closed = TRUE /\ closed.age = Active[k].age
  BY <1>1, <1>2 DEF Active, Incident
<1>6. file' = [file EXCEPT !["active"] = [file["active"] EXCEPT !.data = data]]
  BY DEF CloseIncident
<1> HIDE DEF closed
<1>7. data \in Data
  <2>1. data \in [DOMAIN Active -> Incident]
    BY <1>2, <1>3, <1>4
  <2> QED
    BY <1>2, <2>1, IsData
<1> HIDE DEF data
<1>8. file' \in [Files -> [status : {"absent", "list", "empty", "garbled"}, data : Data]]
  BY <1>6, <1>7 DEF TypeOK, Files
<1>9. Active' = data /\ Archive' = Archive
  BY <1>6 DEF TypeOK, Files, Active, Archive
<1>10. ASSUME NEW i \in DOMAIN Active
       PROVE  Active'[i].age = Active[i].age /\ Active'[i].closed = (Active[i].closed \/ i = k)
  <2>1. CASE i = k
    BY <1>4, <1>5, <1>9, <2>1
  <2>2. CASE i # k
    <3>1. Active[i].closed \in BOOLEAN
      BY <1>2 DEF Incident
    <3> QED
      BY <1>4, <1>9, <2>2, <3>1
  <2> QED
    BY <2>1, <2>2
<1> QED
  BY <1>1, <1>4, <1>8, <1>9, <1>10 DEF Active

LEMMA CloseTypes == ASSUME TypeOK, NEW k \in Keys, CloseIncident(k) PROVE TypeOK'
<1>1. shut' \in SUBSET Keys /\ mishaps' \in SUBSET Mishaps
  BY DEF TypeOK, CloseIncident, Mishaps
<1> QED
  BY <1>1, CloseFacts DEF CloseIncident, TypeOK, runVars

LEMMA TickTypes == ASSUME TypeOK, Tick PROVE TypeOK'
<1>1. file' \in [Files -> [status : {"absent", "list", "empty", "garbled"}, data : Data]]
  <2>1. \A f \in Files : Aged(file[f].data) \in Data
    BY AgedFacts DEF TypeOK
  <2>2. ASSUME NEW f \in Files
        PROVE  [file[f] EXCEPT !.data = Aged(@)] \in
                  [status : {"absent", "list", "empty", "garbled"}, data : Data]
    BY <2>1 DEF TypeOK
  <2> QED
    BY <2>2 DEF Tick
<1>2. seen' \in [Runs -> Data] /\ plan' \in [Runs -> [Files -> Data]]
  BY AgedFacts DEF Tick, TypeOK
<1>3. known' \in UNION {[K -> Ages] : K \in SUBSET Keys}
  <2>1. PICK K \in SUBSET Keys : known \in [K -> Ages]
    BY DEF TypeOK
  <2>2. known' \in [K -> Ages]
    BY <2>1, OlderType DEF Tick
  <2> QED
    BY <2>2
<1> QED
  BY <1>1, <1>2, <1>3 DEF Tick, TypeOK

LEMMA InitiallyTyped == Init => TypeOK
<1>1. known = NoData => known \in UNION {[K -> Ages] : K \in SUBSET Keys}
  <2>1. NoData \in [{} -> Ages]
    BY DEF NoData
  <2> QED
    BY <2>1
<1>2. NoPlan \in [Files -> Data]
  BY NoDataFacts DEF NoPlan
<1>3. Init => kills \in 0 .. MaxKills /\ chain \in [Parents -> Nat]
              /\ \A p \in Parents : chain[p] <= MaxChain[p]
  BY BoundsAreNumbers, BoundAssumption DEF Init
<1>4. Init => file \in [Files -> [status : {"absent", "list", "empty", "garbled"},
                                 data : Data]]
  BY NoDataFacts DEF Init
<1>5. Init => /\ pc \in [Runs -> {"read", "open", "lock", "dump", "close"}]
              /\ at \in [Runs -> Files] /\ found \in [Runs -> SUBSET Keys]
              /\ seen \in [Runs -> Data] /\ plan \in [Runs -> [Files -> Data]]
  BY <1>2, NoDataFacts DEF Init, Files
<1> QED
  BY <1>1, <1>3, <1>4, <1>5 DEF Init, TypeOK, Mishaps

(* The files, the runs and the history are well typed.                     *)
THEOREM IncidentTypeCorrect == Spec => []TypeOK
<1>1. TypeOK /\ [Next]_vars => TypeOK'
  <2> SUFFICES ASSUME TypeOK, [Next]_vars
               PROVE  TypeOK'
    OBVIOUS
  <2>1. CASE UNCHANGED vars
    BY <2>1 DEF vars, TypeOK
  <2> QED
    BY <2>1, RunStepTypes, KillTypes, ExtendTypes, CloseTypes, TickTypes DEF Next
<1> QED
  BY InitiallyTyped, <1>1, PTL DEF Spec

-----------------------------------------------------------------------------
(* One run at a time.                                                      *)

LEMMA Alone ==
    ASSUME AllOrderly, NEW r \in Runs, ~Idle(r)
    PROVE  Orderly(r) /\ \A q \in Runs : q # r => Idle(q)
BY DEF AllOrderly, OneRun

LEMMA NobodyElse ==
    ASSUME NEW r \in Runs, \A q \in Runs : q # r => Idle(q)', Orderly(r)'
    PROVE  AllOrderly'
<1>1. OneRun'
  BY DEF OneRun
<1>2. ASSUME NEW q \in Runs, \A o \in Runs : o # q => Idle(o)'
      PROVE  Orderly(q)'
  <2>1. CASE q = r
    BY <2>1
  <2>2. CASE q # r
    BY <1>2, <2>2 DEF Orderly, Idle, Writing
  <2> QED
    BY <2>1, <2>2
<1> QED
  BY <1>1, <1>2 DEF AllOrderly

LEMMA ReadActiveOrderly ==
    ASSUME TypeOK, AllOrderly, NEW r \in Runs, ReadActive(r), mishaps' = {}
    PROVE  AllOrderly'
<1>1. \A q \in Runs : Idle(q)
  BY DEF ReadActive
<1>2. Orderly(r)
  BY <1>1 DEF AllOrderly
<1>3. \A q \in Runs : q # r => Idle(q)'
  BY <1>1 DEF ReadActive, Idle, TypeOK
<1>4. pc'[r] = "read" /\ at'[r] = "archive" /\ seen'[r] = Active /\ ~Writing(r)'
      /\ UNCHANGED <<known, shut, file>>
  BY DEF ReadActive, Idle, TypeOK, Active, Writing, Files
<1>5. Sound(Active, Archive, known, shut) /\ DOMAIN Active \subseteq DOMAIN known /\ shut \subseteq DOMAIN known
  BY <1>1, <1>2 DEF Orderly, Idle, Writing
<1>6. Sound(Active, Archive, known, shut)'
  BY <1>4, <1>5 DEF Sound, Truthful, Archivable, Active, Archive
<1>7. Orderly(r)'
  BY <1>4, <1>5, <1>6 DEF Orderly, Active
<1> QED
  BY <1>3, <1>7, NobodyElse

(* A plan made from sound files is sound.                                  *)
LEMMA PlannedSound ==
    ASSUME TypeOK, Sound(Active, Archive, known, shut), DOMAIN Active \subseteq DOMAIN known,
           shut \subseteq DOMAIN known, NEW keys \in SUBSET Keys
    PROVE  Sound(Planned(keys, Active, Archive)["active"],
                 Planned(keys, Active, Archive)["archive"], known, shut)
<1> DEFINE merged == MergedNew(keys, Active, Archive)
           ripe   == RipeKeys(merged)
           a      == Planned(keys, Active, Archive)["active"]
           b      == Planned(keys, Active, Archive)["archive"]
<1>1. Active \in Data /\ Archive \in Data
  BY DEF TypeOK, Active, Archive, Files
<1>2. /\ DOMAIN a = DOMAIN merged \ ripe
      /\ \A k \in DOMAIN a : a[k] = merged[k]
      /\ DOMAIN b = DOMAIN Archive \union ripe
      /\ \A k \in DOMAIN Archive : b[k] = Archive[k]
      /\ \A k \in ripe \ DOMAIN Archive : b[k] = merged[k]
  <2>1. SplitInto(a, b, merged, Archive)
    BY <1>1, PlannedFacts
  <2> QED
    BY <2>1 DEF SplitInto
<1>3. /\ DOMAIN merged = (keys \ DOMAIN Archive) \union DOMAIN Active
      /\ \A k \in DOMAIN Active : merged[k].closed = Active[k].closed
                                  /\ merged[k].age = Active[k].age
      /\ \A k \in (keys \ DOMAIN Archive) \ DOMAIN Active : merged[k] = Fresh
  <2>1. keys \ DOMAIN Archive \in SUBSET Keys
    OBVIOUS
  <2> QED
    BY <1>1, <2>1, MergedFacts DEF MergedNew
<1>4. ripe \subseteq DOMAIN merged /\ \A k \in ripe : Ripe(merged[k])
  BY DEF RipeKeys
<1> HIDE DEF merged, ripe, a, b
<1>5. \A k \in ripe : k \in DOMAIN Active /\ k \in shut
  <2> SUFFICES ASSUME NEW k \in ripe
               PROVE  k \in DOMAIN Active /\ k \in shut
    OBVIOUS
  <2>1. merged[k].closed
    BY <1>4 DEF Ripe
  <2>2. k \in DOMAIN Active
    BY <1>3, <1>4, <2>1 DEF Fresh
  <2> QED
    BY <1>3, <2>1, <2>2 DEF Sound, Truthful
<1>6. DOMAIN known \subseteq DOMAIN a \union DOMAIN b /\ DOMAIN a \intersect DOMAIN b = {}
  BY <1>2, <1>3, <1>4, <1>5 DEF Sound
<1>7. Truthful(a, known, shut)
  <2> SUFFICES ASSUME NEW k \in DOMAIN a
               PROVE  /\ a[k].closed <=> k \in shut
                      /\ k \in DOMAIN known => a[k].age = known[k]
    BY DEF Truthful
  <2>1. a[k] = merged[k] /\ k \in (keys \ DOMAIN Archive) \union DOMAIN Active
    BY <1>2, <1>3
  <2>2. CASE k \in DOMAIN Active
    BY <1>3, <2>1, <2>2 DEF Sound, Truthful
  <2>3. CASE k \notin DOMAIN Active
    <3>1. k \notin DOMAIN known
      BY <2>1, <2>3 DEF Sound
    <3>2. merged[k] = Fresh
      BY <1>3, <2>1, <2>3
    <3> QED
      BY <2>1, <3>1, <3>2 DEF Fresh
  <2> QED
    BY <2>2, <2>3
<1>8. Archivable(b, known, shut)
  <2> SUFFICES ASSUME NEW k \in DOMAIN b
               PROVE  k \in shut /\ k \in DOMAIN known /\ Ripe(b[k])
    BY DEF Archivable
  <2>1. CASE k \in DOMAIN Archive
    BY <1>2, <2>1 DEF Sound, Archivable
  <2>2. CASE k \notin DOMAIN Archive
    <3>1. k \in ripe /\ b[k] = merged[k]
      BY <1>2, <2>2
    <3> QED
      BY <1>4, <1>5, <3>1
  <2> QED
    BY <2>1, <2>2
<1>9. Sound(a, b, known, shut)
  BY <1>6, <1>7, <1>8 DEF Sound
<1> QED
  BY <1>9 DEF a, b

LEMMA ReadArchiveOrderly ==
    ASSUME TypeOK, AllOrderly, NEW r \in Runs, ReadArchive(r)
    PROVE  AllOrderly'
<1>1. ~Idle(r) /\ ~Writing(r)
  BY DEF ReadArchive, Idle, Writing
<1>2. Orderly(r) /\ \A q \in Runs : q # r => Idle(q)
  BY <1>1, Alone
<1>3. \A q \in Runs : q # r => Idle(q)'
  BY <1>2 DEF ReadArchive, Idle, TypeOK
<1>4. /\ pc'[r] = "open" /\ at'[r] = "active" /\ ~Writing(r)'
      /\ UNCHANGED <<known, shut, file>>
      /\ plan'[r] = Planned(found[r], seen[r], Archive)
  BY DEF ReadArchive, TypeOK, Archive, Writing, Files, history
<1>5. /\ Sound(Active, Archive, known, shut) /\ DOMAIN Active \subseteq DOMAIN known
      /\ shut \subseteq DOMAIN known /\ seen[r] = Active
  BY <1>1, <1>2 DEF Orderly, ReadArchive
<1>6. Sound(plan'[r]["active"], plan'[r]["archive"], known, shut)
  <2>1. found[r] \in SUBSET Keys
    BY DEF TypeOK
  <2> QED
    BY <1>4, <1>5, <2>1, PlannedSound
<1>7. Sound(Active, Archive, known, shut)' /\ Sound(plan[r]["active"], plan[r]["archive"], known, shut)'
  BY <1>4, <1>5, <1>6 DEF Sound, Truthful, Archivable, Active, Archive
<1>8. Orderly(r)'
  BY <1>4, <1>5, <1>7 DEF Orderly, Active
<1> QED
  BY <1>3, <1>8, NobodyElse

(* A run that leaves before it has opened a file leaves sound files.       *)
LEMMA LeaveOrderly ==
    ASSUME TypeOK, AllOrderly, NEW r \in Runs, Leave(r), UNCHANGED <<known, shut, file>>,
           ~Idle(r), ~Writing(r)
    PROVE  AllOrderly'
<1>1. Orderly(r) /\ \A q \in Runs : q # r => Idle(q)
  BY Alone
<1>2. \A q \in Runs : Idle(q)'
  BY <1>1 DEF Leave, Idle, TypeOK, Files
<1>3. Sound(Active, Archive, known, shut)' /\ (DOMAIN Active \subseteq DOMAIN known)'
  BY <1>1 DEF Orderly, Sound, Truthful, Archivable, Active, Archive
<1>4. Orderly(r)'
  BY <1>1, <1>2, <1>3 DEF Orderly, Idle, Writing
<1> QED
  BY <1>2, <1>4, NobodyElse

(* A run that is not under way changes nothing when it cannot read.        *)
LEMMA ReadFailsOrderly ==
    ASSUME TypeOK, AllOrderly, NEW r \in Runs, ReadFails(r)
    PROVE  AllOrderly'
<1>1. Leave(r) /\ UNCHANGED <<known, shut, file>> /\ ~Writing(r)
  BY DEF ReadFails, history, Writing
<1>2. CASE ~Idle(r)
  BY <1>1, <1>2, LeaveOrderly
<1>3. CASE Idle(r)
  <2>1. \A q \in Runs : Idle(q)' <=> Idle(q)
    BY <1>1, <1>3 DEF Leave, Idle, TypeOK, Files
  <2>2. OneRun'
    BY <2>1 DEF AllOrderly, OneRun
  <2>3. ASSUME NEW q \in Runs, \A o \in Runs : o # q => Idle(o)'
        PROVE  Orderly(q)'
    <3>1. Orderly(q)
      BY <2>1, <2>3 DEF AllOrderly
    <3>2. CASE q = r
      <4>1. Idle(q)' /\ Idle(q)
        BY <1>3, <2>1, <3>2
      <4> QED
        BY <1>1, <3>1, <4>1
           DEF Orderly, Idle, Writing, Sound, Truthful, Archivable, Active, Archive
    <3>3. CASE q # r
      <4>1. pc'[q] = pc[q] /\ at'[q] = at[q] /\ seen'[q] = seen[q] /\ plan'[q] = plan[q]
        BY <1>1, <3>3 DEF Leave, TypeOK
      <4> QED
        BY <1>1, <3>1, <4>1
           DEF Orderly, Writing, Sound, Truthful, Archivable, Active, Archive
    <3> QED
      BY <3>2, <3>3
  <2> QED
    BY <2>2, <2>3 DEF AllOrderly
<1> QED
  BY <1>2, <1>3

LEMMA OpenOrderly ==
    ASSUME TypeOK, AllOrderly, NEW r \in Runs, Open(r)
    PROVE  AllOrderly'
<1>1. Orderly(r) /\ \A q \in Runs : q # r => Idle(q)
  BY Alone DEF Open, Idle
<1>2. \A q \in Runs : q # r => Idle(q)'
  BY <1>1 DEF Open, Idle, TypeOK
<1>3. /\ pc[r] = "open" /\ pc'[r] = "lock" /\ at'[r] = at[r]
      /\ UNCHANGED <<known, shut, plan>>
      /\ file'[at[r]] = [status |-> "empty", data |-> NoData]
      /\ at[r] # "active" => Active' = Active
  BY DEF Open, TypeOK, history, Active, Files
<1>4. Orderly(r)'
  BY <1>1, <1>3 DEF Orderly, Writing
<1> QED
  BY <1>2, <1>4, NobodyElse

(* The lock is taken and given back while the file is empty.               *)
LEMMA LockDumpOrderly ==
    ASSUME TypeOK, AllOrderly, NEW r \in Runs, Lock(r) \/ Dump(r)
    PROVE  AllOrderly'
<1>1. Orderly(r) /\ \A q \in Runs : q # r => Idle(q)
  BY Alone DEF Lock, Dump, Idle
<1>2. \A q \in Runs : q # r => Idle(q)'
  BY <1>1 DEF Lock, Dump, Idle, TypeOK
<1>3. /\ pc[r] \in {"lock", "dump"} /\ pc'[r] \in {"dump", "close"} /\ at' = at
      /\ UNCHANGED <<known, shut, plan, file>>
  BY DEF Lock, Dump, TypeOK, history
<1>4. Orderly(r)'
  BY <1>1, <1>3 DEF Orderly, Writing, Active
<1> QED
  BY <1>2, <1>4, NobodyElse

(* What is saved becomes known, with the time it was saved first.          *)
LEMMA NowKnown ==
    ASSUME NEW ages, NEW closed, NEW active, NEW archive, NEW data,
           data \in {active, archive},
           Sound(active, archive, ages, closed),
           NEW later, later = Extended(ages, [k \in DOMAIN data |-> data[k].age])
    PROVE  /\ Sound(active, archive, later, closed)
           /\ DOMAIN ages \subseteq DOMAIN later /\ DOMAIN data \subseteq DOMAIN later
           /\ data = archive => DOMAIN later = DOMAIN ages
<1>1. /\ DOMAIN later = DOMAIN ages \union DOMAIN data
      /\ \A k \in DOMAIN ages : later[k] = ages[k]
      /\ \A k \in DOMAIN data \ DOMAIN ages : later[k] = data[k].age
  BY DEF Extended
<1>2. DOMAIN archive \subseteq DOMAIN ages
  BY DEF Sound, Archivable
<1>3. DOMAIN later \subseteq DOMAIN active \union DOMAIN archive
  BY <1>1 DEF Sound
<1>4. Truthful(active, later, closed)
  <2> SUFFICES ASSUME NEW k \in DOMAIN active, k \in DOMAIN later
               PROVE  active[k].age = later[k]
    BY DEF Truthful, Sound
  <2>1. CASE k \in DOMAIN ages
    BY <1>1, <2>1 DEF Sound, Truthful
  <2>2. CASE k \notin DOMAIN ages
    BY <1>1, <1>2, <2>2
  <2> QED
    BY <2>1, <2>2
<1>5. Archivable(archive, later, closed)
  BY <1>1 DEF Sound, Archivable
<1>6. Sound(active, archive, later, closed)
  BY <1>3, <1>4, <1>5 DEF Sound
<1> QED
  BY <1>1, <1>2, <1>6

LEMMA CloseOrderly ==
    ASSUME TypeOK, AllOrderly, NEW r \in Runs, Close(r)
    PROVE  AllOrderly'
<1>1. Orderly(r) /\ \A q \in Runs : q # r => Idle(q)
  BY Alone DEF Close, Idle
<1>2. \A q \in Runs : q # r => Idle(q)'
  BY <1>1 DEF Close, Leave, Idle, TypeOK
<1> DEFINE a == plan[r]["active"]
           b == plan[r]["archive"]
<1>3. /\ pc[r] = "close" /\ file[at[r]].status = "empty" /\ at[r] \in Files
      /\ Sound(a, b, known, shut) /\ shut \subseteq DOMAIN known /\ shut' = shut
  BY <1>1 DEF Orderly, Close, TypeOK
<1>4. file' = [file EXCEPT ![at[r]] = [status |-> "list", data |-> plan[r][at[r]]]]
  BY <1>3 DEF Close
<1>5. CASE at[r] = "active"
  <2>1. known' = Extended(known, [k \in DOMAIN a |-> a[k].age])
    BY <1>5 DEF Close
  <2>2. /\ Sound(a, b, known', shut)
        /\ DOMAIN known \subseteq DOMAIN known' /\ DOMAIN a \subseteq DOMAIN known'
    BY <1>3, <2>1, NowKnown
  <2>3. Active' = a
    BY <1>4, <1>5 DEF Active, TypeOK, Files
  <2>4. pc'[r] = "open" /\ at'[r] = "archive" /\ plan' = plan
    BY <1>5 DEF Close, TypeOK
  <2>5. Orderly(r)'
    BY <1>3, <2>2, <2>3, <2>4 DEF Orderly, Writing
  <2> QED
    BY <1>2, <2>5, NobodyElse
<1>6. CASE at[r] = "archive"
  <2>1. known' = Extended(known, [k \in DOMAIN b |-> b[k].age])
    BY <1>6 DEF Close
  <2>2. Sound(a, b, known', shut) /\ DOMAIN known' = DOMAIN known
    BY <1>3, <2>1, NowKnown
  <2>3. Active = a /\ DOMAIN Active \subseteq DOMAIN known
    BY <1>1, <1>3, <1>6 DEF Orderly
  <2>4. Active' = Active /\ Archive' = b
    BY <1>4, <1>6 DEF Active, Archive, TypeOK, Files
  <2>5. Idle(r)'
    BY <1>6 DEF Close, Leave, Idle, TypeOK, Files
  <2>6. Orderly(r)'
    BY <1>3, <2>2, <2>3, <2>4, <2>5 DEF Orderly, Idle, Writing
  <2> QED
    BY <1>2, <2>6, NobodyElse
<1> QED
  BY <1>3, <1>5, <1>6 DEF Files

LEMMA KillOrderly ==
    ASSUME TypeOK, AllOrderly, NEW r \in Runs, Kill(r), mishaps' = {}
    PROVE  AllOrderly'
<1>1. ~Writing(r) /\ ~Idle(r) /\ Leave(r) /\ UNCHANGED <<known, shut, file>>
  BY DEF Kill
<1> QED
  BY <1>1, LeaveOrderly

(* New alerts concern no file and no run before its next reading.          *)
LEMMA UntouchedOrderly ==
    ASSUME AllOrderly, UNCHANGED <<file, runVars, known, shut>>
    PROVE  AllOrderly'
BY DEF AllOrderly, OneRun, Orderly, Idle, Writing, Active, Archive, runVars

LEMMA CloseIncidentOrderly ==
    ASSUME TypeOK, AllOrderly, NEW k \in Keys, CloseIncident(k), mishaps' = {}
    PROVE  AllOrderly'
<1>1. /\ \A q \in Runs : Idle(q) /\ Idle(q)'
      /\ shut' = shut \union {k} /\ known' = known
  BY DEF CloseIncident, runVars, Idle
<1>2. ASSUME NEW r \in Runs
      PROVE  Orderly(r)'
  <2>1. /\ Sound(Active, Archive, known, shut) /\ DOMAIN Active \subseteq DOMAIN known
        /\ shut \subseteq DOMAIN known
    BY <1>1 DEF AllOrderly, Orderly, Idle, Writing
  <2>2. /\ k \in DOMAIN Active /\ Archive' = Archive /\ DOMAIN Active' = DOMAIN Active
        /\ \A i \in DOMAIN Active : Active'[i].age = Active[i].age
        /\ \A i \in DOMAIN Active : Active'[i].closed = (Active[i].closed \/ i = k)
    BY CloseFacts
  <2>3. Truthful(Active', known, shut')
    <3> SUFFICES ASSUME NEW i \in DOMAIN Active
                 PROVE  /\ Active'[i].closed <=> i \in shut'
                        /\ i \in DOMAIN known => Active'[i].age = known[i]
      BY <2>2 DEF Truthful
    <3>1. /\ Active[i].closed <=> i \in shut
          /\ i \in DOMAIN known => Active[i].age = known[i]
      BY <2>1 DEF Sound, Truthful
    <3>2. Active'[i].closed = (Active[i].closed \/ i = k)
      BY <2>2
    <3>3. Active'[i].closed <=> i \in shut'
      BY <1>1, <3>1, <3>2
    <3> QED
      BY <2>2, <3>1, <3>3
  <2>4. Archivable(Archive', known, shut')
    BY <1>1, <2>1, <2>2 DEF Sound, Archivable
  <2>5. Sound(Active', Archive', known', shut')
    BY <1>1, <2>1, <2>2, <2>3, <2>4 DEF Sound
  <2>6. shut' \subseteq DOMAIN known' /\ DOMAIN Active' \subseteq DOMAIN known'
    BY <1>1, <2>1, <2>2
  <2> QED
    BY <1>1, <2>5, <2>6 DEF Orderly, Idle, Writing
<1> QED
  BY <1>1, <1>2 DEF AllOrderly, OneRun

(* Everything that is sound grows older together.                          *)
LEMMA AgedSound ==
    ASSUME NEW a \in Data, NEW b \in Data, NEW ages, NEW closed,
           Sound(a, b, ages, closed)
    PROVE  Sound(Aged(a), Aged(b), [k \in DOMAIN ages |-> Older(ages[k])], closed)
<1> DEFINE later == [k \in DOMAIN ages |-> Older(ages[k])]
<1>1. DOMAIN later = DOMAIN ages /\ \A k \in DOMAIN ages : later[k] = Older(ages[k])
  OBVIOUS
<1> HIDE DEF later
<1>2. /\ DOMAIN Aged(a) = DOMAIN a /\ DOMAIN Aged(b) = DOMAIN b
      /\ \A k \in DOMAIN a : Aged(a)[k].age = Older(a[k].age)
      /\ \A k \in DOMAIN a : Aged(a)[k].closed = a[k].closed
      /\ \A k \in DOMAIN b : Ripe(b[k]) => Ripe(Aged(b)[k])
  BY AgedFacts
<1>3. Truthful(Aged(a), later, closed)
  BY <1>1, <1>2 DEF Sound, Truthful
<1>4. Archivable(Aged(b), later, closed)
  BY <1>1, <1>2 DEF Sound, Archivable
<1>5. Sound(Aged(a), Aged(b), later, closed)
  BY <1>1, <1>2, <1>3, <1>4 DEF Sound
<1> QED
  BY <1>5 DEF later

LEMMA TickOrderly ==
    ASSUME TypeOK, AllOrderly, Tick
    PROVE  AllOrderly'
<1>1. /\ UNCHANGED <<pc, at, shut>>
      /\ known' = [k \in DOMAIN known |-> Older(known[k])]
      /\ Active \in Data /\ Archive \in Data
      /\ Active' = Aged(Active) /\ Archive' = Aged(Archive)
  BY DEF Tick, TypeOK, Files, Active, Archive
<1>2. DOMAIN known' = DOMAIN known /\ DOMAIN Active' = DOMAIN Active
  BY <1>1, AgedFacts
<1>3. ASSUME NEW r \in Runs, Orderly(r)
      PROVE  Orderly(r)'
  <2>1. /\ plan[r]["active"] \in Data /\ plan[r]["archive"] \in Data
        /\ plan'[r]["active"] = Aged(plan[r]["active"])
        /\ plan'[r]["archive"] = Aged(plan[r]["archive"])
        /\ seen'[r] = Aged(seen[r])
    BY DEF Tick, TypeOK, Files
  <2>2. Sound(Active, Archive, known, shut) => Sound(Active', Archive', known', shut)
    BY <1>1, AgedSound
  <2>3. Sound(plan[r]["active"], plan[r]["archive"], known, shut)
           => Sound(plan'[r]["active"], plan'[r]["archive"], known', shut)
    BY <1>1, <2>1, AgedSound
  <2>4. pc[r] \in {"lock", "dump", "close"} =>
            file'[at[r]] = [status |-> "empty", data |-> NoData]
    <3>1. Aged(NoData) = NoData
      BY DEF Aged, NoData
    <3>2. file'[at[r]] = [file[at[r]] EXCEPT !.data = Aged(file[at[r]].data)]
      BY DEF Tick, TypeOK
    <3> QED
      BY <1>3, <3>1, <3>2 DEF Orderly
  <2> QED
    BY <1>1, <1>2, <1>3, <2>1, <2>2, <2>3, <2>4 DEF Orderly, Writing
<1> QED
  BY <1>1, <1>3 DEF AllOrderly, OneRun, Idle

-----------------------------------------------------------------------------
(* The theorems.                                                           *)

LEMMA StoreInvariantKept == StoreInvariant /\ TypeOK' /\ [Next]_vars => StoreInvariant'
<1> SUFFICES ASSUME TypeOK, TypeOK', [Next]_vars, mishaps = {} => AllOrderly, mishaps' = {}
             PROVE  AllOrderly'
  BY DEF StoreInvariant
<1>1. mishaps \subseteq mishaps'
  BY DEF Next, RunStep, ReadActive, ReadArchive, ReadFails, Open, Lock, Dump, Close, Kill,
         Extend, CloseIncident, Tick, vars, history
<1>2. AllOrderly
  BY <1>1
<1>3. ASSUME NEW r \in Runs, RunStep(r) \/ Kill(r)
      PROVE  AllOrderly'
  BY <1>2, <1>3, ReadActiveOrderly, ReadArchiveOrderly, ReadFailsOrderly, OpenOrderly,
     LockDumpOrderly, CloseOrderly, KillOrderly DEF RunStep
<1>4. ASSUME NEW p \in Parents, Extend(p)
      PROVE  AllOrderly'
  BY <1>2, <1>4, UntouchedOrderly DEF Extend, history
<1>5. CASE UNCHANGED vars
  BY <1>2, <1>5, UntouchedOrderly DEF vars, runVars
<1> QED
  BY <1>2, <1>3, <1>4, <1>5, CloseIncidentOrderly, TickOrderly DEF Next

LEMMA StoreInvariantInitially == Init => StoreInvariant
<1> SUFFICES ASSUME Init, TypeOK
             PROVE  AllOrderly
  BY InitiallyTyped DEF StoreInvariant
<1>1. /\ Active = NoData /\ Archive = NoData /\ known = NoData /\ shut = {}
      /\ \A r \in Runs : pc[r] = "read" /\ at[r] = "active"
  BY DEF Init, Active, Archive, Files
<1>2. Sound(NoData, NoData, NoData, {})
  BY NoDataFacts DEF Sound, Truthful, Archivable
<1> QED
  BY <1>1, <1>2, NoDataFacts DEF AllOrderly, OneRun, Orderly, Idle, Writing

(* As long as no mishap occurs, one run at a time finds and leaves sound   *)
(* files.                                                                  *)
THEOREM StoreInvariantHolds == Spec => []StoreInvariant
BY StoreInvariantInitially, StoreInvariantKept, IncidentTypeCorrect, PTL DEF Spec

(* What the first file says at every step: it is empty or has the truth.   *)
LEMMA ActiveIsTruthful ==
    ASSUME TypeOK, AllOrderly
    PROVE  /\ Truthful(Active, known, shut)
           /\ DOMAIN Active \subseteq DOMAIN known
<1>1. CASE \A q \in Runs : Idle(q)
  BY <1>1, RunAssumption DEF AllOrderly, Orderly, Idle, Writing, Sound
<1>2. ASSUME NEW r \in Runs, ~Idle(r)
      PROVE  Truthful(Active, known, shut) /\ DOMAIN Active \subseteq DOMAIN known
  <2>1. Orderly(r)
    BY <1>2, Alone
  <2>2. CASE ~Writing(r)
    BY <2>1, <2>2 DEF Orderly, Sound
  <2>3. CASE Writing(r) /\ at[r] = "active"
    <3>1. Active = NoData
      BY <2>1, <2>3 DEF Orderly, Writing, Active, TypeOK
    <3> QED
      BY <3>1, NoDataFacts DEF Truthful
  <2>4. CASE Writing(r) /\ at[r] = "archive"
    BY <2>1, <2>4 DEF Orderly, Writing, Sound
  <2> QED
    BY <2>2, <2>3, <2>4 DEF TypeOK, Files
<1> QED
  BY <1>1, <1>2

(* Closed state survives re-runs: an incident that was closed is never     *)
(* open on disk again.                                                     *)
THEOREM ClosedIncidentsStayClosed == Spec => []ClosedStaysClosed
<1>1. StoreInvariant => ClosedStaysClosed
  BY ActiveIsTruthful DEF StoreInvariant, ClosedStaysClosed, Truthful
<1> QED
  BY StoreInvariantHolds, <1>1, PTL

(* Between runs every known incident is in one of the files, in no more    *)
(* than one, and only what is closed and ripe is in the archive.           *)
THEOREM IncidentsAreConserved == Spec => []Conserved
<1>1. StoreInvariant => Conserved
  <2> SUFFICES ASSUME TypeOK, AllOrderly, AllIdle
               PROVE  /\ DOMAIN known = DOMAIN Active \union DOMAIN Archive
                      /\ DOMAIN Active \intersect DOMAIN Archive = {}
                      /\ \A k \in DOMAIN Archive : k \in shut /\ Ripe(Archive[k])
    BY DEF StoreInvariant, Conserved
  <2>1. Sound(Active, Archive, known, shut) /\ DOMAIN Active \subseteq DOMAIN known
    BY RunAssumption DEF AllIdle, AllOrderly, Orderly, Idle, Writing
  <2> QED
    BY <2>1 DEF Sound, Archivable
<1> QED
  BY StoreInvariantHolds, <1>1, PTL

(* created_at is when the incident was saved first, whoever finds it again.*)
THEOREM CreationTimeIsKept == Spec => []CreatedOnce
<1>1. StoreInvariant => CreatedOnce
  BY ActiveIsTruthful DEF StoreInvariant, CreatedOnce, Truthful
<1> QED
  BY StoreInvariantHolds, <1>1, PTL

=============================================================================
