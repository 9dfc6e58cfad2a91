-------------------------- MODULE HeartbeatProofs --------------------------
(***************************************************************************)
(* The heartbeat rule for any sources, limits, clock and number of crashes.*)
(*                                                                         *)
(* The tale of a source is what the store will tell about it once the      *)
(* alerts of the running cycle are merged: the rule's memory agrees with   *)
(* the tale at every moment, with the store only between two cycles.       *)
(***************************************************************************)
EXTENDS Heartbeat, FiniteSetTheorems, TLAPS

(* Only a cycle that has run the rule has alerts to merge.                 *)
NothingEarly == pc # "detected" => raised = {}

(* Since the rule last looked, no input came that its memory does not know.*)
Heeded ==
    \A s \in Sources \ lost.input :
        state[s] # None =>
            /\ heard[s] \in Times
            /\ \/ pc = "collected" /\ s \in received
               \/ heard[s] <= QuietSince(state[s])

(* A cycle raises no two alerts about one source.                          *)
AtMostOne == \A a, b \in raised : a.source = b.source => a = b

SilenceInvariant == TypeOK /\ NothingEarly /\ AtMostOne /\ Heeded /\ OutagesAreReal

(* The alerts of this cycle about a source that the store has not got.     *)
News(s) ==
    {a \in raised : a.source = s /\ \A i \in DOMAIN store[s] : ~SameKey(store[s][i], a)}

-----------------------------------------------------------------------------

LEMMA TimesAreNumbers == Times \subseteq Nat /\ None \notin Times
BY BoundAssumption, NoneAssumption DEF Times

LEMMA LimitsAreNumbers == \A s \in Sources : Limit[s] \in Nat
BY LimitAssumption

LEMMA LoadedType ==
    ASSUME TypeOK, NEW s \in Sources
    PROVE  /\ Loaded(s) \in Entry
           /\ QuietSince(Loaded(s)) \in Times
           /\ state[s] # None => Loaded(s) = state[s]
BY TimesAreNumbers DEF TypeOK, Loaded, Entry, QuietSince

LEMMA EntryAfterFacts ==
    ASSUME TypeOK, NEW s \in Sources
    PROVE  /\ EntryAfter(s) \in Entry
           /\ s \in received => /\ EntryAfter(s).last = now
                                /\ EntryAfter(s).outage = None
                                /\ QuietSince(EntryAfter(s)) = now
           /\ s \notin received => QuietSince(EntryAfter(s)) = QuietSince(Loaded(s))
<1>1. Loaded(s) \in Entry /\ QuietSince(Loaded(s)) \in Times /\ now \in Times
  BY LoadedType DEF TypeOK
<1> QED
  BY <1>1, TimesAreNumbers DEF EntryAfter, Entry, QuietSince

LEMMA AlertTypes ==
    ASSUME TypeOK, NEW s \in Sources
    PROVE  /\ OpenAlert(s) \in Alert
           /\ Closes(s) => ClosedAlert(s) \in Alert
<1>1. Loaded(s) \in Entry /\ QuietSince(Loaded(s)) \in Times /\ now \in Times
  BY LoadedType DEF TypeOK
<1> QED
  BY <1>1 DEF OpenAlert, ClosedAlert, Closes, Alert, Entry

LEMMA OpensOrCloses ==
    ASSUME NEW s \in Sources
    PROVE  ~(Opens(s) /\ Closes(s))
BY DEF Opens, Closes

(* The sequence of a set without two elements.                             *)
LEMMA SequenceOfFew ==
    ASSUME NEW S, \A a, b \in S : a = b
    PROVE  /\ S = {} => SetToSeq(S) = <<>>
           /\ \A a \in S : SetToSeq(S) = <<a>>
<1>1. ASSUME S = {}
      PROVE  SetToSeq(S) = <<>>
  <2>1. Cardinality(S) = 0
    BY <1>1, FS_EmptySet
  <2>2. \A f \in [1 .. 0 -> S] : f = <<>> /\ IsInjective(f)
    BY DEF IsInjective
  <2>3. \E f \in [1 .. 0 -> S] : IsInjective(f)
    <3>1. <<>> \in [1 .. 0 -> S]
      OBVIOUS
    <3> QED
      BY <3>1, <2>2
  <2> QED
    BY <2>1, <2>2, <2>3 DEF SetToSeq
<1>2. ASSUME NEW a \in S
      PROVE  SetToSeq(S) = <<a>>
  <2>1. S = {a} /\ Cardinality(S) = 1
    BY <1>2, FS_Singleton
  <2>2. \A f \in [1 .. 1 -> S] : f = <<a>> /\ IsInjective(f)
    <3> SUFFICES ASSUME NEW f \in [1 .. 1 -> S]
                 PROVE  f = <<a>> /\ IsInjective(f)
      OBVIOUS
    <3>1. f \in Seq(S) /\ Len(f) = 1 /\ f[1] = a
      BY <2>1
    <3> QED
      BY <3>1 DEF IsInjective
  <2>3. \E f \in [1 .. 1 -> S] : IsInjective(f)
    <3>1. [x \in 1 .. 1 |-> a] \in [1 .. 1 -> S]
      BY <2>1
    <3> QED
      BY <3>1, <2>2
  <2> QED
    BY <2>1, <2>2, <2>3 DEF SetToSeq
<1> QED
  BY <1>1, <1>2

(* What Merge appends.                                                     *)
LEMMA NewsToSeq ==
    ASSUME TypeOK, AtMostOne, NEW s \in Sources
    PROVE  /\ News(s) \subseteq Alert
           /\ SetToSeq(News(s)) \in Seq(Alert)
           /\ News(s) = {} => SetToSeq(News(s)) = <<>>
           /\ \A a \in News(s) : SetToSeq(News(s)) = <<a>>
<1>1. News(s) \subseteq Alert
  BY DEF TypeOK, News
<1>2. \A a, b \in News(s) : a = b
  BY DEF AtMostOne, News
<1> HIDE DEF News
<1>3. News(s) = {} => SetToSeq(News(s)) = <<>>
  BY <1>2, SequenceOfFew
<1>4. \A a \in News(s) : SetToSeq(News(s)) = <<a>>
  BY <1>2, SequenceOfFew
<1>5. SetToSeq(News(s)) \in Seq(Alert)
  <2>1. CASE News(s) = {}
    <3>1. <<>> \in Seq(Alert)
      OBVIOUS
    <3> QED
      BY <1>3, <2>1, <3>1
  <2>2. CASE News(s) # {}
    <3>1. PICK a \in News(s) : TRUE
      BY <2>2
    <3>2. a \in Alert /\ SetToSeq(News(s)) = <<a>>
      BY <1>1, <1>4
    <3> QED
      BY <3>2
  <2> QED
    BY <2>1, <2>2
<1> QED
  BY <1>1, <1>3, <1>4, <1>5

-----------------------------------------------------------------------------

LEMMA SilenceInitially == Init => SilenceInvariant
<1> SUFFICES ASSUME Init
             PROVE  SilenceInvariant
  OBVIOUS
<1>1. TypeOK
  BY BoundAssumption DEF Init, TypeOK, Times
<1> QED
  BY <1>1 DEF Init, SilenceInvariant, NothingEarly, AtMostOne, Heeded, OutagesAreReal

LEMMA CollectKeepsSilence == SilenceInvariant /\ Collect => SilenceInvariant'
<1> SUFFICES ASSUME SilenceInvariant, Collect
             PROVE  SilenceInvariant'
  OBVIOUS
<1> USE DEF SilenceInvariant
<1>1. TypeOK'
  BY DEF TypeOK, Collect
<1>2. raised' = {}
  BY DEF NothingEarly, Collect
<1>3. Heeded'
  <2> SUFFICES ASSUME NEW s \in Sources \ lost.input, state[s] # None
               PROVE  /\ heard'[s] \in Times
                      /\ s \in received' \/ heard'[s] <= QuietSince(state[s])
    BY DEF Heeded, Collect, QuietSince
  <2>1. CASE s \in pending
    BY <2>1 DEF Collect, TypeOK
  <2>2. CASE s \notin pending
    BY <2>2 DEF Collect, Heeded
  <2> QED
    BY <2>1, <2>2
<1> QED
  BY <1>1, <1>2, <1>3 DEF NothingEarly, AtMostOne, OutagesAreReal

LEMMA RunHeartbeatKeepsSilence == SilenceInvariant /\ RunHeartbeat => SilenceInvariant'
<1> SUFFICES ASSUME SilenceInvariant, RunHeartbeat
             PROVE  SilenceInvariant'
  OBVIOUS
<1> USE DEF SilenceInvariant
<1>1. raised' \subseteq Alert
  BY AlertTypes DEF RunHeartbeat
<1>2. TypeOK'
  <2>1. state' \in [Sources -> Entry \union {None}]
    BY EntryAfterFacts DEF RunHeartbeat
  <2>2. heard' \in [Sources -> Times \union {None}]
    BY DEF RunHeartbeat, TypeOK
  <2>3. checkedAt' \in Times /\ pc' = "detected"
    BY DEF RunHeartbeat, TypeOK
  <2>4. UNCHANGED <<now, pending, received, store, crashes, lost>>
    BY DEF RunHeartbeat
  <2> QED
    BY <1>1, <2>1, <2>2, <2>3, <2>4 DEF TypeOK
<1>3. ASSUME NEW a \in raised'
      PROVE  \E s \in Sources :
                \/ a = OpenAlert(s) /\ Opens(s)
                \/ a = ClosedAlert(s) /\ Closes(s)
  BY DEF RunHeartbeat
<1>4. AtMostOne'
  <2> SUFFICES ASSUME NEW a \in raised', NEW b \in raised', a.source = b.source
               PROVE  a = b
    BY DEF AtMostOne
  <2>1. PICK s \in Sources :
            \/ a = OpenAlert(s) /\ Opens(s)
            \/ a = ClosedAlert(s) /\ Closes(s)
    BY <1>3
  <2>2. PICK r \in Sources :
            \/ b = OpenAlert(r) /\ Opens(r)
            \/ b = ClosedAlert(r) /\ Closes(r)
    BY <1>3
  <2>3. r = s
    BY <2>1, <2>2 DEF OpenAlert, ClosedAlert
  <2> QED
    BY <2>1, <2>2, <2>3, OpensOrCloses
<1>5. ASSUME NEW s \in Sources \ lost.input
      PROVE  heard'[s] \in Times /\ heard'[s] <= QuietSince(state'[s])
  <2>1. state'[s] = EntryAfter(s) /\ now \in Times
    BY DEF RunHeartbeat, TypeOK
  <2>2. CASE s \in received \/ state[s] = None
    <3>1. heard'[s] = now
      BY <2>2 DEF RunHeartbeat
    <3>2. QuietSince(EntryAfter(s)) = now
      BY <2>2, EntryAfterFacts DEF Loaded, QuietSince
    <3> QED
      BY <2>1, <3>1, <3>2, TimesAreNumbers
  <2>3. CASE s \notin received /\ state[s] # None
    <3>1. heard'[s] = heard[s]
      BY <2>3 DEF RunHeartbeat
    <3>2. QuietSince(EntryAfter(s)) = QuietSince(state[s])
      BY <2>3, EntryAfterFacts, LoadedType
    <3> QED
      BY <2>1, <2>3, <3>1, <3>2 DEF Heeded
  <2> QED
    BY <2>2, <2>3
<1>6. Heeded'
  <2>1. lost' = lost
    BY DEF RunHeartbeat
  <2> QED
    BY <1>5, <2>1 DEF Heeded, QuietSince
<1>7. OutagesAreReal'
  <2> SUFFICES ASSUME NEW a \in raised', a.kind = "open", a.source \notin lost.input
               PROVE  a.at - a.since > Limit[a.source] /\ heard'[a.source] <= a.since
    BY DEF OutagesAreReal, RunHeartbeat
  <2>1. PICK s \in Sources : a = OpenAlert(s) /\ Opens(s)
    BY <1>3 DEF ClosedAlert
  <2>2. a.source = s /\ a.at = now /\ a.since = QuietSince(Loaded(s))
    BY <2>1 DEF OpenAlert
  <2>3. QuietSince(state'[s]) = QuietSince(Loaded(s))
    BY <2>1, EntryAfterFacts DEF Opens, RunHeartbeat
  <2> QED
    BY <1>5, <2>1, <2>2, <2>3 DEF Opens
<1> QED
  BY <1>2, <1>4, <1>6, <1>7 DEF NothingEarly, RunHeartbeat

LEMMA MergeKeepsSilence == SilenceInvariant /\ Merge => SilenceInvariant'
<1> SUFFICES ASSUME SilenceInvariant, Merge
             PROVE  SilenceInvariant'
  OBVIOUS
<1> USE DEF SilenceInvariant
<1>1. store' = [s \in Sources |-> store[s] \o SetToSeq(News(s))]
  BY DEF Merge, News
<1>2. store' \in [Sources -> Seq(Alert)]
  <2>1. \A s \in Sources : store[s] \o SetToSeq(News(s)) \in Seq(Alert)
    BY NewsToSeq DEF TypeOK
  <2> QED
    BY <1>1, <2>1
<1>3. TypeOK'
  BY <1>2, BoundAssumption DEF TypeOK, Merge, Times
<1> QED
  BY <1>3 DEF Merge, NothingEarly, AtMostOne, Heeded, OutagesAreReal, QuietSince

LEMMA CrashKeepsSilence == SilenceInvariant /\ Crash => SilenceInvariant'
<1> SUFFICES ASSUME SilenceInvariant, Crash
             PROVE  SilenceInvariant'
  OBVIOUS
<1> USE DEF SilenceInvariant
<1>1. lost' \in [input : SUBSET Sources, alerts : SUBSET Sources]
  <2>1. {a.source : a \in raised} \subseteq Sources
    BY DEF TypeOK, Alert
  <2> QED
    BY <2>1 DEF Crash, TypeOK
<1>2. TypeOK'
  BY <1>1, BoundAssumption DEF TypeOK, Crash, Times
<1>3. lost.input \subseteq lost'.input /\ (pc = "collected" => received \subseteq lost'.input)
  BY DEF Crash, TypeOK
<1>4. Heeded'
  BY <1>3 DEF Heeded, Crash, QuietSince
<1> QED
  BY <1>2, <1>4 DEF Crash, NothingEarly, AtMostOne, OutagesAreReal

LEMMA WorldKeepsSilence ==
    SilenceInvariant /\ (Tick \/ (\E s \in Sources : Arrive(s)) \/ UNCHANGED vars)
        => SilenceInvariant'
<1> SUFFICES ASSUME SilenceInvariant,
                    Tick \/ (\E s \in Sources : Arrive(s)) \/ UNCHANGED vars
             PROVE  SilenceInvariant'
  OBVIOUS
<1> USE DEF SilenceInvariant
<1>1. UNCHANGED <<state, pc, received, raised, store, crashes, heard, checkedAt, lost>>
  BY DEF Tick, Arrive, vars
<1>2. now' \in Times /\ pending' \in SUBSET Sources
  <2>1. CASE Tick
    BY <2>1, BoundAssumption DEF Tick, TypeOK, Times
  <2>2. CASE \E s \in Sources : Arrive(s)
    BY <2>2 DEF Arrive, TypeOK
  <2>3. CASE UNCHANGED vars
    BY <2>3 DEF vars, TypeOK
  <2> QED
    BY <2>1, <2>2, <2>3
<1>3. TypeOK'
  BY <1>1, <1>2 DEF TypeOK
<1> QED
  BY <1>1, <1>3 DEF NothingEarly, AtMostOne, Heeded, OutagesAreReal, QuietSince

(* What the rule knows of each source holds at every step.                 *)
THEOREM SilenceInvariantHolds == Spec => []SilenceInvariant
<1>1. SilenceInvariant /\ [Next]_vars => SilenceInvariant'
  BY CollectKeepsSilence, RunHeartbeatKeepsSilence, MergeKeepsSilence, CrashKeepsSilence,
     WorldKeepsSilence
     DEF Next
<1> QED
  BY SilenceInitially, <1>1, PTL DEF Spec

(* The clock, the rule's memory, the alerts and the store are well typed.  *)
THEOREM HeartbeatTypeCorrect == Spec => []TypeOK
<1>1. SilenceInvariant => TypeOK
  BY DEF SilenceInvariant
<1> QED
  BY SilenceInvariantHolds, <1>1, PTL

(* No outage is reported for a source that has delivered in it, or before  *)
(* it lasted longer than its limit, unless a crash lost its counts.        *)
THEOREM ReportedOutagesAreReal == Spec => []OutagesAreReal
<1>1. SilenceInvariant => OutagesAreReal
  BY DEF SilenceInvariant
<1> QED
  BY SilenceInvariantHolds, <1>1, PTL

-----------------------------------------------------------------------------
(* The tales.                                                              *)

Tale(s) == store[s] \o SetToSeq(News(s))

(* Opened, closed, opened later than that, and so on.                      *)
Paired(t) ==
    \A i \in 1 .. Len(t) :
        IF i % 2 = 1
        THEN t[i].kind = "open" /\ (i > 1 => t[i].since >= t[i - 1].at)
        ELSE t[i].kind = "closed" /\ t[i].since = t[i - 1].since /\ t[i].at >= t[i - 1].at

(* Every alert is raised after its outage began, and an outage begins after*)
(* everything told before it.                                              *)
InOrder(t) ==
    \A i \in 1 .. Len(t) :
        /\ t[i].since < t[i].at
        /\ i % 2 = 1 => \A j \in 1 .. (i - 1) : t[j].at <= t[i].since

ToldBy(t, time) == \A i \in 1 .. Len(t) : t[i].at <= time

(* The memory of a source knows the outage its tale leaves open; with none *)
(* open, the source has been heard since the last alert.                   *)
Agrees(memory, t) ==
    /\ memory = None => t = <<>>
    /\ memory # None =>
          IF Len(t) % 2 = 1 THEN memory.outage = t[Len(t)].since
          ELSE memory.outage = None /\ ToldBy(t, QuietSince(memory))

Telling(s) ==
    /\ Paired(Tale(s))
    /\ InOrder(Tale(s))
    /\ ToldBy(Tale(s), now)
    /\ Agrees(state[s], Tale(s))

TalesInvariant == \A s \in Sources \ lost.alerts : Telling(s)

LEMMA Parity ==
    \A n \in Nat : n % 2 \in {0, 1} /\ (n + 1) % 2 = 1 - (n % 2)
OBVIOUS

LEMMA JoinFew ==
    ASSUME NEW q \in Seq(Alert), NEW S \in SUBSET Alert, \A a, b \in S : a = b
    PROVE  /\ q \o SetToSeq(S) \in Seq(Alert)
           /\ S = {} => q \o SetToSeq(S) = q
           /\ \A a \in S : q \o SetToSeq(S) = Append(q, a)
<1>1. CASE S = {}
  <2>1. SetToSeq(S) = <<>>
    BY <1>1, SequenceOfFew
  <2>2. q \o <<>> = q
    OBVIOUS
  <2> QED
    BY <1>1, <2>1, <2>2
<1>2. ASSUME NEW a \in S
      PROVE  q \o SetToSeq(S) = Append(q, a)
  <2>1. SetToSeq(S) = <<a>>
    BY <1>2, SequenceOfFew
  <2>2. q \o <<a>> = Append(q, a)
    BY <1>2
  <2> QED
    BY <2>1, <2>2
<1>3. \A a \in S : Append(q, a) \in Seq(Alert)
  OBVIOUS
<1> QED
  BY <1>1, <1>2, <1>3

LEMMA TaleType ==
    ASSUME TypeOK, AtMostOne, NEW s \in Sources
    PROVE  /\ store[s] \in Seq(Alert)
           /\ Tale(s) \in Seq(Alert)
           /\ News(s) = {} => Tale(s) = store[s]
           /\ \A a \in News(s) : Tale(s) = Append(store[s], a)
<1>1. store[s] \in Seq(Alert) /\ News(s) \in SUBSET Alert /\ \A a, b \in News(s) : a = b
  BY DEF TypeOK, AtMostOne, News
<1> HIDE DEF News
<1> QED
  BY <1>1, JoinFew DEF Tale

LEMMA NextTaleType ==
    ASSUME TypeOK', AtMostOne', NEW s \in Sources
    PROVE  /\ News(s)' = {} => Tale(s)' = store'[s]
           /\ \A a \in News(s)' : Tale(s)' = Append(store'[s], a)
<1>1. store'[s] \in Seq(Alert) /\ News(s)' \in SUBSET Alert /\ \A a, b \in News(s)' : a = b
  BY DEF TypeOK, AtMostOne, News
<1> HIDE DEF News
<1> QED
  BY <1>1, JoinFew DEF Tale

(* A tale that ends with a closed outage, or has not begun, can go on with *)
(* the begin of one that is later than all of it.                          *)
LEMMA OpenFits ==
    ASSUME NEW t \in Seq(Alert), Paired(t), InOrder(t), Len(t) % 2 = 0,
           NEW a \in Alert, a.kind = "open", a.since < a.at, ToldBy(t, a.since)
    PROVE  /\ Paired(Append(t, a)) /\ InOrder(Append(t, a))
           /\ \A i \in 1 .. Len(t) : ~SameKey(t[i], a)
<1> DEFINE u == Append(t, a)
<1>1. /\ Len(t) \in Nat /\ Len(u) = Len(t) + 1 /\ u[Len(u)] = a
      /\ \A i \in 1 .. Len(t) : u[i] = t[i] /\ t[i] \in Alert
  OBVIOUS
<1>2. Len(u) % 2 = 1
  BY <1>1, Parity
<1>3. a.since \in Nat /\ a.at \in Nat /\ \A i \in 1 .. Len(t) : t[i].since \in Nat /\ t[i].at \in Nat
  BY <1>1, TimesAreNumbers DEF Alert
<1> HIDE DEF u
<1>4. Paired(u)
  <2> SUFFICES ASSUME NEW i \in 1 .. Len(u)
               PROVE  IF i % 2 = 1
                      THEN u[i].kind = "open" /\ (i > 1 => u[i].since >= u[i - 1].at)
                      ELSE /\ u[i].kind = "closed" /\ u[i].since = u[i - 1].since
                           /\ u[i].at >= u[i - 1].at
    BY DEF Paired
  <2>1. CASE i = Len(u)
    <3>1. i > 1 => u[i - 1] = t[Len(t)] /\ Len(t) \in 1 .. Len(t)
      BY <1>1, <2>1
    <3>2. i > 1 => u[i].since >= u[i - 1].at
      BY <1>1, <1>3, <2>1, <3>1 DEF ToldBy
    <3> QED
      BY <1>1, <1>2, <2>1, <3>2
  <2>2. CASE i \in 1 .. Len(t)
    <3>1. u[i] = t[i] /\ (i > 1 => u[i - 1] = t[i - 1])
      BY <1>1, <2>2
    <3>2. i % 2 # 1 => i > 1
      BY <2>2
    <3> QED
      BY <2>2, <3>1, <3>2 DEF Paired
  <2> QED
    BY <1>1, <2>1, <2>2
<1>5. InOrder(u)
  BY <1>1, <1>3 DEF InOrder, ToldBy
<1>6. \A i \in 1 .. Len(t) : ~SameKey(t[i], a)
  BY <1>3 DEF SameKey, InOrder, ToldBy
<1> QED
  BY <1>4, <1>5, <1>6 DEF u

(* A tale that leaves an outage open can go on with its end.               *)
LEMMA CloseFits ==
    ASSUME NEW t \in Seq(Alert), Paired(t), InOrder(t), Len(t) % 2 = 1,
           NEW a \in Alert, a.kind = "closed", a.since = t[Len(t)].since, ToldBy(t, a.at)
    PROVE  /\ Paired(Append(t, a)) /\ InOrder(Append(t, a))
           /\ \A i \in 1 .. Len(t) : ~SameKey(t[i], a)
<1> DEFINE u == Append(t, a)
<1>1. /\ Len(t) \in Nat /\ Len(u) = Len(t) + 1 /\ u[Len(u)] = a
      /\ \A i \in 1 .. Len(t) : u[i] = t[i] /\ t[i] \in Alert
  OBVIOUS
<1>2. Len(u) % 2 = 0 /\ Len(t) \in 1 .. Len(t)
  BY <1>1, Parity
<1>3. a.since \in Nat /\ a.at \in Nat /\ \A i \in 1 .. Len(t) : t[i].since \in Nat /\ t[i].at \in Nat
  BY <1>1, TimesAreNumbers DEF Alert
<1> HIDE DEF u
<1>4. Paired(u)
  <2> SUFFICES ASSUME NEW i \in 1 .. Len(u)
               PROVE  IF i % 2 = 1
                      THEN u[i].kind = "open" /\ (i > 1 => u[i].since >= u[i - 1].at)
                      ELSE /\ u[i].kind = "closed" /\ u[i].since = u[i - 1].since
                           /\ u[i].at >= u[i - 1].at
    BY DEF Paired
  <2>1. CASE i = Len(u)
    <3>1. u[i - 1] = t[Len(t)]
      BY <1>1, <1>2, <2>1
    <3>2. u[i].at >= u[i - 1].at
      BY <1>1, <1>2, <1>3, <2>1, <3>1 DEF ToldBy
    <3> QED
      BY <1>1, <1>2, <2>1, <3>1, <3>2
  <2>2. CASE i \in 1 .. Len(t)
    <3>1. u[i] = t[i] /\ (i > 1 => u[i - 1] = t[i - 1])
      BY <1>1, <2>2
    <3>2. i % 2 # 1 => i > 1
      BY <2>2
    <3> QED
      BY <2>2, <3>1, <3>2 DEF Paired
  <2> QED
    BY <1>1, <2>1, <2>2
<1>5. a.since < a.at
  BY <1>2, <1>3 DEF InOrder, ToldBy
<1>6. InOrder(u)
  BY <1>1, <1>2, <1>3, <1>5 DEF InOrder
<1>7. \A i \in 1 .. Len(t) : ~SameKey(t[i], a)
  <2> SUFFICES ASSUME NEW i \in 1 .. Len(t), SameKey(t[i], a)
               PROVE  FALSE
    OBVIOUS
  <2>1. t[i].kind = "closed" /\ t[i].since = a.since
    BY DEF SameKey
  <2>2. i # Len(t)
    BY <1>2, <2>1 DEF Paired
  <2>3. t[i].at <= t[Len(t)].since
    BY <1>1, <1>2, <2>2 DEF InOrder
  <2> QED
    BY <1>3, <2>1, <2>3 DEF InOrder
<1> QED
  BY <1>4, <1>6, <1>7 DEF u

-----------------------------------------------------------------------------

(* A step that leaves memory, store and news of a source alone.            *)
LEMMA SameTale ==
    ASSUME TypeOK, NEW s \in Sources, Telling(s), now' \in Times, now <= now',
           state'[s] = state[s], Tale(s)' = Tale(s), Tale(s) \in Seq(Alert)
    PROVE  Telling(s)'
<1>1. now \in Nat /\ now' \in Nat /\ \A i \in 1 .. Len(Tale(s)) : Tale(s)[i].at \in Nat
  <2>1. \A i \in 1 .. Len(Tale(s)) : Tale(s)[i] \in Alert
    OBVIOUS
  <2>2. \A a \in Alert : a.at \in Nat
    BY TimesAreNumbers DEF Alert
  <2> QED
    BY <2>1, <2>2, TimesAreNumbers DEF TypeOK
<1> HIDE DEF Tale
<1>2. ToldBy(Tale(s), now')
  BY <1>1 DEF Telling, ToldBy
<1> QED
  BY <1>2 DEF Telling, Paired, InOrder, ToldBy, Agrees, QuietSince

LEMMA NoNewsBeforehand ==
    ASSUME raised = {}, NEW s \in Sources
    PROVE  News(s) = {}
BY DEF News

LEMMA TalesInitially == Init => TalesInvariant
<1> SUFFICES ASSUME Init, NEW s \in Sources
             PROVE  Telling(s)
  BY DEF TalesInvariant
<1>1. store[s] = <<>> /\ state[s] = None
  BY DEF Init
<1>2. TypeOK /\ AtMostOne
  BY SilenceInitially DEF SilenceInvariant
<1>3. Tale(s) = <<>>
  BY <1>1, <1>2, NoNewsBeforehand, TaleType DEF Init
<1> QED
  BY <1>1, <1>3 DEF Telling, Paired, InOrder, ToldBy, Agrees

(* The only step that tells something new.                                 *)
LEMMA RunHeartbeatTells ==
    ASSUME SilenceInvariant, TalesInvariant, RunHeartbeat, SilenceInvariant'
    PROVE  TalesInvariant'
<1> SUFFICES ASSUME NEW s \in Sources \ lost.alerts
             PROVE  Telling(s)'
  BY DEF TalesInvariant, RunHeartbeat, Telling, Tale, News
<1> DEFINE t == store[s]
           m == EntryAfter(s)
<1>1. /\ TypeOK /\ AtMostOne /\ TypeOK' /\ AtMostOne' /\ raised = {}
      /\ now \in Nat /\ now' = now /\ store'[s] = t /\ state'[s] = m /\ store' = store
  BY TimesAreNumbers DEF SilenceInvariant, NothingEarly, RunHeartbeat, TypeOK
<1>2. Tale(s) = t /\ t \in Seq(Alert)
  BY <1>1, TaleType, NoNewsBeforehand
<1>3. Paired(t) /\ InOrder(t) /\ ToldBy(t, now) /\ Agrees(state[s], t)
  BY <1>2 DEF TalesInvariant, Telling
<1>4. m \in Entry /\ m # None /\ Loaded(s) \in Entry /\ Loaded(s).outage \in Times \union {None}
  <2>1. m \in Entry /\ Loaded(s) \in Entry
    BY <1>1, EntryAfterFacts, LoadedType
  <2> QED
    BY <2>1, EntryAssumption DEF Entry
<1>5. /\ Opens(s) => OpenAlert(s) \in raised'
      /\ Closes(s) => ClosedAlert(s) \in raised'
      /\ \A a \in raised' : a.source = s =>
            \/ a = OpenAlert(s) /\ Opens(s)
            \/ a = ClosedAlert(s) /\ Closes(s)
  <2>1. \A r : OpenAlert(r).source = r /\ ClosedAlert(r).source = r
    BY DEF OpenAlert, ClosedAlert
  <2> QED
    BY <2>1 DEF RunHeartbeat
<1>6. \A a \in raised' :
        a.source = s /\ (\A i \in 1 .. Len(t) : ~SameKey(t[i], a)) => Tale(s)' = Append(t, a)
  <2>1. \A a \in News(s)' : Tale(s)' = Append(store'[s], a)
    BY <1>1, NextTaleType
  <2> QED
    BY <1>1, <1>2, <2>1 DEF News
<1>7. ~Opens(s) /\ ~Closes(s) => Tale(s)' = t
  <2>1. ~Opens(s) /\ ~Closes(s) => News(s)' = {}
    BY <1>5 DEF News
  <2>2. News(s)' = {} => Tale(s)' = store'[s]
    BY <1>1, NextTaleType
  <2> QED
    BY <1>1, <2>1, <2>2
<1> HIDE DEF t, m
<1>8. Telling(s)' <=> Paired(Tale(s)') /\ InOrder(Tale(s)') /\ ToldBy(Tale(s)', now)
                      /\ Agrees(m, Tale(s)')
  BY <1>1 DEF Telling, Paired, InOrder, ToldBy, Agrees, QuietSince
<1>9. CASE state[s] = None
  <2>1. t = <<>> /\ Loaded(s) = [watching |-> now, last |-> None, outage |-> None]
    BY <1>3, <1>9 DEF Agrees, Loaded
  <2>2. ~Opens(s) /\ ~Closes(s)
    BY <1>1, <2>1, LimitsAreNumbers DEF Opens, Closes, QuietSince
  <2>3. m.outage = None
    BY <2>1, <2>2 DEF m, EntryAfter
  <2> QED
    BY <1>3, <1>4, <1>7, <1>8, <2>1, <2>2, <2>3 DEF Agrees, ToldBy
<1>10. CASE state[s] # None /\ Len(t) % 2 = 1
  <2>1. Loaded(s) = state[s] /\ state[s].outage = t[Len(t)].since
    BY <1>1, <1>3, <1>10, LoadedType DEF Agrees
  <2>2. Len(t) \in 1 .. Len(t) /\ t[Len(t)] \in Alert
    BY <1>2, <1>10
  <2>3. Loaded(s).outage \in Times /\ Loaded(s).outage # None
    BY <2>1, <2>2, TimesAreNumbers DEF Alert
  <2>4. ~Opens(s) /\ (Closes(s) <=> s \in received)
    BY <2>3 DEF Opens, Closes
  <2>5. CASE s \in received
    <3> DEFINE a == ClosedAlert(s)
    <3>1. a \in raised' /\ a \in Alert
      BY <1>1, <1>5, <2>4, <2>5, AlertTypes
    <3>2. a.source = s /\ a.kind = "closed" /\ a.since = t[Len(t)].since /\ a.at = now
      BY <2>1 DEF ClosedAlert
    <3> HIDE DEF a
    <3>3. ToldBy(t, a.at)
      BY <1>3, <3>2
    <3>4. /\ Paired(Append(t, a)) /\ InOrder(Append(t, a))
          /\ \A i \in 1 .. Len(t) : ~SameKey(t[i], a)
      BY <1>2, <1>3, <1>10, <3>1, <3>2, <3>3, CloseFits
    <3>5. Tale(s)' = Append(t, a)
      BY <1>6, <3>1, <3>2, <3>4
    <3>6. ToldBy(Append(t, a), now) /\ Len(Append(t, a)) % 2 # 1
      <4>1. Len(Append(t, a)) = Len(t) + 1 /\ Len(t) \in Nat
        BY <1>2, <3>1
      <4> QED
        BY <1>1, <1>2, <1>3, <1>10, <3>1, <3>2, <4>1, Parity DEF ToldBy
    <3>7. m.outage = None /\ QuietSince(m) = now
      BY <1>1, <2>5, EntryAfterFacts DEF m
    <3> QED
      BY <1>4, <1>8, <3>4, <3>5, <3>6, <3>7 DEF Agrees
  <2>6. CASE s \notin received
    <3>1. m = state[s] /\ Tale(s)' = t
      BY <1>7, <2>1, <2>4, <2>6 DEF m, EntryAfter
    <3> QED
      BY <1>3, <1>8, <3>1
  <2> QED
    BY <2>5, <2>6
<1>11. CASE state[s] # None /\ Len(t) % 2 # 1
  <2>1. Loaded(s) = state[s] /\ state[s].outage = None /\ ToldBy(t, QuietSince(Loaded(s)))
    BY <1>1, <1>3, <1>11, LoadedType DEF Agrees
  <2>2. ~Closes(s) /\ Len(t) \in Nat
    BY <1>2, <2>1 DEF Closes
  <2>3. CASE s \in received
    <3>1. ~Opens(s) /\ m.outage = None /\ QuietSince(m) = now
      BY <1>1, <2>3, EntryAfterFacts DEF m, Opens
    <3> QED
      BY <1>3, <1>4, <1>7, <1>8, <1>11, <2>2, <3>1 DEF Agrees
  <2>4. CASE s \notin received /\ ~Opens(s)
    <3>1. m = state[s]
      BY <2>1, <2>4 DEF m, EntryAfter
    <3> QED
      BY <1>3, <1>7, <1>8, <2>2, <2>4, <3>1
  <2>5. CASE Opens(s)
    <3> DEFINE a == OpenAlert(s)
    <3>1. a \in raised' /\ a \in Alert
      BY <1>1, <1>5, <2>5, AlertTypes
    <3>2. a.source = s /\ a.kind = "open" /\ a.since = QuietSince(Loaded(s)) /\ a.at = now
      BY DEF OpenAlert
    <3>3. a.since < a.at
      <4>1. Limit[s] \in Nat /\ QuietSince(Loaded(s)) \in Nat
        BY <1>1, LimitsAreNumbers, LoadedType, TimesAreNumbers
      <4> QED
        BY <1>1, <2>5, <3>2, <4>1 DEF Opens
    <3> HIDE DEF a
    <3>4. Len(t) % 2 = 0 /\ ToldBy(t, a.since)
      BY <1>11, <2>1, <2>2, <3>2, Parity
    <3>5. /\ Paired(Append(t, a)) /\ InOrder(Append(t, a))
          /\ \A i \in 1 .. Len(t) : ~SameKey(t[i], a)
      BY <1>2, <1>3, <3>1, <3>2, <3>3, <3>4, OpenFits
    <3>6. Tale(s)' = Append(t, a)
      BY <1>6, <3>1, <3>2, <3>5
    <3>7. /\ ToldBy(Append(t, a), now) /\ Len(Append(t, a)) % 2 = 1
          /\ Append(t, a)[Len(Append(t, a))] = a
      <4>1. Len(Append(t, a)) = Len(t) + 1
        BY <1>2, <3>1
      <4> QED
        BY <1>1, <1>2, <1>3, <2>2, <3>1, <3>2, <3>4, <4>1, Parity DEF ToldBy
    <3>8. m.outage = a.since
      BY <1>4, <2>5, <3>2 DEF m, EntryAfter, Opens, Entry
    <3> QED
      BY <1>4, <1>8, <3>5, <3>6, <3>7, <3>8 DEF Agrees
  <2> QED
    BY <2>3, <2>4, <2>5
<1> QED
  BY <1>9, <1>10, <1>11

LEMMA MergeTells ==
    ASSUME SilenceInvariant, TalesInvariant, Merge, SilenceInvariant'
    PROVE  TalesInvariant'
<1> SUFFICES ASSUME NEW s \in Sources \ lost.alerts
             PROVE  Telling(s)'
  BY DEF TalesInvariant, Merge, Telling, Tale, News
<1>1. TypeOK /\ AtMostOne /\ TypeOK' /\ AtMostOne' /\ raised' = {}
      /\ now' = now /\ state' = state /\ Telling(s)
  BY DEF SilenceInvariant, Merge, TalesInvariant
<1>2. store'[s] = Tale(s)
  BY DEF Merge, Tale, News
<1>3. Tale(s)' = store'[s]
  <2>1. News(s)' = {}
    BY <1>1 DEF News
  <2> QED
    BY <1>1, <2>1, NextTaleType
<1>4. Tale(s) \in Seq(Alert) /\ now \in Times /\ now <= now'
  BY <1>1, TaleType, TimesAreNumbers DEF TypeOK
<1> QED
  BY <1>1, <1>2, <1>3, <1>4, SameTale

(* A step that tells nothing: it leaves the store alone, and the news of   *)
(* the sources that lose none.                                             *)
LEMMA QuietStepTells ==
    ASSUME SilenceInvariant, TalesInvariant, SilenceInvariant',
           UNCHANGED <<state, store>>, now <= now', lost.alerts \subseteq lost'.alerts,
           \/ raised' = raised
           \/ raised' = {} /\ \A a \in raised : a.source \in lost'.alerts
    PROVE  TalesInvariant'
<1> SUFFICES ASSUME NEW s \in Sources \ lost'.alerts
             PROVE  Telling(s)'
  BY DEF TalesInvariant
<1>1. TypeOK /\ AtMostOne /\ now' \in Times /\ Telling(s) /\ Tale(s) \in Seq(Alert)
  BY TaleType DEF SilenceInvariant, TalesInvariant, TypeOK
<1>2. News(s)' = News(s)
  BY DEF News
<1>3. Tale(s)' = Tale(s)
  BY <1>2 DEF Tale
<1> QED
  BY <1>1, <1>3, SameTale

LEMMA TalesKept ==
    ASSUME SilenceInvariant, TalesInvariant, [Next]_vars, SilenceInvariant'
    PROVE  TalesInvariant'
<1>1. now \in Nat
  BY TimesAreNumbers DEF SilenceInvariant, TypeOK
<1>2. CASE Collect
  BY <1>1, <1>2, QuietStepTells DEF Collect
<1>3. CASE RunHeartbeat
  BY <1>3, RunHeartbeatTells
<1>4. CASE Merge
  BY <1>4, MergeTells
<1>5. CASE Crash
  <2>1. \A a \in raised : a.source \in lost'.alerts
    BY <1>5 DEF Crash
  <2>2. lost.alerts \subseteq lost'.alerts
    BY <1>5 DEF Crash
  <2> QED
    BY <1>1, <1>5, <2>1, <2>2, QuietStepTells DEF Crash
<1>6. CASE Tick
  BY <1>1, <1>6, QuietStepTells DEF Tick
<1>7. ASSUME NEW s \in Sources, Arrive(s)
      PROVE  TalesInvariant'
  BY <1>1, <1>7, QuietStepTells DEF Arrive
<1>8. CASE UNCHANGED vars
  BY <1>1, <1>8, QuietStepTells DEF vars
<1> QED
  BY <1>2, <1>3, <1>4, <1>5, <1>6, <1>7, <1>8 DEF Next

THEOREM TalesInvariantHolds == Spec => [](SilenceInvariant /\ TalesInvariant)
<1>1. Init => SilenceInvariant /\ TalesInvariant
  BY SilenceInitially, TalesInitially
<1>2. SilenceInvariant /\ [Next]_vars => SilenceInvariant'
  BY CollectKeepsSilence, RunHeartbeatKeepsSilence, MergeKeepsSilence, CrashKeepsSilence,
     WorldKeepsSilence
     DEF Next
<1>3. SilenceInvariant /\ TalesInvariant /\ [Next]_vars
        => SilenceInvariant' /\ TalesInvariant'
  BY <1>2, TalesKept
<1> QED
  BY <1>1, <1>3, PTL DEF Spec

(* The store tells of every source one outage after the other, each opened *)
(* and closed once, unless a crash lost alerts of the source.              *)
THEOREM OutagesArePaired == Spec => []AlertsPaired
<1>1. SilenceInvariant /\ TalesInvariant => AlertsPaired
  <2> SUFFICES ASSUME SilenceInvariant, TalesInvariant, NEW s \in Sources \ lost.alerts
               PROVE  /\ DOMAIN store[s] = 1 .. Len(store[s])
                      /\ Paired(store[s])
                      /\ pc # "detected" /\ state[s] # None =>
                            (state[s].outage # None <=> Len(store[s]) % 2 = 1)
    BY DEF AlertsPaired, Paired
  <2>1. TypeOK /\ AtMostOne /\ store[s] \in Seq(Alert) /\ Telling(s)
    BY DEF SilenceInvariant, TypeOK, TalesInvariant
  <2>2. CASE News(s) = {}
    <3>1. Tale(s) = store[s]
      BY <2>1, <2>2, TaleType
    <3>2. Paired(store[s]) /\ Agrees(state[s], store[s])
      BY <2>1, <3>1 DEF Telling
    <3>3. Len(store[s]) % 2 = 1 => store[s][Len(store[s])].since # None
      <4>1. Len(store[s]) % 2 = 1 => store[s][Len(store[s])] \in Alert
        <5>1. \A q \in Seq(Alert) : Len(q) % 2 = 1 => q[Len(q)] \in Alert
          OBVIOUS
        <5> QED
          BY <2>1, <5>1
      <4> QED
        BY <4>1, TimesAreNumbers DEF Alert
    <3>4. state[s] # None => (state[s].outage # None <=> Len(store[s]) % 2 = 1)
      BY <3>2, <3>3 DEF Agrees
    <3>5. DOMAIN store[s] = 1 .. Len(store[s])
      BY <2>1
    <3> QED
      BY <3>2, <3>4, <3>5
  <2>3. CASE News(s) # {}
    <3>1. PICK a \in News(s) : TRUE
      BY <2>3
    <3>2. Tale(s) = Append(store[s], a) /\ a \in Alert /\ pc = "detected"
      BY <2>1, TaleType, NewsToSeq DEF News, SilenceInvariant, NothingEarly
    <3>3. \A i \in 1 .. Len(store[s]) : Tale(s)[i] = store[s][i]
      BY <2>1, <3>2
    <3>4. Len(Tale(s)) = Len(store[s]) + 1
      BY <2>1, <3>2
    <3>5. Paired(store[s])
      <4> SUFFICES ASSUME NEW i \in 1 .. Len(store[s])
                   PROVE  IF i % 2 = 1
                          THEN /\ store[s][i].kind = "open"
                               /\ i > 1 => store[s][i].since >= store[s][i - 1].at
                          ELSE /\ store[s][i].kind = "closed"
                               /\ store[s][i].since = store[s][i - 1].since
                               /\ store[s][i].at >= store[s][i - 1].at
        BY DEF Paired
      <4>1. i \in 1 .. Len(Tale(s)) /\ Tale(s)[i] = store[s][i]
            /\ (i > 1 => Tale(s)[i - 1] = store[s][i - 1]) /\ (i % 2 # 1 => i > 1)
        BY <2>1, <3>3, <3>4
      <4> QED
        BY <2>1, <4>1 DEF Telling, Paired
    <3> QED
      BY <3>2, <3>5
  <2> QED
    BY <2>2, <2>3
<1> QED
  BY TalesInvariantHolds, <1>1, PTL

-----------------------------------------------------------------------------
(* No silence is missed.                                                   *)

(* The memory of a source is never younger than its input, and a cycle that*)
(* has run the rule remembers an outage for every source silent too long.  *)
NothingMissed ==
    \A s \in Sources :
        /\ state[s] # None =>
              heard[s] \in Times /\ heard[s] <= now /\ QuietSince(state[s]) <= heard[s]
        /\ pc = "detected" =>
              /\ state[s] # None
              /\ s \notin received /\ checkedAt - QuietSince(state[s]) > Limit[s]
                    => state[s].outage # None

LEMMA RunHeartbeatMissesNothing ==
    ASSUME SilenceInvariant, NothingMissed, RunHeartbeat
    PROVE  NothingMissed'
<1> SUFFICES ASSUME NEW s \in Sources
             PROVE  /\ state'[s] # None
                    /\ heard'[s] \in Times /\ heard'[s] <= now
                    /\ QuietSince(state'[s]) <= heard'[s]
                    /\ s \notin received /\ now - QuietSince(state'[s]) > Limit[s]
                          => state'[s].outage # None
  BY DEF NothingMissed, RunHeartbeat, QuietSince
<1>1. TypeOK /\ now \in Times /\ now \in Nat /\ state'[s] = EntryAfter(s)
      /\ EntryAfter(s) \in Entry /\ Loaded(s) \in Entry
  BY EntryAfterFacts, LoadedType, TimesAreNumbers DEF SilenceInvariant, TypeOK, RunHeartbeat
<1>2. state'[s] # None
  BY <1>1, EntryAssumption
<1>3. heard'[s] \in Times /\ heard'[s] <= now /\ QuietSince(EntryAfter(s)) <= heard'[s]
  <2>1. CASE s \in received \/ state[s] = None
    <3>1. heard'[s] = now
      BY <2>1 DEF RunHeartbeat
    <3>2. QuietSince(EntryAfter(s)) = now
      BY <1>1, <2>1, EntryAfterFacts DEF Loaded, QuietSince
    <3> QED
      BY <1>1, <3>1, <3>2
  <2>2. CASE s \notin received /\ state[s] # None
    <3>1. heard'[s] = heard[s]
      BY <2>2 DEF RunHeartbeat
    <3>2. QuietSince(EntryAfter(s)) = QuietSince(state[s])
      BY <1>1, <2>2, EntryAfterFacts, LoadedType
    <3> QED
      BY <2>2, <3>1, <3>2 DEF NothingMissed
  <2> QED
    BY <2>1, <2>2
<1>4. ASSUME s \notin received, now - QuietSince(EntryAfter(s)) > Limit[s]
      PROVE  EntryAfter(s).outage # None
  <2>1. QuietSince(EntryAfter(s)) = QuietSince(Loaded(s)) /\ QuietSince(Loaded(s)) \in Times
    BY <1>1, <1>4, EntryAfterFacts, LoadedType
  <2>2. CASE Loaded(s).outage = None
    <3>1. Opens(s)
      BY <1>4, <2>1, <2>2 DEF Opens
    <3>2. EntryAfter(s).outage = QuietSince(Loaded(s))
      BY <1>1, <1>4, <3>1 DEF EntryAfter, Entry
    <3> QED
      BY <2>1, <3>2, TimesAreNumbers
  <2>3. CASE Loaded(s).outage # None
    <3>1. EntryAfter(s) = Loaded(s)
      BY <1>4, <2>3 DEF EntryAfter, Opens
    <3> QED
      BY <2>3, <3>1
  <2> QED
    BY <2>2, <2>3
<1> QED
  BY <1>1, <1>2, <1>3, <1>4

LEMMA MissesNothing ==
    ASSUME SilenceInvariant, NothingMissed, [Next]_vars
    PROVE  NothingMissed'
<1>1. CASE Collect
  <2>1. now \in Times /\ now \in Nat /\ TypeOK
    BY TimesAreNumbers DEF SilenceInvariant, TypeOK
  <2> SUFFICES ASSUME NEW s \in Sources, state[s] # None
               PROVE  /\ heard'[s] \in Times /\ heard'[s] <= now
                      /\ QuietSince(state[s]) <= heard'[s]
    BY <1>1 DEF NothingMissed, Collect, QuietSince
  <2>2. QuietSince(state[s]) <= now
    <3>1. QuietSince(state[s]) \in Times
      BY <2>1, LoadedType
    <3>2. heard[s] \in Times /\ heard[s] <= now /\ QuietSince(state[s]) <= heard[s]
      BY DEF NothingMissed
    <3>3. QuietSince(state[s]) \in Nat /\ heard[s] \in Nat
      BY <3>1, <3>2, TimesAreNumbers
    <3> QED
      BY <2>1, <3>2, <3>3
  <2>3. heard'[s] = now \/ heard'[s] = heard[s]
    BY <1>1 DEF Collect
  <2> QED
    BY <2>1, <2>2, <2>3 DEF NothingMissed
<1>2. CASE RunHeartbeat
  BY <1>2, RunHeartbeatMissesNothing
<1>3. CASE Merge \/ Crash
  BY <1>3 DEF Merge, Crash, NothingMissed, QuietSince
<1>4. CASE Tick \/ (\E s \in Sources : Arrive(s)) \/ UNCHANGED vars
  <2>1. UNCHANGED <<state, pc, received, heard, checkedAt>>
    BY <1>4 DEF Tick, Arrive, vars
  <2>2. now' \in Nat /\ now \in Nat /\ now <= now'
    BY <1>4, TimesAreNumbers DEF Tick, Arrive, vars, SilenceInvariant, TypeOK
  <2>3. ASSUME NEW s \in Sources, heard[s] \in Times, heard[s] <= now
        PROVE  heard[s] <= now'
    <3>1. heard[s] \in Nat
      BY <2>3, TimesAreNumbers
    <3> QED
      BY <2>2, <2>3, <3>1
  <2> QED
    BY <2>1, <2>3 DEF NothingMissed, QuietSince
<1> QED
  BY <1>1, <1>2, <1>3, <1>4 DEF Next

LEMMA MergeTellsOfSilence ==
    ASSUME SilenceInvariant, TalesInvariant, NothingMissed, Merge,
           NEW s \in Sources \ (lost.alerts \union received),
           checkedAt - heard[s] > Limit[s]
    PROVE  \E a \in Stored(s)' : a.kind = "open" /\ \A b \in Stored(s)' : b.at <= a.at
<1> DEFINE t == Tale(s)
<1>1. TypeOK /\ AtMostOne /\ pc = "detected" /\ store'[s] = t /\ Telling(s)
  BY DEF SilenceInvariant, Merge, Tale, News, TalesInvariant
<1>2. t \in Seq(Alert)
  BY <1>1, TaleType
<1>3. state[s].outage # None /\ state[s] # None
  <2>1. state[s] # None /\ heard[s] \in Nat /\ QuietSince(state[s]) <= heard[s]
    BY <1>1, TimesAreNumbers DEF NothingMissed
  <2>2. QuietSince(state[s]) \in Nat /\ checkedAt \in Nat /\ Limit[s] \in Nat
    BY <1>1, <2>1, LoadedType, LimitsAreNumbers, TimesAreNumbers DEF TypeOK
  <2>3. checkedAt - QuietSince(state[s]) > Limit[s]
    BY <2>1, <2>2
  <2> QED
    BY <1>1, <2>1, <2>3 DEF NothingMissed
<1>4. Len(t) % 2 = 1 /\ Paired(t) /\ InOrder(t)
  BY <1>1, <1>3 DEF Telling, Agrees
<1> HIDE DEF t
<1>5. Len(t) \in 1 .. Len(t) /\ DOMAIN t = 1 .. Len(t)
  BY <1>2, <1>4
<1>6. Stored(s)' = {t[i] : i \in 1 .. Len(t)}
  BY <1>1, <1>5 DEF Stored
<1>7. t[Len(t)].kind = "open"
  BY <1>4, <1>5 DEF Paired
<1>8. ASSUME NEW i \in 1 .. Len(t)
      PROVE  t[i].at <= t[Len(t)].at
  <2>1. \A a \in Alert : a.at \in Nat /\ a.since \in Nat
    BY TimesAreNumbers DEF Alert
  <2>2. t[i] \in Alert /\ t[Len(t)] \in Alert
    BY <1>2, <1>5
  <2>3. CASE i = Len(t)
    BY <2>1, <2>2, <2>3
  <2>4. CASE i # Len(t)
    <3>1. i \in 1 .. (Len(t) - 1)
      BY <1>2, <2>4
    <3>2. t[i].at <= t[Len(t)].since /\ t[Len(t)].since < t[Len(t)].at
      BY <1>4, <1>5, <3>1 DEF InOrder
    <3> QED
      BY <2>1, <2>2, <3>2
  <2> QED
    BY <2>3, <2>4
<1> QED
  BY <1>5, <1>6, <1>7, <1>8

(* A cycle that finishes leaves an open alert for every source that was    *)
(* silent beyond its limit when the rule ran, whatever crashed before.     *)
THEOREM SilenceIsNoticed == Spec => SilenceNoticed
<1> DEFINE Inv == SilenceInvariant /\ TalesInvariant /\ NothingMissed
           Noticed ==
               pc = "detected" /\ pc' = "idle" /\ crashes' = crashes =>
                  \A s \in Sources \ (lost.alerts \union received) :
                      checkedAt - heard[s] > Limit[s]
                          => \E a \in Stored(s)' :
                                /\ a.kind = "open"
                                /\ \A b \in Stored(s)' : b.at <= a.at
<1>1. Init => NothingMissed
  BY DEF Init, NothingMissed
<1>2. SilenceInvariant /\ NothingMissed /\ [Next]_vars => NothingMissed'
  BY MissesNothing
<1>3. Inv /\ [Next]_vars => [Noticed]_vars
  <2> SUFFICES ASSUME Inv, Next, pc = "detected", pc' = "idle", crashes' = crashes
               PROVE  Noticed
    OBVIOUS
  <2>1. Merge
    <3>1. crashes \in Nat
      BY BoundAssumption DEF SilenceInvariant, TypeOK
    <3> QED
      BY <3>1 DEF Next, Collect, RunHeartbeat, Crash, Tick, Arrive
  <2> QED
    BY <2>1, MergeTellsOfSilence
<1> HIDE DEF Noticed
<1>4. Spec => [][Noticed]_vars
  BY TalesInvariantHolds, <1>1, <1>2, <1>3, PTL DEF Spec
<1> QED
  BY <1>4 DEF SilenceNoticed, Noticed

=============================================================================
