-------------------------- MODULE DashboardProofs --------------------------
(***************************************************************************)
(* What engines publish and the API's copy of it, for any alerts, any      *)
(* number of engines that publish at the same time, any number of threads  *)
(* and any faults: the published files never run ahead of each other       *)
(* unless engines that overlap have mixed them up, a cached file is never  *)
(* older than its stamp, and the pages of any listing show all of it, once *)
(* and in order.  And of the cache of locations: the service is not asked  *)
(* more often than it should.                                              *)
(***************************************************************************)
EXTENDS Dashboard, GeoCache, FiniteSetTheorems, SequenceTheorems,
        WellFoundedInduction, TLAPS

Active(e) == step[e] # "idle"

(* A summary counts the public alerts of the list it was built from.       *)
Describes(summary) ==
    summary.total = Total(summary.of) /\ summary.notable \subseteq PublicIds(summary.of)

DraftsDescribe ==
    \A e \in Engines : step[e] \notin {"idle", "merged"} => Describes(draft[e])

(* Unless engines overlap, one is on its way at most, with the list that   *)
(* is stored.                                                              *)
OneAtATime ==
    ~ shared => \A e \in Engines : Active(e) =>
        draft[e].of = alerts /\ \A other \in Engines : Active(other) => other = e

(* Past the database step the database then holds what the engine counted, *)
(* or its draft says that it may not; past the details so do the details.  *)
FilesFollow ==
    ~ shared => \A e \in Engines :
        /\ step[e] \in {"stored", "detailed"} /\ "alerts" \notin draft[e].warnings =>
              /\ db = PublicIds(alerts) /\ "db" \notin mixed
              /\ draft[e].counts = Total(alerts)
        /\ step[e] = "detailed" /\ "attackers" \notin draft[e].warnings =>
              details.of = alerts /\ "details" \notin mixed

(* Whoever is on its way merged after the engine that wrote the summary,   *)
(* if that one was alone: what it writes has more in it, not less.         *)
PageIsOlder ==
    page.alone =>
        /\ page.notable \subseteq PublicIds(page.of)
        /\ \A e \in Engines : Active(e) => page.of \subseteq draft[e].of

(* The database holds no alert that is not public.                         *)
OnlyPublicAlerts == db \subseteq PublicIds(alerts)

(* What a request has stamped and loaded is no newer than the file, and it *)
(* was loaded after it was stamped.                                        *)
RequestsInOrder ==
    \A r \in Requests :
        /\ request[r].stamp <= details.stamp
        /\ request[r].at = "store" => request[r].stamp <= request[r].version

FilesInvariant ==
    /\ IsFiniteSet(alerts)
    /\ OnlyPublicAlerts
    /\ DraftsDescribe
    /\ OneAtATime
    /\ FilesFollow
    /\ PageIsOlder
    /\ SummaryNotAhead

ApiInvariant == RequestsInOrder /\ StaleIsNoticed

DashboardInvariant == DashboardTypeOK /\ FilesInvariant /\ ApiInvariant

-----------------------------------------------------------------------------

(* The counts of the summary and of the database are those of one set:     *)
(* different public alerts have different ids.                             *)
LEMMA IdsCountAlerts ==
    ASSUME NEW set \in SUBSET Stored, IsFiniteSet(set)
    PROVE  /\ Cardinality(PublicIds(set)) = Total(set)
           /\ Total(set) \in Nat
           /\ IsFiniteSet(PublicIds(set))
<1> DEFINE public == {a \in set : IsPublic(a)}
           id == [a \in public |-> a.id]
<1>1. IsFiniteSet(public) /\ Cardinality(public) \in Nat
  BY FS_Subset, FS_CardinalityType
<1>2. PublicIds(set) = {a.id : a \in public}
  BY DEF PublicIds, Ids
<1>3. id \in Bijection(public, PublicIds(set))
  <2>1. id \in Injection(public, PublicIds(set))
    BY <1>2, IdAssumption DEF Injection, IsInjective
  <2>2. id \in Surjection(public, PublicIds(set))
    BY <1>2 DEF Surjection
  <2> QED
    BY <2>1, <2>2 DEF Bijection
<1>4. IsFiniteSet(PublicIds(set)) /\ Cardinality(PublicIds(set)) = Cardinality(public)
  BY <1>1, <1>3, FS_Bijection DEF ExistsBijection
<1> QED
  BY <1>1, <1>4 DEF Total

LEMMA NotableIsPublic ==
    ASSUME NEW set
    PROVE  Ids({a \in set : IsNotable(a)}) \subseteq PublicIds(set)
BY DEF Ids, PublicIds, IsNotable

LEMMA PublicIdsGrow ==
    ASSUME NEW set, NEW more, set \subseteq more
    PROVE  PublicIds(set) \subseteq PublicIds(more) /\ Ids(set) \subseteq Ids(more)
           /\ PublicIds(set) \subseteq Ids(set)
BY DEF PublicIds, Ids

LEMMA NoSummaryFacts ==
    /\ NoSummary \in Summary /\ PublicIds({}) = {}
    /\ \A alone \in BOOLEAN : AsPage(NoSummary, alone) \in PageType
<1>1. NoSummary \in Summary
  BY DEF NoSummary, Summary
<1> QED
  BY <1>1 DEF PageType, PublicIds, Ids

LEMMA InvariantInitially == DashboardInit => DashboardInvariant
<1> SUFFICES ASSUME DashboardInit
             PROVE  DashboardInvariant
  OBVIOUS
<1>1. DashboardTypeOK
  <2>1. NoSummary \in Summary /\ page \in PageType
    BY NoSummaryFacts DEF DashboardInit
  <2>2. faults \in 0 .. MaxFaults /\ repeats \in 0 .. MaxRepeats
    BY DashboardBoundAssumption DEF DashboardInit
  <2>3. request \in [Requests -> Request] /\ cache \in [stamp : Nat, version : Nat]
    BY DEF DashboardInit, Waiting, Request
  <2> QED
    BY <2>1, <2>2, <2>3 DEF DashboardInit, DashboardTypeOK, Steps
<1>2. IsFiniteSet(alerts)
  BY FS_EmptySet DEF DashboardInit
<1>3. \A e \in Engines : step[e] = "idle"
  BY DEF DashboardInit
<1>4. DraftsDescribe /\ OneAtATime /\ FilesFollow
  BY <1>3 DEF DraftsDescribe, OneAtATime, FilesFollow, Active
<1>5. OnlyPublicAlerts /\ PageIsOlder /\ SummaryNotAhead
  BY <1>3, NoSummaryFacts
     DEF DashboardInit, OnlyPublicAlerts, PageIsOlder, SummaryNotAhead, NoSummary, AsPage, Active
<1>6. ApiInvariant
  BY DEF DashboardInit, ApiInvariant, RequestsInOrder, StaleIsNoticed, Waiting
<1> QED
  BY <1>1, <1>2, <1>4, <1>5, <1>6 DEF DashboardInvariant, FilesInvariant

-----------------------------------------------------------------------------
(* The steps of a publish.                                                 *)

(* A step of an engine that goes on: its next step and draft, of the list  *)
(* it had.                                                                 *)
GoesOn(e, next, d) ==
    /\ step[e] # "idle" /\ next \in Steps \ {"idle", "merged"}
    /\ step' = [step EXCEPT ![e] = next]
    /\ draft' = [draft EXCEPT ![e] = d]
    /\ d \in Summary /\ d.of = draft[e].of /\ Describes(d)

(* What it may do to the two files: leave one, write its own, or mix it up *)
(* with another engine's.                                                  *)
WritesFiles(e) ==
    /\ mixed' \in SUBSET Files /\ dbTmp' \in BOOLEAN
    /\ \/ db' = db /\ ("db" \in mixed => "db" \in mixed')
       \/ db' = PublicIds(draft[e].of)
       \/ db' = {} /\ "db" \in mixed'
    /\ \/ details' = details /\ ("details" \in mixed => "details" \in mixed')
       \/ NewDetails(draft[e].of)
       \/ NewDetails({}) /\ "details" \in mixed'

(* And what must be so when it was alone.                                  *)
FollowsAlone(next, d) ==
    ~ shared =>
        /\ next \in {"stored", "detailed"} /\ "alerts" \notin d.warnings =>
              db' = PublicIds(alerts) /\ "db" \notin mixed' /\ d.counts = Total(alerts)
        /\ next = "detailed" /\ "attackers" \notin d.warnings =>
              details'.of = alerts /\ "details" \notin mixed'

(* What such a step leaves alone.                                          *)
SameLists ==
    /\ UNCHANGED <<alerts, shared, page, cache, request>>
    /\ faults' \in 0 .. MaxFaults /\ repeats' \in 0 .. MaxRepeats

LEMMA SameAlertsSameSets ==
    ASSUME UNCHANGED alerts
    PROVE  /\ Summary' = Summary /\ PageType' = PageType
           /\ PublicIds(alerts)' = PublicIds(alerts)
           /\ Ids(alerts)' = Ids(alerts) /\ Total(alerts)' = Total(alerts)
BY DEF Summary, PageType, PublicIds, Ids, Total

(* The types in a state, from those of its parts.                          *)
LEMMA StepTyped ==
    ASSUME DashboardInvariant, NEW e \in Engines, NEW next, NEW d,
           GoesOn(e, next, d), WritesFiles(e), SameLists
    PROVE  /\ DashboardTypeOK' /\ OnlyPublicAlerts' /\ details'.stamp >= details.stamp
           /\ details'.stamp \in Nat
<1>1. /\ UNCHANGED <<alerts, shared, page, cache, request>>
      /\ Summary' = Summary /\ PageType' = PageType /\ Request' = Request
      /\ PublicIds(alerts)' = PublicIds(alerts) /\ Ids(alerts)' = Ids(alerts)
  BY SameAlertsSameSets DEF SameLists, Request
<1>2. draft[e].of \subseteq alerts /\ draft[e] \in Summary
  BY DEF DashboardInvariant, DashboardTypeOK, Summary
<1>3. db' \subseteq PublicIds(alerts) /\ PublicIds(alerts) \subseteq Ids(alerts)
  BY <1>2, PublicIdsGrow
     DEF WritesFiles, DashboardInvariant, FilesInvariant, OnlyPublicAlerts
<1>4. details \in [stamp : Nat, of : SUBSET alerts]
  BY DEF DashboardInvariant, DashboardTypeOK
<1>5. details' \in [stamp : Nat, of : SUBSET alerts] /\ details'.stamp >= details.stamp
  BY <1>2, <1>4 DEF WritesFiles, NewDetails
<1>6. step' \in [Engines -> Steps] /\ draft' \in [Engines -> Summary]
  BY DEF GoesOn, DashboardInvariant, DashboardTypeOK, Steps
<1>7. DashboardTypeOK'
  BY <1>1, <1>3, <1>5, <1>6
     DEF DashboardInvariant, DashboardTypeOK, SameLists, WritesFiles
<1> QED
  BY <1>1, <1>3, <1>5, <1>7 DEF OnlyPublicAlerts

LEMMA GoesOnKeeps ==
    ASSUME DashboardInvariant, NEW e \in Engines, NEW next, NEW d,
           GoesOn(e, next, d), WritesFiles(e), SameLists, FollowsAlone(next, d)
    PROVE  DashboardInvariant'
<1>1. UNCHANGED <<alerts, shared, page, cache, request>>
      /\ PublicIds(alerts)' = PublicIds(alerts) /\ Total(alerts)' = Total(alerts)
  BY SameAlertsSameSets DEF SameLists
<1>2. /\ step \in [Engines -> Steps] /\ draft \in [Engines -> Summary]
      /\ details.stamp \in Nat
  BY DEF DashboardInvariant, DashboardTypeOK
<1>3. /\ step'[e] = next /\ draft'[e] = d /\ d.of = draft[e].of
      /\ \A other \in Engines : other # e =>
            step'[other] = step[other] /\ draft'[other] = draft[other]
      /\ step[e] # "idle" /\ next # "idle" /\ Describes(d)
  BY <1>2 DEF GoesOn
<1>4. DashboardTypeOK' /\ OnlyPublicAlerts' /\ details'.stamp >= details.stamp
      /\ details'.stamp \in Nat
  BY StepTyped
<1>5. DraftsDescribe'
  <2>1. DraftsDescribe
    BY DEF DashboardInvariant, FilesInvariant
  <2>2. ASSUME NEW other \in Engines, step'[other] \notin {"idle", "merged"}
        PROVE  Describes(draft'[other])
    BY <1>3, <2>1, <2>2 DEF DraftsDescribe
  <2> QED
    BY <2>2 DEF DraftsDescribe, Describes, Total, PublicIds, Ids
<1>6. OneAtATime'
  BY <1>1, <1>3 DEF DashboardInvariant, FilesInvariant, OneAtATime, Active
<1>7. FilesFollow'
  <2>1. ~ shared => \A other \in Engines : other # e => step'[other] = "idle"
    BY <1>3 DEF DashboardInvariant, FilesInvariant, OneAtATime, Active
  <2> QED
    BY <1>1, <1>3, <2>1 DEF FilesFollow, FollowsAlone
<1>8. PageIsOlder'
  <2>1. PublicIds(page.of)' = PublicIds(page.of)
    BY <1>1 DEF PublicIds, Ids
  <2> QED
    BY <1>1, <1>3, <2>1 DEF DashboardInvariant, FilesInvariant, PageIsOlder, Active
<1>9. SummaryNotAhead'
  <2>1. SUFFICES ASSUME page.alone
                 PROVE  SummaryNotAhead'
    BY <1>1 DEF SummaryNotAhead
  <2>2. page.of \subseteq draft[e].of /\ page.notable \subseteq PublicIds(page.of)
    BY <1>3, <2>1 DEF DashboardInvariant, FilesInvariant, PageIsOlder, Active
  <2>3. PublicIds(page.of) \subseteq PublicIds(draft[e].of)
    BY <2>2, PublicIdsGrow
  <2>4. PublicIds(page.of)' = PublicIds(page.of)
    BY <1>1 DEF PublicIds, Ids
  <2>5. /\ "alerts" \notin page.warnings =>
              /\ page.counts = page.total
              /\ "db" \notin mixed => PublicIds(page.of) \union page.notable \subseteq db
        /\ "attackers" \notin page.warnings /\ "details" \notin mixed =>
              page.of \subseteq details.of
    BY <2>1 DEF DashboardInvariant, FilesInvariant, SummaryNotAhead
  <2>6. "alerts" \notin page.warnings /\ "db" \notin mixed' =>
            PublicIds(page.of) \union page.notable \subseteq db'
    BY <2>2, <2>3, <2>5 DEF WritesFiles
  <2>7. "attackers" \notin page.warnings /\ "details" \notin mixed' =>
            page.of \subseteq details'.of
    BY <2>2, <2>5 DEF WritesFiles, NewDetails
  <2> QED
    BY <1>1, <2>4, <2>5, <2>6, <2>7 DEF SummaryNotAhead
<1>10. ApiInvariant'
  <2>1. \A r \in Requests : request[r].stamp \in Nat
    BY DEF DashboardInvariant, DashboardTypeOK, Request
  <2> QED
    BY <1>1, <1>2, <1>4, <2>1
       DEF DashboardInvariant, ApiInvariant, RequestsInOrder, StaleIsNoticed
<1>11. IsFiniteSet(alerts')
  BY <1>1 DEF DashboardInvariant, FilesInvariant
<1> QED
  BY <1>4, <1>5, <1>6, <1>7, <1>8, <1>9, <1>10, <1>11 DEF DashboardInvariant, FilesInvariant

(* What an engine on its way has: a list that is stored, and, alone, all   *)
(* of it.                                                                  *)
LEMMA DraftFacts ==
    ASSUME DashboardInvariant, NEW e \in Engines
    PROVE  /\ draft[e] \in Summary /\ draft[e].of \in SUBSET Stored
           /\ IsFiniteSet(draft[e].of) /\ IsFiniteSet(db)
           /\ step[e] \notin {"idle", "merged"} => Describes(draft[e])
           /\ ~ shared /\ step[e] # "idle" => draft[e].of = alerts
<1>1. draft[e] \in Summary /\ alerts \in SUBSET Stored /\ IsFiniteSet(alerts)
      /\ db \subseteq PublicIds(alerts)
  BY DEF DashboardInvariant, DashboardTypeOK, FilesInvariant, OnlyPublicAlerts
<1>2. draft[e].of \subseteq alerts
  BY <1>1 DEF Summary
<1>3. IsFiniteSet(draft[e].of) /\ IsFiniteSet(db)
  BY <1>1, <1>2, FS_Subset, IdsCountAlerts
<1> QED
  BY <1>1, <1>2, <1>3
     DEF DashboardInvariant, FilesInvariant, DraftsDescribe, OneAtATime, Active

(* A draft is only ever added a count or a warning.                        *)
LEMMA WarnFacts ==
    ASSUME DashboardInvariant, NEW e \in Engines, NEW text \in Warnings, Warn(e, text)
    PROVE  \E d \in Summary :
              /\ draft' = [draft EXCEPT ![e] = d]
              /\ d.of = draft[e].of /\ d.counts = draft[e].counts
              /\ d.warnings = draft[e].warnings \union {text}
              /\ Describes(draft[e]) => Describes(d)
<1> DEFINE d == [draft[e] EXCEPT !.warnings = @ \union {text}]
<1>1. draft[e] \in Summary /\ draft \in [Engines -> Summary]
  BY DEF DashboardInvariant, DashboardTypeOK
<1>2. /\ d \in Summary /\ d.of = draft[e].of /\ d.counts = draft[e].counts
      /\ d.warnings = draft[e].warnings \union {text}
      /\ d.total = draft[e].total /\ d.notable = draft[e].notable
  BY <1>1 DEF Summary
<1>3. draft' = [draft EXCEPT ![e] = d]
  BY <1>1 DEF Warn
<1> QED
  BY <1>2, <1>3 DEF Describes

LEMMA CountRulesFacts ==
    ASSUME DashboardInvariant, NEW e \in Engines, CountRules(e), Cardinality(db') \in Nat
    PROVE  /\ faults' \in 0 .. MaxFaults
           /\ \E d \in Summary :
                 /\ draft' = [draft EXCEPT ![e] = d]
                 /\ d.of = draft[e].of
                 /\ "alerts" \notin d.warnings => d.counts = Cardinality(db')
                 /\ Describes(draft[e]) => Describes(d)
<1>1. faults' \in 0 .. MaxFaults
  BY DashboardBoundAssumption DEF CountRules, Fault, DashboardInvariant, DashboardTypeOK
<1>2. CASE draft' = [draft EXCEPT ![e].counts = Cardinality(db')]
  <2> DEFINE d == [draft[e] EXCEPT !.counts = Cardinality(db')]
  <2>1. draft[e] \in Summary /\ draft \in [Engines -> Summary]
    BY DEF DashboardInvariant, DashboardTypeOK
  <2>2. /\ d \in Summary /\ d.of = draft[e].of /\ d.counts = Cardinality(db')
        /\ d.total = draft[e].total /\ d.notable = draft[e].notable
    BY <2>1 DEF Summary
  <2>3. draft' = [draft EXCEPT ![e] = d]
    BY <1>2, <2>1
  <2> QED
    BY <1>1, <2>2, <2>3 DEF Describes
<1>3. CASE Warn(e, "alerts")
  BY <1>1, <1>3, WarnFacts DEF Warnings
<1> QED
  BY <1>2, <1>3 DEF CountRules

LEMMA BuildSummaryKeeps ==
    ASSUME DashboardInvariant, NEW e \in Engines, BuildSummary(e), UNCHANGED <<cache, request>>
    PROVE  DashboardInvariant'
<1> DEFINE of == draft[e].of
           notable == Ids({a \in of : IsNotable(a)})
<1>1. PICK warnings \in SUBSET {"honeypot", "geolocation"} :
        /\ IF warnings = {} THEN UNCHANGED faults ELSE Fault
        /\ draft' = [draft EXCEPT ![e] =
              [of |-> @.of, notable |-> Ids({a \in @.of : IsNotable(a)}),
               total |-> Total(@.of), counts |-> 0, warnings |-> warnings]]
  BY DEF BuildSummary
<1> DEFINE d == [of |-> of, notable |-> notable, total |-> Total(of), counts |-> 0,
                 warnings |-> warnings]
<1>2. /\ step[e] = "merged" /\ step' = [step EXCEPT ![e] = "built"]
      /\ UNCHANGED <<alerts, shared, db, dbTmp, details, page, mixed, repeats>>
  BY DEF BuildSummary, GoTo, fileVars
<1>3. /\ Total(of) \in Nat /\ notable \subseteq PublicIds(of)
      /\ PublicIds(of) \subseteq Ids(of) /\ Ids(of) \subseteq Ids(alerts)
      /\ of \subseteq alerts
  <2>1. of \in SUBSET Stored /\ IsFiniteSet(of) /\ draft[e] \in Summary
    BY DraftFacts
  <2>2. of \subseteq alerts
    BY <2>1 DEF Summary
  <2> QED
    BY <2>1, <2>2, IdsCountAlerts, NotableIsPublic, PublicIdsGrow
<1>4. draft' = [draft EXCEPT ![e] = d]
  BY <1>1 DEF DashboardInvariant, DashboardTypeOK
<1>5. d.of = draft[e].of /\ Describes(d)
  BY <1>3 DEF Describes
<1>6. d \in Summary
  <2>1. notable \subseteq Ids(alerts) /\ warnings \in SUBSET Warnings
    BY <1>3 DEF Warnings
  <2> HIDE DEF notable
  <2> QED
    BY <1>3, <2>1 DEF Summary
<1>7. SameLists
  BY <1>1, <1>2, DashboardBoundAssumption
     DEF SameLists, Fault, DashboardInvariant, DashboardTypeOK
<1> HIDE DEF d
<1>8. GoesOn(e, "built", d)
  BY <1>2, <1>4, <1>5, <1>6 DEF GoesOn, Steps
<1>9. WritesFiles(e) /\ FollowsAlone("built", d)
  BY <1>2 DEF WritesFiles, FollowsAlone, DashboardInvariant, DashboardTypeOK
<1> QED
  BY <1>7, <1>8, <1>9, GoesOnKeeps

LEMMA RebuildKeeps ==
    ASSUME DashboardInvariant, NEW e \in Engines, Rebuild(e), UNCHANGED <<cache, request>>
    PROVE  DashboardInvariant'
<1>1. /\ step[e] = "built" /\ UNCHANGED <<alerts, shared, db, details, page, mixed, repeats>>
      /\ dbTmp' \in BOOLEAN
  BY DEF Rebuild, fileVars, DashboardInvariant, DashboardTypeOK
<1>2. /\ Describes(draft[e]) /\ draft[e] \in Summary /\ IsFiniteSet(db)
      /\ ~ shared => draft[e].of = alerts
  BY <1>1, DraftFacts
<1>3. WritesFiles(e)
  BY <1>1 DEF WritesFiles, DashboardInvariant, DashboardTypeOK
<1>4. CASE UpToDate(e) /\ GoTo(e, "stored") /\ CountRules(e)
  <2>1. Cardinality(db') \in Nat /\ db' = PublicIds(draft[e].of) /\ "db" \notin mixed
    BY <1>1, <1>2, <1>4, FS_CardinalityType DEF UpToDate
  <2>2. PICK d \in Summary :
          /\ draft' = [draft EXCEPT ![e] = d] /\ d.of = draft[e].of /\ Describes(d)
          /\ "alerts" \notin d.warnings => d.counts = Cardinality(db')
    BY <1>2, <1>4, <2>1, CountRulesFacts
  <2>3. GoesOn(e, "stored", d)
    BY <1>1, <1>4, <2>2 DEF GoesOn, GoTo, Steps
  <2>4. SameLists
    BY <1>1, <1>4, <2>1, CountRulesFacts DEF SameLists, DashboardInvariant, DashboardTypeOK
  <2>5. FollowsAlone("stored", d)
    <3>1. Cardinality(PublicIds(alerts)) = Total(alerts)
      BY IdsCountAlerts DEF DashboardInvariant, FilesInvariant, DashboardTypeOK
    <3> QED
      BY <1>1, <1>2, <2>1, <2>2, <3>1 DEF FollowsAlone
  <2> QED
    BY <1>3, <2>3, <2>4, <2>5, GoesOnKeeps
<1>5. CASE GoTo(e, "building") /\ UNCHANGED <<draft, faults>>
  <2>1. draft' = [draft EXCEPT ![e] = draft[e]]
    BY <1>5 DEF DashboardInvariant, DashboardTypeOK
  <2>2. GoesOn(e, "building", draft[e])
    BY <1>1, <1>2, <1>5, <2>1 DEF GoesOn, GoTo, Steps
  <2>3. SameLists /\ FollowsAlone("building", draft[e])
    BY <1>1, <1>5 DEF SameLists, FollowsAlone, DashboardInvariant, DashboardTypeOK
  <2> QED
    BY <1>3, <2>2, <2>3, GoesOnKeeps
<1> QED
  BY <1>4, <1>5 DEF Rebuild

LEMMA ReplaceKeeps ==
    ASSUME DashboardInvariant, NEW e \in Engines, Replace(e), UNCHANGED <<cache, request>>
    PROVE  DashboardInvariant'
<1>1. /\ step[e] = "building" /\ GoTo(e, "stored") /\ dbTmp' = FALSE
      /\ UNCHANGED <<alerts, shared, details, page, repeats>> /\ CountRules(e)
      /\ \/ db' = PublicIds(draft[e].of) /\ mixed' = mixed \ {"db"}
         \/ db' = {} /\ shared /\ mixed' = mixed \union {"db"}
  BY DEF Replace, Mix, Clear
<1>2. /\ Describes(draft[e]) /\ draft[e].of \in SUBSET Stored /\ IsFiniteSet(draft[e].of)
      /\ ~ shared => draft[e].of = alerts
  BY <1>1, DraftFacts
<1>3. Cardinality(db') \in Nat
  BY <1>1, <1>2, IdsCountAlerts, FS_CardinalityType, FS_EmptySet
<1>4. PICK d \in Summary :
        /\ draft' = [draft EXCEPT ![e] = d] /\ d.of = draft[e].of /\ Describes(d)
        /\ "alerts" \notin d.warnings => d.counts = Cardinality(db')
  BY <1>1, <1>2, <1>3, CountRulesFacts
<1>5. GoesOn(e, "stored", d)
  BY <1>1, <1>4 DEF GoesOn, GoTo, Steps
<1>6. WritesFiles(e)
  <2>1. mixed' \in SUBSET Files /\ ("details" \in mixed => "details" \in mixed')
    BY <1>1 DEF Files, DashboardInvariant, DashboardTypeOK
  <2> QED
    BY <1>1, <2>1 DEF WritesFiles
<1>7. SameLists
  BY <1>1, <1>3, CountRulesFacts DEF SameLists, DashboardInvariant, DashboardTypeOK
<1>8. FollowsAlone("stored", d)
  <2>1. Cardinality(PublicIds(alerts)) = Total(alerts)
    BY IdsCountAlerts DEF DashboardInvariant, FilesInvariant, DashboardTypeOK
  <2> QED
    BY <1>1, <1>2, <1>4, <2>1 DEF FollowsAlone
<1> QED
  BY <1>5, <1>6, <1>7, <1>8, GoesOnKeeps

LEMMA RebuildFailsKeeps ==
    ASSUME DashboardInvariant, NEW e \in Engines, RebuildFails(e), UNCHANGED <<cache, request>>
    PROVE  DashboardInvariant'
<1>1. /\ step[e] \in {"built", "building"} /\ GoTo(e, "stored") /\ Warn(e, "alerts")
      /\ UNCHANGED <<alerts, shared, dbTmp, details, page, repeats>>
      /\ \/ UNCHANGED <<db, mixed>>
         \/ db' = {} /\ shared /\ mixed' = mixed \union {"db"}
      /\ Fault \/ UNCHANGED faults
  BY DEF RebuildFails, Mix
<1>2. PICK d \in Summary :
        /\ draft' = [draft EXCEPT ![e] = d] /\ d.of = draft[e].of
        /\ Describes(d) /\ "alerts" \in d.warnings
  BY <1>1, DraftFacts, WarnFacts DEF Warnings
<1>3. GoesOn(e, "stored", d)
  BY <1>1, <1>2 DEF GoesOn, GoTo, Steps
<1>4. WritesFiles(e)
  BY <1>1 DEF WritesFiles, Files, DashboardInvariant, DashboardTypeOK
<1>5. SameLists
  BY <1>1, DashboardBoundAssumption DEF SameLists, Fault, DashboardInvariant, DashboardTypeOK
<1>6. FollowsAlone("stored", d)
  BY <1>2 DEF FollowsAlone
<1> QED
  BY <1>3, <1>4, <1>5, <1>6, GoesOnKeeps

(* A newer file has a greater stamp, so no request gets ahead of it.       *)
LEMMA WriteDetailsKeeps ==
    ASSUME DashboardInvariant, NEW e \in Engines, WriteDetails(e), UNCHANGED <<cache, request>>
    PROVE  DashboardInvariant'
<1>1. /\ step[e] = "stored" /\ GoTo(e, "detailed")
      /\ UNCHANGED <<alerts, draft, shared, db, dbTmp, page, faults, repeats>>
      /\ \/ NewDetails(draft[e].of) /\ mixed' = mixed \ {"details"}
         \/ NewDetails({}) /\ shared /\ mixed' = mixed \union {"details"}
  BY DEF WriteDetails, Mix, Clear
<1>2. /\ Describes(draft[e]) /\ draft[e] \in Summary
      /\ ~ shared => draft[e].of = alerts
      /\ draft' = [draft EXCEPT ![e] = draft[e]]
  BY <1>1, DraftFacts DEF DashboardInvariant, DashboardTypeOK
<1>3. GoesOn(e, "detailed", draft[e])
  <2>1. step' = [step EXCEPT ![e] = "detailed"] /\ step[e] # "idle"
    BY <1>1 DEF GoTo
  <2>2. "detailed" \in Steps \ {"idle", "merged"}
    BY DEF Steps
  <2> QED
    BY <1>2, <2>1, <2>2 DEF GoesOn
<1>4. WritesFiles(e) /\ ("db" \in mixed' => "db" \in mixed)
  BY <1>1 DEF WritesFiles, Files, DashboardInvariant, DashboardTypeOK
<1>5. SameLists
  BY <1>1 DEF SameLists, DashboardInvariant, DashboardTypeOK
<1>6. FollowsAlone("detailed", draft[e])
  <2>1. ~ shared /\ "alerts" \notin draft[e].warnings =>
          db = PublicIds(alerts) /\ "db" \notin mixed /\ draft[e].counts = Total(alerts)
    BY <1>1 DEF DashboardInvariant, FilesInvariant, FilesFollow
  <2>2. ~ shared => details'.of = alerts /\ "details" \notin mixed'
    BY <1>1, <1>2 DEF NewDetails
  <2>3. db' = db
    BY <1>1
  <2> QED
    BY <1>4, <2>1, <2>2, <2>3 DEF FollowsAlone
<1> QED
  BY <1>3, <1>4, <1>5, <1>6, GoesOnKeeps

LEMMA DetailsFailKeeps ==
    ASSUME DashboardInvariant, NEW e \in Engines, DetailsFail(e), UNCHANGED <<cache, request>>
    PROVE  DashboardInvariant'
<1>1. /\ step[e] = "stored" /\ GoTo(e, "detailed") /\ Warn(e, "attackers")
      /\ UNCHANGED <<alerts, shared, db, dbTmp, page, repeats>>
      /\ \/ UNCHANGED <<details, mixed>>
         \/ NewDetails({}) /\ shared /\ mixed' = mixed \union {"details"}
      /\ Fault \/ UNCHANGED faults
  BY DEF DetailsFail, Mix
<1>2. PICK d \in Summary :
        /\ draft' = [draft EXCEPT ![e] = d] /\ d.of = draft[e].of
        /\ d.counts = draft[e].counts /\ draft[e].warnings \subseteq d.warnings
        /\ Describes(d) /\ "attackers" \in d.warnings
  BY <1>1, DraftFacts, WarnFacts DEF Warnings
<1>3. GoesOn(e, "detailed", d)
  BY <1>1, <1>2 DEF GoesOn, GoTo, Steps
<1>4. WritesFiles(e)
  BY <1>1 DEF WritesFiles, Files, DashboardInvariant, DashboardTypeOK
<1>5. SameLists
  BY <1>1, DashboardBoundAssumption DEF SameLists, Fault, DashboardInvariant, DashboardTypeOK
<1>6. FollowsAlone("detailed", d)
  <2>1. ~ shared /\ "alerts" \notin draft[e].warnings =>
          db = PublicIds(alerts) /\ "db" \notin mixed /\ draft[e].counts = Total(alerts)
    BY <1>1 DEF DashboardInvariant, FilesInvariant, FilesFollow
  <2> QED
    BY <1>1, <1>2, <2>1 DEF FollowsAlone
<1> QED
  BY <1>3, <1>4, <1>5, <1>6, GoesOnKeeps

(* The end of a publish: with the summary of an engine that was alone, or  *)
(* another, or as it was.                                                  *)
WritesPage(e) ==
    /\ mixed' \in SUBSET Files
    /\ \A file \in {"db", "details"} : file \in mixed' <=> file \in mixed
    /\ \/ UNCHANGED page
       \/ page' = AsPage(draft[e], ~ shared) /\ step[e] = "detailed"
       \/ page' = AsPage(NoSummary, FALSE)

(* What it leaves alone.                                                   *)
SameFiles ==
    /\ UNCHANGED <<alerts, db, dbTmp, details, cache, request, repeats>>
    /\ faults' \in 0 .. MaxFaults

LEMMA EndsKeeps ==
    ASSUME DashboardInvariant, NEW e \in Engines, step[e] # "idle",
           Ends(e), WritesPage(e), SameFiles
    PROVE  DashboardInvariant'
<1>1. /\ UNCHANGED <<alerts, db, dbTmp, details, cache, request, repeats>>
      /\ Summary' = Summary /\ PageType' = PageType /\ Request' = Request
      /\ PublicIds(alerts)' = PublicIds(alerts) /\ Ids(alerts)' = Ids(alerts)
      /\ Total(alerts)' = Total(alerts)
  BY SameAlertsSameSets DEF SameFiles, Request
<1>2. /\ step \in [Engines -> Steps] /\ draft \in [Engines -> Summary] /\ shared \in BOOLEAN
      /\ page \in PageType
  BY DEF DashboardInvariant, DashboardTypeOK
<1>3. /\ step'[e] = "idle"
      /\ \A other \in Engines : other # e =>
            step'[other] = step[other] /\ draft'[other] = draft[other]
      /\ shared' = (shared /\ \E other \in Engines \ {e} : step[other] # "idle")
  BY <1>2 DEF Ends, GoTo
<1>4. ~ shared' => \A other \in Engines : step'[other] = "idle"
  BY <1>3 DEF DashboardInvariant, FilesInvariant, OneAtATime, Active
<1>5. DashboardTypeOK'
  <2>1. step' \in [Engines -> Steps] /\ draft' \in [Engines -> Summary]
    BY <1>2, NoSummaryFacts DEF Ends, GoTo, Steps
  <2>2. page' \in PageType /\ shared' \in BOOLEAN /\ mixed' \in SUBSET Files
    <3>1. page' \in PageType
      <4>1. CASE page' = AsPage(draft[e], ~ shared)
        <5>1. (~ shared) = TRUE \/ (~ shared) = FALSE
          BY <1>2
        <5>2. \E alone \in BOOLEAN : page' = AsPage(draft[e], alone)
          BY <4>1, <5>1
        <5> QED
          BY <1>2, <5>2 DEF PageType
      <4> QED
        BY <1>2, <4>1, NoSummaryFacts DEF WritesPage
    <3> QED
      BY <1>3, <3>1 DEF WritesPage
  <2> QED
    BY <1>1, <2>1, <2>2 DEF DashboardInvariant, DashboardTypeOK, SameFiles
<1>6. DraftsDescribe'
  <2>1. ASSUME NEW other \in Engines, step'[other] \notin {"idle", "merged"}
        PROVE  Describes(draft'[other])
    BY <1>3, <2>1 DEF DashboardInvariant, FilesInvariant, DraftsDescribe
  <2> QED
    BY <2>1 DEF DraftsDescribe, Describes, Total, PublicIds, Ids
<1>7. OneAtATime' /\ FilesFollow'
  BY <1>4 DEF OneAtATime, FilesFollow, Active
<1>8. CASE page'.alone /\ page' # page
  <2>1. page' = AsPage(draft[e], TRUE) /\ ~ shared /\ step[e] = "detailed"
    <3>1. page' = AsPage(draft[e], ~ shared) /\ step[e] = "detailed"
      BY <1>8 DEF WritesPage, AsPage
    <3>2. AsPage(draft[e], ~ shared).alone = (~ shared)
      BY DEF AsPage
    <3>3. ~ shared
      BY <1>8, <3>1, <3>2
    <3>4. (~ shared) = TRUE
      BY <3>3
    <3> QED
      BY <3>1, <3>3, <3>4
  <2>2. /\ page'.of = draft[e].of /\ page'.total = draft[e].total
        /\ page'.notable = draft[e].notable /\ page'.counts = draft[e].counts
        /\ page'.warnings = draft[e].warnings
    BY <2>1 DEF AsPage
  <2>3. draft[e].of = alerts /\ Describes(draft[e])
    BY <2>1, DraftFacts
  <2>4. /\ "alerts" \notin draft[e].warnings =>
              db = PublicIds(alerts) /\ "db" \notin mixed /\ draft[e].counts = Total(alerts)
        /\ "attackers" \notin draft[e].warnings =>
              details.of = alerts /\ "details" \notin mixed
    BY <2>1 DEF DashboardInvariant, FilesInvariant, FilesFollow
  <2>5. PublicIds(page.of)' = PublicIds(alerts) /\ page'.notable \subseteq PublicIds(alerts)
        /\ page'.total = Total(alerts)
    BY <2>2, <2>3 DEF Describes, PublicIds, Ids
  <2>6. PageIsOlder'
    <3>1. \A other \in Engines : step'[other] = "idle"
      BY <1>3, <1>4, <2>1
    <3> QED
      BY <2>5, <3>1 DEF PageIsOlder, Active
  <2>7. SummaryNotAhead'
    BY <1>1, <2>2, <2>3, <2>4, <2>5 DEF SummaryNotAhead
  <2> QED
    BY <1>5, <1>6, <1>7, <2>6, <2>7, <1>1
       DEF DashboardInvariant, FilesInvariant, ApiInvariant, OnlyPublicAlerts,
           RequestsInOrder, StaleIsNoticed
<1>9. CASE ~ page'.alone \/ page' = page
  <2>1. PublicIds(page.of)' = PublicIds(page'.of)
    BY DEF PublicIds, Ids
  <2>2. PageIsOlder'
    BY <1>3, <1>9, <2>1 DEF DashboardInvariant, FilesInvariant, PageIsOlder, Active
  <2>3. SummaryNotAhead'
    BY <1>1, <1>9, <2>1
       DEF DashboardInvariant, FilesInvariant, SummaryNotAhead, WritesPage
  <2> QED
    BY <1>5, <1>6, <1>7, <2>2, <2>3, <1>1
       DEF DashboardInvariant, FilesInvariant, ApiInvariant, OnlyPublicAlerts,
           RequestsInOrder, StaleIsNoticed
<1> QED
  BY <1>8, <1>9

LEMMA WriteSummaryKeeps ==
    ASSUME DashboardInvariant, NEW e \in Engines, WriteSummary(e), UNCHANGED <<cache, request>>
    PROVE  DashboardInvariant'
<1>1. step[e] = "detailed" /\ Ends(e) /\ SameFiles
  BY DEF WriteSummary, SameFiles, DashboardInvariant, DashboardTypeOK
<1>2. WritesPage(e)
  BY <1>1
     DEF WriteSummary, WritesPage, Mix, Clear, Files, DashboardInvariant, DashboardTypeOK
<1> QED
  BY <1>1, <1>2, EndsKeeps

LEMMA SummaryFailsKeeps ==
    ASSUME DashboardInvariant, NEW e \in Engines, SummaryFails(e), UNCHANGED <<cache, request>>
    PROVE  DashboardInvariant'
<1>1. step[e] = "detailed" /\ Ends(e) /\ SameFiles
  BY DEF SummaryFails, SameFiles, DashboardInvariant, DashboardTypeOK
<1>2. WritesPage(e)
  BY <1>1 DEF SummaryFails, WritesPage, Mix, Files, DashboardInvariant, DashboardTypeOK
<1> QED
  BY <1>1, <1>2, EndsKeeps

LEMMA PublishEndsKeeps ==
    ASSUME DashboardInvariant, NEW e \in Engines, PublishEnds(e), UNCHANGED <<cache, request>>
    PROVE  DashboardInvariant'
<1>1. step[e] # "idle" /\ Ends(e) /\ SameFiles
  BY DashboardBoundAssumption
     DEF PublishEnds, Fault, SameFiles, fileVars, DashboardInvariant, DashboardTypeOK
<1>2. WritesPage(e)
  BY DEF PublishEnds, WritesPage, fileVars, DashboardInvariant, DashboardTypeOK
<1> QED
  BY <1>1, <1>2, EndsKeeps

LEMMA PublishKeeps ==
    ASSUME DashboardInvariant, NEW e \in Engines, Publish(e), UNCHANGED <<cache, request>>
    PROVE  DashboardInvariant'
BY BuildSummaryKeeps, RebuildKeeps, ReplaceKeeps, RebuildFailsKeeps, WriteDetailsKeeps,
   DetailsFailKeeps, WriteSummaryKeeps, SummaryFailsKeeps, PublishEndsKeeps
   DEF Publish

(* A merge: the engine has the whole list, and is alone or not.            *)
LEMMA MergeKeeps ==
    ASSUME DashboardInvariant, NEW e \in Engines, NEW new \in SUBSET Stored, IsFiniteSet(new),
           Merge(e, new), UNCHANGED <<cache, request>>
    PROVE  DashboardInvariant'
<1>1. /\ step[e] = "idle" /\ GoTo(e, "merged") /\ alerts' = alerts \union new
      /\ draft' = [draft EXCEPT ![e].of = alerts']
      /\ shared' = \E other \in Engines : step[other] # "idle"
      /\ UNCHANGED <<db, dbTmp, details, page, mixed, cache, request>>
  BY DEF Merge, fileVars
<1>2. /\ step \in [Engines -> Steps] /\ draft \in [Engines -> Summary]
      /\ alerts \in SUBSET Stored /\ db \subseteq Ids(alerts) /\ page \in PageType
      /\ details \in [stamp : Nat, of : SUBSET alerts]
  BY DEF DashboardInvariant, DashboardTypeOK
<1>3. /\ PublicIds(alerts) \subseteq PublicIds(alerts') /\ Ids(alerts) \subseteq Ids(alerts')
      /\ Ids(alerts)' = Ids(alerts') /\ PublicIds(alerts)' = PublicIds(alerts')
  BY <1>1, PublicIdsGrow DEF PublicIds, Ids
<1>4. /\ step'[e] = "merged" /\ draft'[e].of = alerts'
      /\ \A other \in Engines : other # e =>
            step'[other] = step[other] /\ draft'[other] = draft[other]
  BY <1>1, <1>2 DEF GoTo, Summary
<1>5. Summary \subseteq Summary' /\ PageType \subseteq PageType' /\ Request' = Request
  <2>1. Summary \subseteq Summary'
    BY <1>1, <1>3 DEF Summary
  <2> QED
    BY <2>1 DEF PageType, Request
<1>6. DashboardTypeOK'
  <2>1. draft' \in [Engines -> Summary']
    <3>1. [draft[e] EXCEPT !.of = alerts'] \in Summary'
      BY <1>2, <1>3, <1>5 DEF Summary
    <3>2. draft' = [draft EXCEPT ![e] = [draft[e] EXCEPT !.of = alerts']]
      BY <1>1, <1>2
    <3> QED
      BY <1>2, <1>5, <3>1, <3>2
  <2>2. step' \in [Engines -> Steps] /\ shared' \in BOOLEAN
    BY <1>1, <1>2 DEF GoTo, Steps
  <2>3. faults' \in 0 .. MaxFaults /\ repeats' \in 0 .. MaxRepeats
    BY DashboardBoundAssumption
       DEF Merge, Fault, DashboardInvariant, DashboardTypeOK
  <2>4. alerts' \in SUBSET Stored /\ db' \in SUBSET Ids(alerts)' /\ page' \in PageType'
        /\ details' \in [stamp : Nat, of : SUBSET alerts']
    BY <1>1, <1>2, <1>3, <1>5
  <2> QED
    BY <1>1, <1>5, <2>1, <2>2, <2>3, <2>4 DEF DashboardInvariant, DashboardTypeOK
<1>7. IsFiniteSet(alerts') /\ OnlyPublicAlerts'
  BY <1>1, <1>3, FS_Union DEF DashboardInvariant, FilesInvariant, OnlyPublicAlerts
<1>8. DraftsDescribe'
  <2>1. ASSUME NEW other \in Engines, step'[other] \notin {"idle", "merged"}
        PROVE  Describes(draft'[other])
    BY <1>4, <2>1 DEF DashboardInvariant, FilesInvariant, DraftsDescribe
  <2> QED
    BY <2>1 DEF DraftsDescribe, Describes, Total, PublicIds, Ids
<1>9. OneAtATime' /\ FilesFollow'
  BY <1>1, <1>4 DEF OneAtATime, FilesFollow, Active
<1>10. PageIsOlder'
  <2>1. page.of \subseteq alerts
    BY <1>2 DEF PageType, AsPage, Summary
  <2>2. PublicIds(page.of)' = PublicIds(page.of)
    BY <1>1 DEF PublicIds, Ids
  <2> QED
    BY <1>1, <1>4, <2>1, <2>2 DEF DashboardInvariant, FilesInvariant, PageIsOlder, Active
<1>11. SummaryNotAhead' /\ ApiInvariant'
  BY <1>1
     DEF DashboardInvariant, FilesInvariant, ApiInvariant, SummaryNotAhead, RequestsInOrder,
         StaleIsNoticed, PublicIds, Ids
<1> QED
  BY <1>6, <1>7, <1>8, <1>9, <1>10, <1>11 DEF DashboardInvariant, FilesInvariant

(* A step of the engines, on alerts of the rules or none.                  *)
LEMMA EngineKeeps ==
    ASSUME DashboardInvariant, EngineStep \/ MergeNew, UNCHANGED <<cache, request>>
    PROVE  DashboardInvariant'
<1>1. CASE EngineStep
  <2>1. IsFiniteSet({}) /\ {} \in SUBSET Stored
    BY FS_EmptySet
  <2> QED
    BY <1>1, <2>1, PublishKeeps, MergeKeeps DEF EngineStep
<1>2. CASE MergeNew
  <2>1. \A new \in Batches : new \in SUBSET Stored /\ IsFiniteSet(new)
    BY BatchAssumption
  <2> QED
    BY <1>2, <2>1, MergeKeeps DEF MergeNew
<1> QED
  BY <1>1, <1>2

-----------------------------------------------------------------------------
(* The threads of the API.                                                 *)

(* Nothing published and no draft changes.                                 *)
LEMMA FilesSame ==
    ASSUME FilesInvariant,
           UNCHANGED <<alerts, step, draft, shared, db, details, page, mixed>>
    PROVE  FilesInvariant'
<1>1. /\ PublicIds(alerts)' = PublicIds(alerts) /\ Total(alerts)' = Total(alerts)
      /\ PublicIds(page.of)' = PublicIds(page.of)
  BY DEF PublicIds, Ids, Total
<1>2. DraftsDescribe' /\ OnlyPublicAlerts'
  BY DEF FilesInvariant, DraftsDescribe, Describes, OnlyPublicAlerts, Total, PublicIds, Ids
<1>3. OneAtATime' /\ FilesFollow'
  BY <1>1 DEF FilesInvariant, OneAtATime, FilesFollow, Active
<1>4. PageIsOlder' /\ SummaryNotAhead'
  BY <1>1 DEF FilesInvariant, PageIsOlder, SummaryNotAhead, Active
<1> QED
  BY <1>2, <1>3, <1>4 DEF FilesInvariant

(* A request only touches itself and the cache: what is left to show is    *)
(* that both keep their type and their order.                              *)
LEMMA RequestStepKeeps ==
    ASSUME DashboardInvariant, UNCHANGED publishVars, NEW r \in Requests,
           NEW q \in Request, request' = [request EXCEPT ![r] = q],
           q.stamp <= details.stamp, q.at = "store" => q.stamp <= q.version,
           cache' \in [stamp : Nat, version : Nat], StaleIsNoticed'
    PROVE  DashboardInvariant'
<1>1. request \in [Requests -> Request]
  BY DEF DashboardInvariant, DashboardTypeOK
<1>2. request' \in [Requests -> Request]
  BY <1>1
<1>3. UNCHANGED <<alerts, step, draft, shared, db, dbTmp, details, page, mixed, faults, repeats>>
  BY DEF publishVars, fileVars
<1>4. DashboardTypeOK'
  <2>1. Summary' = Summary /\ Request' = Request /\ Ids(alerts)' = Ids(alerts)
        /\ PageType' = PageType
    BY <1>3, SameAlertsSameSets DEF Request
  <2> QED
    BY <1>2, <1>3, <2>1 DEF DashboardInvariant, DashboardTypeOK
<1>5. FilesInvariant'
  BY <1>3, FilesSame DEF DashboardInvariant
<1>6. RequestsInOrder'
  BY <1>1, <1>3 DEF DashboardInvariant, ApiInvariant, RequestsInOrder
<1> QED
  BY <1>4, <1>5, <1>6 DEF DashboardInvariant, ApiInvariant

LEMMA AttackerKeeps ==
    ASSUME DashboardInvariant, NEW r \in Requests, Attacker(r), UNCHANGED publishVars
    PROVE  DashboardInvariant'
<1> DEFINE req == request[r]
<1>1. /\ request \in [Requests -> Request] /\ req \in Request
      /\ details.stamp \in Nat /\ cache \in [stamp : Nat, version : Nat]
      /\ req.stamp <= details.stamp
      /\ req.at = "store" => req.stamp <= req.version
      /\ cache.version >= cache.stamp
  BY DEF DashboardInvariant, DashboardTypeOK, ApiInvariant, RequestsInOrder, StaleIsNoticed
<1>2. CASE Stat(r)
  <2> DEFINE q == [at |-> IF cache.stamp = details.stamp THEN "answer" ELSE "load",
                   stamp |-> details.stamp, version |-> 0]
  <2>1. q \in Request /\ q.stamp <= details.stamp /\ q.at # "store"
    BY <1>1 DEF Request
  <2>2. request' = [request EXCEPT ![r] = q] /\ UNCHANGED cache
    BY <1>2 DEF Stat
  <2>3. StaleIsNoticed'
    BY <1>1, <2>2 DEF StaleIsNoticed
  <2> HIDE DEF q
  <2> QED
    BY <1>1, <2>1, <2>2, <2>3, RequestStepKeeps
<1>3. CASE Load(r)
  <2> DEFINE q == [at |-> "store", stamp |-> req.stamp, version |-> details.stamp]
  <2>1. q \in Request /\ q.stamp <= details.stamp /\ q.stamp <= q.version
    BY <1>1 DEF Request
  <2>2. request' = [request EXCEPT ![r] = q] /\ UNCHANGED cache
    BY <1>3 DEF Load
  <2>3. StaleIsNoticed'
    BY <1>1, <2>2 DEF StaleIsNoticed
  <2> HIDE DEF q
  <2> QED
    BY <1>1, <2>1, <2>2, <2>3, RequestStepKeeps
<1>4. CASE Update(r)
  <2> DEFINE q == [at |-> "answer", stamp |-> req.stamp, version |-> req.version]
  <2>1. q \in Request /\ q.stamp <= details.stamp /\ q.at # "store"
    BY <1>1 DEF Request
  <2>2. request' = [request EXCEPT ![r] = q]
    <3>1. [req EXCEPT !.at = "answer"] = q
      BY <1>1 DEF Request
    <3> QED
      BY <1>1, <1>4, <3>1 DEF Update
  <2>3. cache' \in [stamp : Nat, version : Nat] /\ StaleIsNoticed'
    BY <1>1, <1>4 DEF Update, Request, StaleIsNoticed
  <2> HIDE DEF q
  <2> QED
    BY <1>1, <2>1, <2>2, <2>3, RequestStepKeeps
<1>5. CASE Answer(r) \/ LoadFails(r)
  <2>1. Waiting \in Request /\ Waiting.stamp <= details.stamp /\ Waiting.at # "store"
    BY <1>1 DEF Waiting, Request
  <2>2. request' = [request EXCEPT ![r] = Waiting] /\ UNCHANGED cache
    BY <1>5 DEF Answer, LoadFails
  <2>3. StaleIsNoticed'
    BY <1>1, <2>2 DEF StaleIsNoticed
  <2> QED
    BY <1>1, <2>1, <2>2, <2>3, RequestStepKeeps
<1> QED
  BY <1>2, <1>3, <1>4, <1>5 DEF Attacker

-----------------------------------------------------------------------------

LEMMA StutterKeeps ==
    ASSUME DashboardInvariant, UNCHANGED dashboardVars
    PROVE  DashboardInvariant'
<1>1. UNCHANGED <<alerts, step, draft, shared, db, dbTmp, details, page, mixed, faults, repeats,
                  cache, request>>
  BY DEF dashboardVars, publishVars, fileVars
<1>2. Summary' = Summary /\ Request' = Request /\ Ids(alerts)' = Ids(alerts)
      /\ PageType' = PageType
  BY <1>1, SameAlertsSameSets DEF Request
<1>3. DashboardTypeOK' /\ FilesInvariant'
  BY <1>1, <1>2, FilesSame DEF DashboardInvariant, DashboardTypeOK
<1>4. ApiInvariant'
  BY <1>1 DEF DashboardInvariant, ApiInvariant, RequestsInOrder, StaleIsNoticed
<1> QED
  BY <1>3, <1>4 DEF DashboardInvariant

(* The invariant holds at every step of the engines' publishes, however    *)
(* they overlap, and of the API's threads.                                 *)
THEOREM DashboardInvariantHolds == DashboardSpec => []DashboardInvariant
<1>1. DashboardInvariant /\ [DashboardNext]_dashboardVars => DashboardInvariant'
  BY EngineKeeps, AttackerKeeps, StutterKeeps DEF DashboardNext
<1> QED
  BY InvariantInitially, <1>1, PTL DEF DashboardSpec

(* The files, the draft, the cache and the requests keep their types.      *)
THEOREM DashboardTypeCorrect == DashboardSpec => []DashboardTypeOK
<1>1. DashboardInvariant => DashboardTypeOK
  BY DEF DashboardInvariant
<1> QED
  BY DashboardInvariantHolds, <1>1, PTL

(* Whatever fails and wherever a publish is killed, what the summary       *)
(* counts can be listed and has its details, unless it says otherwise.     *)
THEOREM PublishInOrder == DashboardSpec => []SummaryNotAhead
<1>1. DashboardInvariant => SummaryNotAhead
  BY DEF DashboardInvariant, FilesInvariant
<1> QED
  BY DashboardInvariantHolds, <1>1, PTL

(* Whatever the order of the threads, no old file is kept under the stamp  *)
(* of a newer one.                                                         *)
THEOREM NewFileNoticed == DashboardSpec => []StaleIsNoticed
<1>1. DashboardInvariant => StaleIsNoticed
  BY DEF DashboardInvariant, ApiInvariant
<1> QED
  BY DashboardInvariantHolds, <1>1, PTL

-----------------------------------------------------------------------------
(* The listing: its rows can be sorted.                                    *)

(* Rows of n alerts of a set, sorted.                                      *)
Sorts(rows, order, n, set) ==
    /\ rows \in [1 .. n -> set]
    /\ \A i, j \in 1 .. n : i < j => Before(order, rows[i], rows[j])

LEMMA BeforeFacts ==
    ASSUME NEW order, NEW a \in Stored, NEW b \in Stored, NEW c \in Stored
    PROVE  /\ ~ Before(order, a, a)
           /\ a # b => Before(order, a, b) \/ Before(order, b, a)
           /\ Before(order, a, b) /\ Before(order, b, c) => Before(order, a, c)
<1>1. /\ Rank(order, a) \in Int /\ Rank(order, b) \in Int /\ Rank(order, c) \in Int
      /\ a.time \in Int /\ b.time \in Int /\ c.time \in Int
      /\ a.id \in Int /\ b.id \in Int /\ c.id \in Int
  BY RowAssumption DEF Rank
<1>2. a.id = b.id => a = b
  BY IdAssumption
<1>3. ~ Before(order, a, a)
  BY <1>1 DEF Before
<1>4. a # b => Before(order, a, b) \/ Before(order, b, a)
  BY <1>1, <1>2 DEF Before
<1>5. Before(order, a, b) /\ Before(order, b, c) => Before(order, a, c)
  BY <1>1 DEF Before
<1> QED
  BY <1>3, <1>4, <1>5

LEMMA LeastNatural ==
    ASSUME NEW S, S \subseteq Nat, S # {}
    PROVE  \E x \in S : \A y \in S : x <= y
<1> DEFINE less == {ss \in Nat \X Nat : ss[1] < ss[2]}
<1>1. IsWellFoundedOn(less, Nat)
  BY NatLessThanWellFounded DEF OpToRel
<1>2. PICK x \in S : \A y \in S : <<y, x>> \notin less
  BY <1>1, WFMin
<1>3. ASSUME NEW y \in S
      PROVE  x <= y
  <2>1. x \in Nat /\ y \in Nat
    OBVIOUS
  <2>2. ~ (y < x)
    BY <1>2, <2>1
  <2> QED
    BY <2>1, <2>2
<1> QED
  BY <1>3

(* One more alert goes before the first row that comes after it.           *)
LEMMA RowInserted ==
    ASSUME NEW n \in Nat, NEW set, NEW order, NEW rows, Sorts(rows, order, n, set),
           set \subseteq Stored, NEW a \in Stored, a \notin set
    PROVE  \E more : Sorts(more, order, n + 1, set \union {a})
<1> DEFINE later == {i \in 1 .. n + 1 : i = n + 1 \/ Before(order, a, rows[i])}
<1>1. later \subseteq Nat /\ n + 1 \in later
  OBVIOUS
<1>2. PICK k \in later : \A i \in later : k <= i
  BY <1>1, LeastNatural
<1>3. k \in 1 .. n + 1 /\ (k = n + 1 \/ Before(order, a, rows[k]))
  OBVIOUS
<1>4. \A i \in 1 .. n : rows[i] \in set /\ rows[i] \in Stored /\ rows[i] # a
  BY DEF Sorts
<1>5. ASSUME NEW i \in 1 .. n, i < k
      PROVE  Before(order, rows[i], a)
  <2>1. i \notin later /\ i \in 1 .. n + 1 /\ i # n + 1
    BY <1>2, <1>3, <1>5
  <2>2. ~ Before(order, a, rows[i])
    BY <2>1
  <2> QED
    BY <1>4, <2>2, BeforeFacts
<1>6. ASSUME NEW i \in 1 .. n, k <= i
      PROVE  Before(order, a, rows[i])
  <2>1. k \in 1 .. n /\ Before(order, a, rows[k])
    BY <1>3, <1>6
  <2>2. k = i \/ Before(order, rows[k], rows[i])
    BY <1>6, <2>1 DEF Sorts
  <2>3. rows[k] \in Stored /\ rows[i] \in Stored
    BY <1>4, <2>1
  <2> QED
    BY <2>1, <2>2, <2>3, BeforeFacts
<1> HIDE DEF later
<1> DEFINE more == [i \in 1 .. n + 1 |->
                       IF i < k THEN rows[i] ELSE IF i = k THEN a ELSE rows[i - 1]]
<1>7. \A i \in 1 .. n + 1 : /\ i < k => i \in 1 .. n
                            /\ i > k => i - 1 \in 1 .. n /\ i - 1 >= k
  BY <1>3
<1>8. more \in [1 .. n + 1 -> set \union {a}]
  <2>1. ASSUME NEW i \in 1 .. n + 1
        PROVE  more[i] \in set \union {a}
    BY <1>3, <1>4, <1>7
  <2> QED
    BY <2>1
<1>9. /\ \A i \in 1 .. n + 1 : i < k => more[i] = rows[i]
      /\ more[k] = a
      /\ \A i \in 1 .. n + 1 : i > k => more[i] = rows[i - 1]
  BY <1>3
<1> HIDE DEF more
<1>10. ASSUME NEW i \in 1 .. n + 1, NEW j \in 1 .. n + 1, i < j
       PROVE  Before(order, more[i], more[j])
  <2>1. i \in Nat /\ j \in Nat /\ k \in Nat
    BY <1>3
  <2>2. CASE j < k
    <3>1. i < k /\ i \in 1 .. n /\ j \in 1 .. n
      BY <1>7, <1>10, <2>1, <2>2
    <3> QED
      BY <1>9, <1>10, <2>2, <3>1 DEF Sorts
  <2>3. CASE j = k
    <3>1. i < k /\ i \in 1 .. n
      BY <1>7, <1>10, <2>1, <2>3
    <3> QED
      BY <1>5, <1>9, <2>3, <3>1
  <2>4. CASE j > k /\ i < k
    <3>1. i \in 1 .. n /\ j - 1 \in 1 .. n /\ i < j - 1
      BY <1>7, <2>1, <2>4
    <3> QED
      BY <1>9, <2>4, <3>1 DEF Sorts
  <2>5. CASE j > k /\ i = k
    <3>1. j - 1 \in 1 .. n /\ k <= j - 1
      BY <1>7, <2>1, <2>5
    <3> QED
      BY <1>6, <1>9, <2>5, <3>1
  <2>6. CASE j > k /\ i > k
    <3>1. i - 1 \in 1 .. n /\ j - 1 \in 1 .. n /\ i - 1 < j - 1
      BY <1>7, <1>10, <2>1, <2>6
    <3> QED
      BY <1>9, <2>6, <3>1 DEF Sorts
  <2> QED
    BY <2>1, <2>2, <2>3, <2>4, <2>5, <2>6
<1> QED
  BY <1>8, <1>10 DEF Sorts

(* Any finite set of alerts can be sorted: if not, a smallest one cannot.  *)
LEMMA RowsCanBeSorted ==
    ASSUME NEW order, NEW set \in SUBSET Stored, IsFiniteSet(set)
    PROVE  \E rows : Sorts(rows, order, Cardinality(set), set)
<1> DEFINE Unsorted(E) == ~ \E rows : Sorts(rows, order, Cardinality(E), E)
           sizes == {n \in Nat : \E E \in SUBSET set :
                        Cardinality(E) = n /\ Unsorted(E)}
<1>1. SUFFICES ASSUME Unsorted(set) PROVE FALSE
  OBVIOUS
<1>2. Cardinality(set) \in sizes
  BY <1>1, FS_CardinalityType
<1>3. PICK n \in sizes : \A m \in sizes : n <= m
  BY <1>2, LeastNatural
<1>4. PICK E \in SUBSET set : Cardinality(E) = n /\ Unsorted(E)
  OBVIOUS
<1>5. IsFiniteSet(E) /\ n \in Nat
  BY FS_Subset
<1>6. CASE E = {}
  <2>1. Cardinality(E) = 0
    BY <1>6, FS_EmptySet
  <2>2. Sorts(<<>>, order, 0, E)
    BY <1>6 DEF Sorts
  <2> QED
    BY <1>4, <2>1, <2>2
<1>7. CASE E # {}
  <2>1. PICK a \in E : TRUE
    BY <1>7
  <2> DEFINE F == E \ {a}
  <2>2. IsFiniteSet(F) /\ Cardinality(F) = n - 1 /\ n - 1 \in Nat
    <3>1. IsFiniteSet(F) /\ Cardinality(F) = Cardinality(E) - 1
      BY <1>5, <2>1, FS_RemoveElement
    <3>2. Cardinality(F) \in Nat
      BY <3>1, FS_CardinalityType
    <3> QED
      BY <1>4, <3>1, <3>2
  <2>3. ~ Unsorted(F)
    <3>1. SUFFICES ASSUME Unsorted(F) PROVE FALSE
      OBVIOUS
    <3>2. n - 1 \in sizes
      BY <2>2, <3>1
    <3> HIDE DEF sizes
    <3> QED
      BY <1>3, <1>5, <2>2, <3>2
  <2>4. PICK rows : Sorts(rows, order, n - 1, F)
    BY <2>2, <2>3
  <2>5. a \notin F /\ F \subseteq Stored /\ a \in Stored /\ F \union {a} = E
    OBVIOUS
  <2> HIDE DEF F
  <2>6. \E more : Sorts(more, order, (n - 1) + 1, F \union {a})
    BY <2>2, <2>4, <2>5, RowInserted
  <2>7. (n - 1) + 1 = n
    BY <1>5
  <2> QED
    BY <1>4, <2>5, <2>6, <2>7
<1> QED
  BY <1>6, <1>7

(* So a listing is sorted, and shows every alert it was asked for once.    *)
LEMMA ListingFacts ==
    ASSUME NEW order, NEW ids, IsFiniteSet(ids)
    PROVE  LET listed == {a \in Stored : a.id \in ids}
           IN  /\ Sorts(Listing(order, ids), order, Cardinality(listed), listed)
               /\ IsFiniteSet(listed)
               /\ \A a \in listed : \E i \in 1 .. Cardinality(listed) :
                     Listing(order, ids)[i] = a
<1> DEFINE listed == {a \in Stored : a.id \in ids}
           n == Cardinality(listed)
           Sorted(rows) ==
               \A i, j \in DOMAIN rows : i < j => Before(order, rows[i], rows[j])
           id == [a \in listed |-> a.id]
<1>1. id \in Injection(listed, ids)
  BY IdAssumption DEF Injection, IsInjective
<1>2. IsFiniteSet(listed) /\ n \in Nat
  BY <1>1, FS_Injection, FS_CardinalityType
<1>3. listed \in SUBSET Stored
  OBVIOUS
<1>4. PICK rows : Sorts(rows, order, n, listed)
  BY <1>2, <1>3, RowsCanBeSorted
<1>5. rows \in [1 .. n -> listed] /\ Sorted(rows)
  BY <1>4 DEF Sorts
<1>6. Listing(order, ids) = CHOOSE q \in [1 .. n -> listed] : Sorted(q)
  BY DEF Listing
<1> DEFINE L == Listing(order, ids)
<1>7. L \in [1 .. n -> listed] /\ Sorted(L)
  <2> HIDE DEF n, listed, Sorted
  <2> QED
    BY <1>5, <1>6
<1>8. IsFiniteSet(1 .. n) /\ Cardinality(1 .. n) = n
  <2>1. 1 \in Int /\ n \in Int
    BY <1>2
  <2> HIDE DEF n
  <2>2. IsFiniteSet(1 .. n) /\ Cardinality(1 .. n) = IF 1 > n THEN 0 ELSE n - 1 + 1
    BY <2>1, FS_Interval
  <2> QED
    BY <1>2, <2>2
<1> HIDE DEF n, L
<1>9. ASSUME NEW i \in 1 .. n, NEW j \in 1 .. n, L[i] = L[j]
      PROVE  i = j
  <2>1. L[i] \in Stored
    BY <1>3, <1>7
  <2>2. ~ (i < j) /\ ~ (j < i)
    BY <1>7, <1>9, <2>1, BeforeFacts
  <2> QED
    BY <1>2, <2>2
<1>10. L \in Injection(1 .. n, listed)
  BY <1>7, <1>9 DEF Injection, IsInjective
<1>11. Cardinality(1 .. n) = Cardinality(listed)
  BY <1>8 DEF n
<1>12. L \in Surjection(1 .. n, listed)
  <2> HIDE DEF listed
  <2> QED
    BY <1>2, <1>8, <1>10, <1>11, FS_Injection
<1>13. \A a \in listed : \E i \in 1 .. n : L[i] = a
  BY <1>12 DEF Surjection
<1>14. Sorts(L, order, n, listed)
  BY <1>7 DEF Sorts
<1> QED
  BY <1>2, <1>13, <1>14 DEF n, L

-----------------------------------------------------------------------------
(* The pages cut the rows up.                                              *)

LEMMA Larger ==
    ASSUME NEW x \in Int, NEW y \in Int
    PROVE  /\ Max({x, y}) \in Int /\ Max({x, y}) \in {x, y}
           /\ Max({x, y}) >= x /\ Max({x, y}) >= y
           /\ Min({x, y}) \in Int /\ Min({x, y}) \in {x, y}
           /\ Min({x, y}) <= x /\ Min({x, y}) <= y
<1>1. \E m \in {x, y} : \A z \in {x, y} : m >= z
  BY x <= y \/ y <= x
<1>2. Max({x, y}) \in {x, y} /\ \A z \in {x, y} : Max({x, y}) >= z
  BY <1>1 DEF Max
<1>3. \E m \in {x, y} : \A z \in {x, y} : m <= z
  BY x <= y \/ y <= x
<1>4. Min({x, y}) \in {x, y} /\ \A z \in {x, y} : Min({x, y}) <= z
  BY <1>3 DEF Min
<1> QED
  BY <1>2, <1>4

LEMMA Products ==
    ASSUME NEW p \in Nat, NEW a \in Nat, NEW b \in Nat
    PROVE  /\ a * p \in Nat
           /\ (a + 1) * p = a * p + p
           /\ a <= b => a * p <= b * p
<1>1. a * p \in Nat /\ b * p \in Nat
  OBVIOUS
<1>2. (a + 1) * p = a * p + p
  OBVIOUS
<1>3. ASSUME a <= b
      PROVE  a * p <= b * p
  <2>1. (b - a) * p >= 0
    BY <1>3
  <2>2. (b - a) * p = b * p - a * p
    OBVIOUS
  <2> QED
    BY <1>1, <2>1, <2>2
<1> QED
  BY <1>1, <1>2, <1>3

(* The last page is the first that reaches the end.                        *)
LEMMA PagesFacts ==
    ASSUME NEW total \in Nat
    PROVE  /\ Pages(total) \in Nat \ {0}
           /\ total <= Pages(total) * PerPage
<1> DEFINE full == (total + PerPage - 1) \div PerPage
<1>1. PerPage \in Nat /\ PerPage >= 1
  BY DashboardBoundAssumption
<1>2. full \in Nat /\ total + PerPage - 1 < PerPage * full + PerPage
  <2>1. total + PerPage - 1 \in Nat
    BY <1>1
  <2>2. \A t \in Nat, p \in Nat \ {0} : t \div p \in Nat /\ t < p * (t \div p) + p
    OBVIOUS
  <2> QED
    BY <1>1, <2>1, <2>2
<1> HIDE DEF full
<1>3. Pages(total) = Max({1, full})
  BY DEF Pages, full
<1>4. /\ Pages(total) \in Int /\ Pages(total) >= 1 /\ Pages(total) >= full
  BY <1>2, <1>3, Larger
<1>5. full * PerPage <= Pages(total) * PerPage /\ full * PerPage \in Nat
      /\ Pages(total) * PerPage \in Nat
  BY <1>1, <1>2, <1>4, Products
<1>6. full * PerPage = PerPage * full
  BY <1>1, <1>2
<1> QED
  BY <1>1, <1>2, <1>4, <1>5, <1>6

(* The row at a place, counted from the first page on.                     *)
RowAt(p) == (p[1] - 1) * PerPage + p[2]

LEMMA PageFacts ==
    ASSUME NEW set, NEW rows \in Seq(set), NEW n \in 1 .. Pages(Len(rows))
    PROVE  /\ \A k \in DOMAIN PageOf(rows, n) :
                 /\ k \in 1 .. PerPage
                 /\ RowAt(<<n, k>>) \in 1 .. Len(rows)
                 /\ PageOf(rows, n)[k] = rows[RowAt(<<n, k>>)]
           /\ \A k \in 1 .. PerPage :
                 RowAt(<<n, k>>) <= Len(rows) => k \in DOMAIN PageOf(rows, n)
<1> DEFINE L == Len(rows)
           lo == (n - 1) * PerPage
           hi == Min({n * PerPage, L})
           page1 == SubSeq(rows, lo + 1, hi)
<1>1. /\ L \in Nat /\ Pages(L) \in Nat /\ n \in Nat /\ 1 <= n /\ n <= Pages(L)
      /\ PerPage \in Nat /\ PerPage >= 1
  BY PagesFacts, DashboardBoundAssumption
<1>2. lo \in Nat /\ n * PerPage \in Nat /\ n * PerPage = lo + PerPage
  <2>1. n - 1 \in Nat /\ (n - 1) + 1 = n
    BY <1>1
  <2> QED
    BY <1>1, <2>1, Products
<1>3. hi \in Int /\ (hi = n * PerPage \/ hi = L) /\ hi <= n * PerPage /\ hi <= L
  <2> DEFINE end == n * PerPage
  <2>1. end \in Int /\ L \in Int
    BY <1>1, <1>2
  <2> HIDE DEF end, L
  <2>2. Min({end, L}) \in Int /\ Min({end, L}) \in {end, L}
        /\ Min({end, L}) <= end /\ Min({end, L}) <= L
    BY <2>1, Larger
  <2> QED
    BY <2>2 DEF end
<1>4. PageOf(rows, n) = page1
  <2> DEFINE last == Pages(L)
  <2>1. n \in Int /\ last \in Int /\ n <= last /\ 1 <= n /\ 1 \in Int
    BY <1>1
  <2> HIDE DEF last
  <2>2. Min({n, last}) = n
    <3>1. Min({n, last}) \in {n, last} /\ Min({n, last}) <= n
      BY <2>1, Larger
    <3> QED
      BY <2>1, <3>1
  <2>3. Max({1, n}) = n
    <3>1. Max({1, n}) \in {1, n} /\ Max({1, n}) >= n
      BY <2>1, Larger
    <3> QED
      BY <2>1, <3>1
  <2> QED
    BY <2>2, <2>3 DEF PageOf, last
<1> HIDE DEF L, lo, hi
<1>5. \A i \in lo + 1 .. hi : i \in 1 .. L
  BY <1>1, <1>2, <1>3
<1>6. \A i \in lo + 1 .. hi : rows[i] \in set
  BY <1>5 DEF L
<1>7. /\ page1 \in Seq(set)
      /\ Len(page1) = IF lo + 1 <= hi THEN hi - (lo + 1) + 1 ELSE 0
      /\ \A i \in 1 .. hi - (lo + 1) + 1 : page1[i] = rows[(lo + 1) + i - 1]
  <2>1. lo + 1 \in Int /\ hi \in Int
    BY <1>2, <1>3
  <2> DEFINE first == lo + 1
  <2>2. first \in Int /\ \A i \in first .. hi : rows[i] \in set
    BY <1>6, <2>1
  <2> HIDE DEF first
  <2>3. /\ SubSeq(rows, first, hi) \in Seq(set)
        /\ Len(SubSeq(rows, first, hi)) = IF first <= hi THEN hi - first + 1 ELSE 0
        /\ \A i \in 1 .. hi - first + 1 : SubSeq(rows, first, hi)[i] = rows[first + i - 1]
    BY <2>1, <2>2, SubSeqProperties
  <2> QED
    BY <2>3 DEF first
<1> HIDE DEF page1
<1>8. DOMAIN page1 = 1 .. Len(page1) /\ Len(page1) \in Nat
  BY <1>7
<1>9. \A k \in Int : RowAt(<<n, k>>) = lo + k
  BY <1>2 DEF RowAt, lo
<1>10. ASSUME NEW k \in DOMAIN page1
       PROVE  /\ k \in 1 .. PerPage
              /\ lo + k \in 1 .. L
              /\ page1[k] = rows[lo + k]
  <2>1. k \in 1 .. Len(page1) /\ lo + 1 <= hi /\ Len(page1) = hi - lo
    BY <1>2, <1>3, <1>7, <1>8
  <2>2. k \in 1 .. hi - (lo + 1) + 1 /\ (lo + 1) + k - 1 = lo + k
    BY <1>2, <1>3, <2>1
  <2>3. page1[k] = rows[lo + k]
    BY <1>7, <2>2
  <2> QED
    BY <1>1, <1>2, <1>3, <2>1, <2>3
<1>11. ASSUME NEW k \in 1 .. PerPage, lo + k <= L
       PROVE  k \in DOMAIN page1
  <2>1. lo + k <= hi /\ k \in Nat /\ 1 <= k
    BY <1>1, <1>2, <1>3, <1>11
  <2>2. Len(page1) = hi - lo
    BY <1>2, <1>3, <1>7, <2>1
  <2> QED
    BY <1>2, <1>3, <1>8, <2>1, <2>2
<1>12. \A k \in DOMAIN page1 : k \in Int
  BY <1>8
<1> QED
  BY <1>1, <1>4, <1>9, <1>10, <1>11, <1>12 DEF L

(* Every row has a place, and later places show later rows.                *)
LEMMA RowHasPlace ==
    ASSUME NEW set, NEW rows \in Seq(set), NEW i \in 1 .. Len(rows)
    PROVE  \E p \in Places(rows) : RowAt(p) = i
<1> DEFINE L == Len(rows)
           reach == {n \in Nat : i <= n * PerPage}
<1>1. /\ L \in Nat /\ Pages(L) \in Nat \ {0} /\ L <= Pages(L) * PerPage
      /\ PerPage \in Nat /\ PerPage >= 1 /\ i \in Nat /\ 1 <= i /\ i <= L
  BY PagesFacts, DashboardBoundAssumption
<1>2. Pages(L) * PerPage \in Nat
  BY <1>1, Products
<1>3. Pages(L) \in reach
  BY <1>1, <1>2
<1>4. PICK n \in reach : \A m \in reach : n <= m
  BY <1>3, LeastNatural
<1>5. n \in Nat /\ n <= Pages(L) /\ i <= n * PerPage
  BY <1>3, <1>4
<1>6. n # 0
  BY <1>1, <1>5
<1>7. n - 1 \in Nat /\ n - 1 \notin reach
  <2>1. n - 1 \in Nat /\ ~ (n <= n - 1)
    BY <1>5, <1>6
  <2> HIDE DEF reach
  <2> QED
    BY <1>4, <2>1
<1>8. ~ (i <= (n - 1) * PerPage)
  BY <1>7
<1> DEFINE lo == (n - 1) * PerPage
<1>9. lo \in Nat /\ n * PerPage = lo + PerPage
  <2>1. (n - 1) + 1 = n
    BY <1>5
  <2> QED
    BY <1>1, <1>7, <2>1, Products
<1> DEFINE k == i - lo
           p == <<n, k>>
<1>10. lo < i /\ i <= lo + PerPage
  BY <1>1, <1>5, <1>8, <1>9
<1> HIDE DEF lo
<1>11. k \in 1 .. PerPage /\ lo + k = i
  BY <1>1, <1>9, <1>10
<1>12. n \in 1 .. Pages(L)
  BY <1>1, <1>5, <1>6
<1> HIDE DEF k
<1>13. RowAt(p) = i
  BY <1>11 DEF RowAt, lo
<1>14. k \in DOMAIN PageOf(rows, n)
  BY <1>1, <1>11, <1>12, <1>13, PageFacts
<1> QED
  BY <1>11, <1>12, <1>13, <1>14 DEF Places

LEMMA LaterPlaceLaterRow ==
    ASSUME NEW rows, NEW p \in Places(rows), NEW q \in Places(rows), Precedes(p, q),
           Len(rows) \in Nat
    PROVE  RowAt(p) < RowAt(q)
<1>1. /\ PerPage \in Nat /\ p[1] \in Nat /\ 1 <= p[1] /\ q[1] \in Nat /\ 1 <= q[1]
      /\ p[2] \in Nat /\ q[2] \in Nat /\ 1 <= q[2] /\ p[2] <= PerPage
  <2>1. Pages(Len(rows)) \in Nat
    BY PagesFacts
  <2> QED
    BY <2>1, DashboardBoundAssumption DEF Places
<1>2. p[1] - 1 \in Nat /\ q[1] - 1 \in Nat /\ (p[1] - 1) + 1 = p[1]
  BY <1>1
<1>3. (p[1] - 1) * PerPage \in Nat /\ (q[1] - 1) * PerPage \in Nat
  BY <1>1, <1>2, Products
<1>4. CASE p[1] < q[1]
  <2>1. p[1] <= q[1] - 1
    BY <1>1, <1>4
  <2>2. p[1] * PerPage <= (q[1] - 1) * PerPage /\ p[1] * PerPage \in Nat
    BY <1>1, <1>2, <2>1, Products
  <2>3. p[1] * PerPage = (p[1] - 1) * PerPage + PerPage
    BY <1>1, <1>2, Products
  <2> DEFINE before == (p[1] - 1) * PerPage
             after == (q[1] - 1) * PerPage
  <2>4. before + PerPage <= after
    BY <2>2, <2>3
  <2>5. before \in Nat /\ after \in Nat
    BY <1>3
  <2> HIDE DEF before, after
  <2>6. before + p[2] < after + q[2]
    BY <1>1, <2>4, <2>5
  <2> QED
    BY <2>6 DEF RowAt, before, after
<1>5. CASE p[1] = q[1] /\ p[2] < q[2]
  BY <1>1, <1>3, <1>5 DEF RowAt
<1> QED
  BY <1>4, <1>5 DEF Precedes

(* A finite set of ids, all of stored alerts, is shown as the listing of   *)
(* it promises.                                                            *)
LEMMA PagesShowAll ==
    ASSUME NEW order, NEW ids, IsFiniteSet(ids), ids \subseteq Ids(Stored),
           NEW rows, rows = Listing(order, ids)
    PROVE  /\ Ids({Shown(rows, p) : p \in Places(rows)}) = ids
           /\ \A p, q \in Places(rows) :
                Precedes(p, q) => Before(order, Shown(rows, p), Shown(rows, q))
<1> DEFINE listed == {a \in Stored : a.id \in ids}
           n == Cardinality(listed)
<1>1. /\ Sorts(rows, order, n, listed) /\ IsFiniteSet(listed)
      /\ \A a \in listed : \E i \in 1 .. n : rows[i] = a
  BY ListingFacts
<1>2. n \in Nat
  BY <1>1, FS_CardinalityType
<1>3. Ids(listed) = ids
  BY DEF Ids
<1> HIDE DEF listed, n
<1>4. rows \in [1 .. n -> listed]
  BY <1>1 DEF Sorts
<1>5. rows \in Seq(listed) /\ Len(rows) = n
  BY <1>2, <1>4
<1>6. ASSUME NEW p \in Places(rows)
      PROVE  RowAt(p) \in 1 .. n /\ Shown(rows, p) = rows[RowAt(p)]
  <2>1. /\ p[1] \in 1 .. Pages(Len(rows)) /\ p[2] \in DOMAIN PageOf(rows, p[1])
        /\ p = <<p[1], p[2]>>
    BY DEF Places
  <2> QED
    BY <1>5, <2>1, PageFacts DEF Shown
<1>7. {Shown(rows, p) : p \in Places(rows)} = listed
  <2>1. ASSUME NEW p \in Places(rows)
        PROVE  Shown(rows, p) \in listed
    BY <1>4, <1>6
  <2>2. ASSUME NEW a \in listed
        PROVE  \E p \in Places(rows) : Shown(rows, p) = a
    <3>1. PICK i \in 1 .. n : rows[i] = a
      BY <1>1
    <3>2. PICK p \in Places(rows) : RowAt(p) = i
      BY <1>5, RowHasPlace
    <3> QED
      BY <1>6, <3>1, <3>2
  <2> QED
    BY <2>1, <2>2
<1>8. ASSUME NEW p \in Places(rows), NEW q \in Places(rows), Precedes(p, q)
      PROVE  Before(order, Shown(rows, p), Shown(rows, q))
  <2>1. RowAt(p) < RowAt(q)
    BY <1>2, <1>5, <1>8, LaterPlaceLaterRow
  <2> QED
    BY <1>1, <1>6, <2>1 DEF Sorts
<1> QED
  BY <1>3, <1>7, <1>8

(* Whatever the database holds and a filter chooses from it, every alert   *)
(* chosen is on one place of one page, and the pages are in order.         *)
THEOREM ListingShowsAll == DashboardSpec => []PagesCoverListing
<1>1. DashboardInvariant => PagesCoverListing
  <2> SUFFICES ASSUME DashboardInvariant, NEW order \in SortOrders, NEW ids \in SUBSET db
               PROVE  LET rows == Listing(order, ids)
                      IN  /\ Ids({Shown(rows, p) : p \in Places(rows)}) = ids
                          /\ \A p, q \in Places(rows) :
                                Precedes(p, q) =>
                                    Before(order, Shown(rows, p), Shown(rows, q))
    BY DEF PagesCoverListing
  <2>1. alerts \in SUBSET Stored /\ IsFiniteSet(alerts) /\ db \subseteq PublicIds(alerts)
        /\ db \subseteq Ids(alerts)
    BY DEF DashboardInvariant, DashboardTypeOK, FilesInvariant, OnlyPublicAlerts
  <2>2. IsFiniteSet(ids)
    BY <2>1, IdsCountAlerts, FS_Subset
  <2>3. ids \subseteq Ids(Stored)
    BY <2>1 DEF Ids
  <2> QED
    BY <2>2, <2>3, PagesShowAll
<1> QED
  BY DashboardInvariantHolds, <1>1, PTL

-----------------------------------------------------------------------------
(* The cache of locations, for any addresses, limits and answers.          *)

Entries == [located : BOOLEAN, org : BOOLEAN, failed : 0 .. RETRY_AFTER]

(* Until a mishap loses an answer, an address whose location is not known  *)
(* was asked for when its failure was noted, or never.                     *)
LookupsRemembered ==
    \A ip \in Addresses : geo[ip] = Known \/ geo[ip].failed = asked[ip]

GeoInvariant ==
    /\ geo \in [Addresses -> Entries]
    /\ asked \in [Addresses -> 1 .. RETRY_AFTER]
    /\ mishaps \in Nat
    /\ mishaps = 0 => LookupsRemembered

LEMMA OlderFacts ==
    ASSUME NEW age \in 0 .. RETRY_AFTER
    PROVE  /\ Older(age) \in 1 .. RETRY_AFTER
           /\ Older(age) = 1 => age = 0
           /\ age = RETRY_AFTER => Older(age) = RETRY_AFTER
BY GeoAssumption DEF Older

LEMMA EntriesFacts ==
    /\ NotAsked \in Entries /\ Known \in Entries /\ Failed \in Entries
    /\ Entry(TRUE, FALSE, RETRY_AFTER) \in Entries
    /\ Known.failed = RETRY_AFTER /\ Known.located /\ Known.org /\ Failed.failed = 0
BY GeoAssumption DEF NotAsked, Known, Failed, Entry, Entries

(* Only an address that is not skipped is asked for, and only its entry    *)
(* changes.                                                                *)
LEMMA EnrichFacts ==
    ASSUME NEW wanted, NEW answers, NEW entries, NEW ip \in Addresses
    PROVE  LET done == Enrich(wanted, answers, entries)
           IN  /\ ip \in done.asked => ~ Skipped(ip, entries[ip])
               /\ done.entries[ip] = IF ip \in done.asked
                                     THEN Answered(entries[ip], answers[ip]) ELSE entries[ip]
BY DEF Enrich

(* The types are kept whatever the service says, or if nothing is saved.   *)
LEMMA PublishedTyped ==
    ASSUME GeoInvariant, NEW looked, NEW entries,
           \A ip \in Addresses : entries[ip] \in Entries, Published(entries, looked)
    PROVE  geo' \in [Addresses -> Entries] /\ asked' \in [Addresses -> 1 .. RETRY_AFTER]
<1>1. ASSUME NEW ip \in Addresses
      PROVE  /\ [entries[ip] EXCEPT !.failed = Older(@)] \in Entries
             /\ Older(IF ip \in looked THEN 0 ELSE asked[ip]) \in 1 .. RETRY_AFTER
  <2>1. entries[ip] \in Entries /\ entries[ip].failed \in 0 .. RETRY_AFTER
    BY DEF Entries
  <2>2. Older(entries[ip].failed) \in 0 .. RETRY_AFTER
    BY <2>1, OlderFacts
  <2>3. (IF ip \in looked THEN 0 ELSE asked[ip]) \in 0 .. RETRY_AFTER
    BY GeoAssumption DEF GeoInvariant
  <2>4. Older(IF ip \in looked THEN 0 ELSE asked[ip]) \in 1 .. RETRY_AFTER
    BY <2>3, OlderFacts
  <2>5. [entries[ip] EXCEPT !.failed = Older(@)] \in Entries
    BY <2>1, <2>2 DEF Entries
  <2> QED
    BY <2>4, <2>5
<1> QED
  BY <1>1 DEF Published

LEMMA EnrichTyped ==
    ASSUME NEW entries \in [Addresses -> Entries], NEW wanted, NEW ip \in Addresses,
           NEW answers \in [Addresses -> {"found", "unknown", "limited"}]
    PROVE  Enrich(wanted, answers, entries).entries[ip] \in Entries
<1>1. entries[ip] \in Entries /\ Answered(entries[ip], answers[ip]) \in Entries
  BY EntriesFacts DEF Answered
<1> QED
  BY <1>1, EnrichFacts

LEMMA MishapKeeps ==
    ASSUME GeoInvariant, LookLimited \/ LookUnranked \/ LookUnsaved \/ LookForgetful
    PROVE  GeoInvariant' /\ mishaps' # 0
<1>1. mishaps' \in Nat /\ mishaps' # 0
  BY DEF LookLimited, LookUnranked, LookUnsaved, LookForgetful, Mishap, GeoInvariant
<1>2. \A a \in Answers : a \in [Addresses -> {"found", "unknown", "limited"}]
  BY DEF Answers
<1>3. PICK entries, looked : /\ \A ip \in Addresses : entries[ip] \in Entries
                             /\ Published(entries, looked)
  <2>1. CASE LookLimited
    <3>1. PICK ip \in Addresses, a \in Answers, wanted \in Orders[Addresses] :
            LET done == Enrich(wanted, [a EXCEPT ![ip] = "limited"], geo)
            IN  Published(done.entries, done.asked)
      <4>1. PICK ip \in Addresses :
              \E done \in Lookups(Addresses, {[a EXCEPT ![ip] = "limited"] : a \in Answers}) :
                  Published(done.entries, done.asked)
        BY <2>1 DEF LookLimited
      <4>2. PICK wanted \in Orders[Addresses],
                 b \in {[a EXCEPT ![ip] = "limited"] : a \in Answers} :
              LET done == Enrich(wanted, b, geo)
              IN  Published(done.entries, done.asked)
        BY <4>1 DEF Lookups
      <4>3. PICK a \in Answers : b = [a EXCEPT ![ip] = "limited"]
        OBVIOUS
      <4> QED
        BY <4>2, <4>3
    <3>2. [a EXCEPT ![ip] = "limited"] \in [Addresses -> {"found", "unknown", "limited"}]
      BY <1>2
    <3> QED
      BY <3>1, <3>2, EnrichTyped DEF GeoInvariant
  <2>2. CASE LookUnranked
    <3>1. PICK some \in SUBSET Addresses :
            \E a \in Answers, wanted \in Orders[some] :
                LET done == Enrich(wanted, a, geo)
                IN  Published(done.entries, done.asked)
      BY <2>2 DEF LookUnranked, Lookups
    <3> QED
      BY <1>2, <3>1, EnrichTyped DEF GeoInvariant
  <2>3. CASE LookUnsaved
    <3>1. \E looked : Published(geo, looked)
      BY <2>3 DEF LookUnsaved
    <3> QED
      BY <3>1 DEF GeoInvariant
  <2>4. CASE LookForgetful
    <3>1. PICK wanted \in Orders[Addresses], a \in Answers :
            LET done == Enrich(wanted, a, [ip \in Addresses |-> NotAsked])
            IN  Published(done.entries, done.asked)
      BY <2>4 DEF LookForgetful
    <3>2. [ip \in Addresses |-> NotAsked] \in [Addresses -> Entries]
      BY EntriesFacts
    <3> QED
      BY <1>2, <3>1, <3>2, EnrichTyped
  <2> QED
    BY <2>1, <2>2, <2>3, <2>4
<1>4. geo' \in [Addresses -> Entries] /\ asked' \in [Addresses -> 1 .. RETRY_AFTER]
  BY <1>3, PublishedTyped
<1> QED
  BY <1>1, <1>4 DEF GeoInvariant

(* A publish without a mishap: what is asked for is noted, and was not     *)
(* known nor asked for lately.                                             *)
LEMMA LookKeeps ==
    ASSUME GeoInvariant, Look
    PROVE  /\ GeoInvariant'
           /\ mishaps' = 0 =>
                 \A ip \in Addresses : asked'[ip] = 1 =>
                     geo[ip] # Known /\ ip \notin Private /\ asked[ip] = RETRY_AFTER
<1>1. PICK a \in Answers, wanted \in Orders[Addresses] :
        LET done == Enrich(wanted, a, geo)
        IN  Published(done.entries, done.asked)
  BY DEF Look, Lookups
<1> DEFINE done == Enrich(wanted, a, geo)
<1>2. a \in [Addresses -> {"found", "unknown", "limited"}]
      /\ \A ip \in Addresses : a[ip] \in {"found", "unknown"}
  BY DEF Answers
<1>3. UNCHANGED mishaps /\ mishaps \in Nat
  BY DEF Look, GeoInvariant
<1>4. \A ip \in Addresses :
        /\ ip \in done.asked => ~ Skipped(ip, geo[ip])
        /\ done.entries[ip] \in Entries
        /\ done.entries[ip] = IF ip \in done.asked
                              THEN Answered(geo[ip], a[ip]) ELSE geo[ip]
  BY <1>2, EnrichFacts, EnrichTyped DEF GeoInvariant
<1>5. Published(done.entries, done.asked)
  BY <1>1
<1> HIDE DEF done
<1>6. geo' \in [Addresses -> Entries] /\ asked' \in [Addresses -> 1 .. RETRY_AFTER]
  BY <1>4, <1>5, PublishedTyped
<1>7. ASSUME mishaps = 0, NEW ip \in Addresses
      PROVE  /\ geo'[ip] = Known \/ geo'[ip].failed = asked'[ip]
             /\ asked'[ip] = 1 =>
                   geo[ip] # Known /\ ip \notin Private /\ asked[ip] = RETRY_AFTER
  <2>1. /\ geo[ip] \in Entries /\ asked[ip] \in 1 .. RETRY_AFTER
        /\ geo[ip] = Known \/ geo[ip].failed = asked[ip]
    BY <1>7 DEF GeoInvariant, LookupsRemembered
  <2>2. /\ geo'[ip] = [done.entries[ip] EXCEPT !.failed = Older(@)]
        /\ asked'[ip] = Older(IF ip \in done.asked THEN 0 ELSE asked[ip])
    BY <1>5 DEF Published
  <2>3. geo'[ip].failed = Older(done.entries[ip].failed)
    BY <1>4, <2>2 DEF Entries
  <2>4. done.entries[ip] = Known => geo'[ip] = Known
    <3>1. SUFFICES ASSUME done.entries[ip] = Known
                   PROVE  geo'[ip] = Known
      OBVIOUS
    <3>2. Older(Known.failed) = RETRY_AFTER
      BY GeoAssumption, EntriesFacts, OlderFacts
    <3>3. geo'[ip] = [Known EXCEPT !.failed = RETRY_AFTER]
      BY <2>2, <3>1, <3>2
    <3> QED
      BY <3>3 DEF Known, Entry
  <2>5. CASE ip \in done.asked
    <3>1. ip \notin Private /\ geo[ip] # Known /\ ~ (geo[ip].failed < RETRY_AFTER)
      BY <1>4, <2>5, EntriesFacts DEF Skipped
    <3>2. asked[ip] = RETRY_AFTER
      <4>1. ~ (asked[ip] < RETRY_AFTER)
        BY <2>1, <3>1
      <4> QED
        BY <2>1, <4>1, GeoAssumption
    <3>3. done.entries[ip] = Known \/ done.entries[ip] = Failed
      BY <1>2, <1>4, <2>5 DEF Answered
    <3>4. done.entries[ip] = Failed => geo'[ip].failed = asked'[ip]
      BY <2>2, <2>3, <2>5, EntriesFacts
    <3> QED
      BY <2>4, <3>1, <3>2, <3>3, <3>4
  <2>6. CASE ip \notin done.asked
    <3>1. done.entries[ip] = geo[ip] /\ asked'[ip] = Older(asked[ip])
      BY <1>4, <2>2, <2>6
    <3>2. asked'[ip] # 1
      <4>1. asked[ip] \in 0 .. RETRY_AFTER /\ asked[ip] # 0
        BY <2>1
      <4> QED
        BY <3>1, <4>1, OlderFacts
    <3>3. geo[ip].failed = asked[ip] => geo'[ip].failed = asked'[ip]
      BY <2>3, <3>1
    <3> QED
      BY <2>1, <2>4, <3>1, <3>2, <3>3
  <2> QED
    BY <2>5, <2>6
<1>8. mishaps' = 0 => LookupsRemembered'
  BY <1>3, <1>7 DEF LookupsRemembered
<1> QED
  BY <1>3, <1>6, <1>7, <1>8 DEF GeoInvariant

LEMMA GeoInvariantInitially == GeoInit => GeoInvariant
<1> SUFFICES ASSUME GeoInit
             PROVE  GeoInvariant
  OBVIOUS
<1>1. geo \in [Addresses -> Entries]
  BY EntriesFacts DEF GeoInit
<1>2. asked \in [Addresses -> 1 .. RETRY_AFTER] /\ mishaps \in Nat
  BY GeoAssumption DEF GeoInit
<1>3. \A ip \in Addresses : geo[ip].failed = RETRY_AFTER
  BY DEF GeoInit, NotAsked, Entry
<1>4. LookupsRemembered
  BY <1>3 DEF GeoInit, LookupsRemembered
<1> QED
  BY <1>1, <1>2, <1>4 DEF GeoInvariant

(* Without mishaps the service is not asked for what is known, nor twice   *)
(* about one address before RETRY_AFTER publishes have passed.             *)
THEOREM ServiceNotHammered == GeoSpec => NotHammered
<1>1. GeoInvariant /\ [GeoNext]_geoVars => GeoInvariant'
  BY LookKeeps, MishapKeeps
     DEF GeoNext, geoVars, GeoInvariant, LookupsRemembered
<1>2. GeoInvariant /\ [GeoNext]_geoVars =>
        [mishaps' = 0 =>
            \A ip \in Addresses :
                asked'[ip] = 1 =>
                    geo[ip] # Known /\ ip \notin Private /\ asked[ip] = RETRY_AFTER]_geoVars
  BY LookKeeps, MishapKeeps DEF GeoNext
<1> QED
  BY GeoInvariantInitially, <1>1, <1>2, PTL DEF GeoSpec, NotHammered

=============================================================================
