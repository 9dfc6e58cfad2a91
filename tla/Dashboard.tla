----------------------------- MODULE Dashboard -----------------------------
(***************************************************************************)
(* What an engine publishes after its merge and the read-only API serves:  *)
(* public_alerts.db, public_attackers.json and dashboard_summary.json,     *)
(* written in this order, read by the API's threads at any time.  Every    *)
(* step of a publish can fail, and the engine can be killed between any    *)
(* two.                                                                    *)
(*                                                                         *)
(* Nothing is locked.  Two engines that publish at the same time (the      *)
(* deployment and a report started by hand) write the same files by the    *)
(* same temporary names, each from the list of its own merge: an older     *)
(* list can replace a newer one, one engine can move or remove what the    *)
(* other is still writing, and what is in the file then is left open.      *)
(*                                                                         *)
(* A file is what it was built from: the set of alerts (alerts.json only   *)
(* grows).  GeoCache has the locations; the texts, and how they are masked *)
(* and shortened, are left out.                                            *)
(***************************************************************************)
EXTENDS Integers, FiniteSets, Sequences, FiniteSetsExt

CONSTANTS
    Engines,
    Stored,          \* the alerts the engines can store
    Batches,         \* what the rules can raise in a cycle, sets of these
    OWNER_AUIDS,     \* PURPLE_INTERNAL_AUIDS
    EXCLUDED_RULES,
    Requests,        \* threads of the API
    PerPage,
    MaxFaults,       \* bound: failed steps, killed engines, engines that overlap
    MaxRepeats       \* bound: publishes that only renew the time stamps

(* The id of an alert is a hash of what makes it differ from the others.   *)
ASSUME IdAssumption == \A a, b \in Stored : a.id = b.id => a = b

(* What a listing is sorted by: hashes, priorities and times are ordered   *)
(* like numbers.                                                           *)
ASSUME RowAssumption ==
    \A a \in Stored : a.rank \in Int /\ a.time \in Int /\ a.id \in Int

ASSUME BatchAssumption ==
    Batches \subseteq SUBSET Stored /\ \A batch \in Batches : IsFiniteSet(batch)

ASSUME DashboardBoundAssumption ==
    PerPage \in Nat \ {0} /\ {MaxFaults, MaxRepeats} \subseteq Nat

VARIABLES
    alerts,     \* alerts.json
    step,       \* engine -> its step of publish: "idle", "merged", "built",
                \*   "building", "stored", "detailed"
    draft,      \* engine -> the summary it is building, of the alerts it merged
    shared,     \* engines overlap, since there was last none between its merge
                \*   and the end of its publish
    db,         \* ids in public_alerts.db
    dbTmp,      \* public_alerts.db.tmp is there
    details,    \* public_attackers.json: [stamp: its mtime, 0: no file; of]
    page,       \* dashboard_summary.json; alone: its engine was, all the time
    mixed,      \* the files of which engines that overlap may have made anything
    faults,     \* steps failed, engines killed, merges while another engine
                \*   was on its way
    repeats,    \* publishes of what was published already
    cache,      \* the API's copy of the details: [stamp, version]
    request     \* thread -> [at, stamp, version]

fileVars      == <<db, dbTmp, details, page, mixed>>
publishVars   == <<alerts, step, draft, shared, fileVars, faults, repeats>>
dashboardVars == <<publishVars, cache, request>>

Files == {"db", "details", "page"}

NoSummary == [of |-> {}, total |-> 0, notable |-> {}, counts |-> 0, warnings |-> {}]

AsPage(summary, alone) ==
    [of |-> summary.of, total |-> summary.total, notable |-> summary.notable,
     counts |-> summary.counts, warnings |-> summary.warnings, alone |-> alone]

Waiting == [at |-> "idle", stamp |-> 0, version |-> 0]

DashboardInit ==
    /\ alerts = {}
    /\ step = [e \in Engines |-> "idle"]
    /\ draft = [e \in Engines |-> NoSummary]
    /\ shared = FALSE
    /\ db = {}
    /\ dbTmp = FALSE
    /\ details = [stamp |-> 0, of |-> {}]
    /\ page = AsPage(NoSummary, TRUE)
    /\ mixed = {}
    /\ faults = 0
    /\ repeats = 0
    /\ cache = [stamp |-> 0, version |-> 0]
    /\ request = [r \in Requests |-> Waiting]

-----------------------------------------------------------------------------
(* public_alerts.py.                                                       *)

IsOwnerActivity(a) == {a.auid, a.extraAuid} \intersect OWNER_AUIDS # {}

IsPublic(a) ==
    a.rule \notin EXCLUDED_RULES /\ a.severity # "INFO" /\ ~IsOwnerActivity(a)

(* dashboard_summary.is_public_alert, for the list and the timeline.       *)
IsNotable(a) == a.source # "cowrie" /\ IsPublic(a)

(* alert_id: a hash of rule, key and time of the alert.                    *)
Ids(set) == {a.id : a \in set}

PublicIds(set) == Ids({a \in set : IsPublic(a)})

Fault == faults < MaxFaults /\ faults' = faults + 1

Warn(e, text) == draft' = [draft EXCEPT ![e].warnings = @ \union {text}]

GoTo(e, next) == step' = [step EXCEPT ![e] = next]

(* While engines overlap, a file can become a mixture of theirs, that of   *)
(* the other, or half of one: it is marked, and {} stands for what it has. *)
Mix(file) == shared /\ mixed' = mixed \union {file}

(* It has become what its engine wrote.                                    *)
Clear(file) == mixed' = mixed \ {file}

(* Bug: the owner's activity is looked for in the top field only.          *)
TotalTopField(set) ==
    Cardinality({a \in set :
        /\ a.rule \notin EXCLUDED_RULES /\ a.severity # "INFO"
        /\ a.auid \notin OWNER_AUIDS})

Total(set) == Cardinality({a \in set : IsPublic(a)})

(* All the alerts were published, by an engine without company and without *)
(* a warning.                                                              *)
AllPublished ==
    /\ details.stamp # 0
    /\ page.alone /\ page.of = alerts /\ page.warnings = {}
    /\ mixed = {}

(* merge_and_save, then publish begins with the list it returned.          *)
Merge(e, new) ==
    /\ step[e] = "idle"
    /\ GoTo(e, "merged")
    /\ alerts' = alerts \union new
    /\ draft' = [draft EXCEPT ![e].of = alerts']
    /\ shared' = \E other \in Engines : step[other] # "idle"
    /\ IF shared' THEN Fault ELSE UNCHANGED faults
    /\ IF AllPublished /\ new \subseteq alerts
       THEN repeats < MaxRepeats /\ repeats' = repeats + 1
       ELSE UNCHANGED repeats
    /\ UNCHANGED fileVars

(* build_summary and geo_lookup.enrich; the honeypot database can be       *)
(* unreadable and the lookups can fail.                                    *)
BuildSummary(e) ==
    /\ step[e] = "merged"
    /\ GoTo(e, "built")
    /\ \E warnings \in SUBSET {"honeypot", "geolocation"} :
          /\ IF warnings = {} THEN UNCHANGED faults ELSE Fault
          /\ draft' = [draft EXCEPT ![e] =
                [of |-> @.of, notable |-> Ids({a \in @.of : IsNotable(a)}),
                 total |-> Total(@.of), counts |-> 0, warnings |-> warnings]]
    /\ UNCHANGED <<alerts, shared, fileVars, repeats>>

(* rule_counts reads the database that is there now, and can fail too.     *)
CountRules(e) ==
    \/ draft' = [draft EXCEPT ![e].counts = Cardinality(db')] /\ UNCHANGED faults
    \/ Warn(e, "alerts") /\ (Fault \/ ("db" \in mixed' /\ UNCHANGED faults))

UpToDate(e) == db = PublicIds(draft[e].of) /\ "db" \notin mixed

(* Bug: a temporary file is taken for a rebuild that is under way.         *)
RebuildUnlessLeftover(e) ==
    /\ step[e] = "built"
    /\ IF UpToDate(e) \/ dbTmp
       THEN /\ GoTo(e, "stored")
            /\ UNCHANGED fileVars
            /\ CountRules(e)
       ELSE /\ GoTo(e, "building")
            /\ dbTmp' = TRUE
            /\ UNCHANGED <<db, details, page, mixed, draft, faults>>
    /\ UNCHANGED <<alerts, shared, repeats>>

(* rebuild, up to the temporary file: nothing to do when the ids are the   *)
(* same; a temporary file is removed first, whoever left it there or is    *)
(* still writing it.                                                       *)
Rebuild(e) ==
    /\ step[e] = "built"
    /\ IF UpToDate(e)
       THEN /\ GoTo(e, "stored")
            /\ UNCHANGED fileVars
            /\ CountRules(e)
       ELSE /\ GoTo(e, "building")
            /\ dbTmp' = TRUE
            /\ UNCHANGED <<db, details, page, mixed, draft, faults>>
    /\ UNCHANGED <<alerts, shared, repeats>>

(* os.replace, of the engine's own file or of what another has made of it. *)
Replace(e) ==
    /\ step[e] = "building"
    /\ GoTo(e, "stored")
    /\ dbTmp' = FALSE
    /\ \/ db' = PublicIds(draft[e].of) /\ Clear("db")
       \/ db' = {} /\ Mix("db")
    /\ CountRules(e)
    /\ UNCHANGED <<alerts, shared, details, page, repeats>>

(* By a fault of its own, or because another engine's file is in the way   *)
(* or its own was moved or removed.                                        *)
RebuildFails(e) ==
    /\ step[e] \in {"built", "building"}
    /\ GoTo(e, "stored")
    /\ Warn(e, "alerts")
    /\ \/ Fault /\ UNCHANGED <<db, mixed>>
       \/ UNCHANGED faults /\ db' = {} /\ Mix("db")
    /\ UNCHANGED <<alerts, shared, dbTmp, details, page, repeats>>

NewDetails(set) == details' = [stamp |-> details.stamp + 1, of |-> set]

(* public_attackers.build.                                                 *)
WriteDetails(e) ==
    /\ step[e] = "stored"
    /\ GoTo(e, "detailed")
    /\ \/ NewDetails(draft[e].of) /\ Clear("details")
       \/ NewDetails({}) /\ Mix("details")
    /\ UNCHANGED <<alerts, draft, shared, db, dbTmp, page, faults, repeats>>

(* What an engine writes on into a file another one has moved to its place *)
(* gives that file a new stamp.                                            *)
DetailsFail(e) ==
    /\ step[e] = "stored"
    /\ GoTo(e, "detailed")
    /\ Warn(e, "attackers")
    /\ \/ Fault /\ UNCHANGED <<details, mixed>>
       \/ UNCHANGED faults /\ NewDetails({}) /\ Mix("details")
    /\ UNCHANGED <<alerts, shared, db, dbTmp, page, repeats>>

Ends(e) ==
    /\ GoTo(e, "idle")
    /\ draft' = [draft EXCEPT ![e] = NoSummary]
    /\ shared' = (shared /\ \E other \in Engines \ {e} : step[other] # "idle")

WriteSummary(e) ==
    /\ step[e] = "detailed"
    /\ Ends(e)
    /\ \/ page' = AsPage(draft[e], ~ shared) /\ Clear("page")
       \/ page' = AsPage(NoSummary, FALSE) /\ Mix("page")
    /\ UNCHANGED <<alerts, db, dbTmp, details, faults, repeats>>

(* Another engine has moved the temporary file of the summary: the rename  *)
(* raises and run_engine goes on without it.                               *)
SummaryFails(e) ==
    /\ step[e] = "detailed"
    /\ Ends(e)
    /\ page' = AsPage(NoSummary, FALSE)
    /\ Mix("page")
    /\ UNCHANGED <<alerts, db, dbTmp, details, faults, repeats>>

(* Killed, or an exception that run_engine catches: the cycle goes without *)
(* a summary.                                                              *)
PublishEnds(e) ==
    /\ step[e] # "idle"
    /\ Ends(e)
    /\ Fault \/ (shared /\ UNCHANGED faults)
    /\ UNCHANGED <<alerts, fileVars, repeats>>

Publish(e) ==
    \/ BuildSummary(e) \/ Rebuild(e) \/ Replace(e) \/ RebuildFails(e)
    \/ WriteDetails(e) \/ DetailsFail(e)
    \/ WriteSummary(e) \/ SummaryFails(e) \/ PublishEnds(e)

-----------------------------------------------------------------------------
(* api.py: GET /api/attackers/{ip}.                                        *)

(* os.stat; the cache is used if it has this stamp.                        *)
Stat(r) ==
    /\ request[r].at = "idle"
    /\ details.stamp # 0
    /\ request' = [request EXCEPT ![r] =
          [at |-> IF cache.stamp = details.stamp THEN "answer" ELSE "load",
           stamp |-> details.stamp, version |-> 0]]
    /\ UNCHANGED cache

(* open and json.load.                                                     *)
Load(r) ==
    /\ request[r].at = "load"
    /\ request' = [request EXCEPT ![r] =
          [at |-> "store", stamp |-> @.stamp, version |-> details.stamp]]
    /\ UNCHANGED cache

(* A file that engines are writing at the same time may not be JSON: 503.  *)
LoadFails(r) ==
    /\ request[r].at = "load"
    /\ "details" \in mixed
    /\ request' = [request EXCEPT ![r] = Waiting]
    /\ UNCHANGED cache

(* Bug: the stamp is taken when the file has been loaded.                  *)
UpdateStampedNow(r) ==
    /\ request[r].at = "store"
    /\ cache' = [stamp |-> details.stamp, version |-> request[r].version]
    /\ request' = [request EXCEPT ![r].at = "answer"]

(* _attackers_cache.update.                                                *)
Update(r) ==
    /\ request[r].at = "store"
    /\ cache' = [stamp |-> request[r].stamp, version |-> request[r].version]
    /\ request' = [request EXCEPT ![r].at = "answer"]

(* The answer is what the cache has by then.                               *)
Answer(r) ==
    /\ request[r].at = "answer"
    /\ request' = [request EXCEPT ![r] = Waiting]
    /\ UNCHANGED cache

Attacker(r) == Stat(r) \/ Load(r) \/ LoadFails(r) \/ Update(r) \/ Answer(r)

(* query_alerts: by priority, then time, or by time; ids break ties.       *)
SortOrders == {"priority", "time"}

Rank(order, a) == IF order = "time" THEN 0 ELSE a.rank

Before(order, a, b) ==
    \/ Rank(order, a) > Rank(order, b)
    \/ Rank(order, a) = Rank(order, b) /\ a.time > b.time
    \/ Rank(order, a) = Rank(order, b) /\ a.time = b.time /\ a.id < b.id

(* The rows with these ids, whatever filter chose them.                    *)
Listing(order, ids) ==
    LET listed == {a \in Stored : a.id \in ids}
        Sorted(rows) ==
            \A i, j \in DOMAIN rows : i < j => Before(order, rows[i], rows[j])
    IN  CHOOSE rows \in [1 .. Cardinality(listed) -> listed] : Sorted(rows)

(* Bug: the last page is not counted when it is not full.                  *)
PagesFloor(total) == Max({1, total \div PerPage})

Pages(total) == Max({1, (total + PerPage - 1) \div PerPage})

PageOf(rows, number) ==
    LET n == Max({1, Min({number, Pages(Len(rows))})})
    IN  SubSeq(rows, (n - 1) * PerPage + 1, Min({n * PerPage, Len(rows)}))

-----------------------------------------------------------------------------

(* A cycle that finds nothing new publishes again.                         *)
EngineStep == \E e \in Engines : Publish(e) \/ Merge(e, {})

MergeNew == \E e \in Engines, new \in Batches : ~ (new \subseteq alerts) /\ Merge(e, new)

DashboardNext ==
    \/ EngineStep /\ UNCHANGED <<cache, request>>
    \/ MergeNew /\ UNCHANGED <<cache, request>>
    \/ \E r \in Requests : Attacker(r) /\ UNCHANGED publishVars

(* run_loop.sh starts the next cycle whatever became of the last one.      *)
DashboardFairness == WF_dashboardVars(EngineStep /\ UNCHANGED <<cache, request>>)

DashboardSpec == DashboardInit /\ [][DashboardNext]_dashboardVars /\ DashboardFairness

-----------------------------------------------------------------------------

Steps == {"idle", "merged", "built", "building", "stored", "detailed"}

Warnings == {"honeypot", "geolocation", "alerts", "attackers"}

Summary ==
    [of : SUBSET alerts, total : Nat, notable : SUBSET Ids(alerts), counts : Nat,
     warnings : SUBSET Warnings]

PageType == {AsPage(s, alone) : s \in Summary, alone \in BOOLEAN}

Request == [at : {"idle", "load", "store", "answer"}, stamp : Nat, version : Nat]

DashboardTypeOK ==
    /\ alerts \in SUBSET Stored
    /\ step \in [Engines -> Steps]
    /\ draft \in [Engines -> Summary]
    /\ shared \in BOOLEAN
    /\ page \in PageType
    /\ mixed \in SUBSET Files
    /\ db \in SUBSET Ids(alerts)
    /\ dbTmp \in BOOLEAN
    /\ details \in [stamp : Nat, of : SUBSET alerts]
    /\ faults \in 0 .. MaxFaults
    /\ repeats \in 0 .. MaxRepeats
    /\ cache \in [stamp : Nat, version : Nat]
    /\ request \in [Requests -> Request]

(* The files are never published ahead of each other: what a summary       *)
(* counts can be listed, and has its details, unless the summary says that *)
(* this part failed; and its two counts of the public alerts, one made in  *)
(* memory and one in the database, agree (neither has the owner's own).    *)
(* So it stays until the next summary, whatever fails, is killed or        *)
(* overlaps by then.  It is asked for a summary whose engine had no other  *)
(* beside it, and of files that overlapping engines have not mixed up:     *)
(* where they have, it does not hold (README.md, known limits).            *)
SummaryNotAhead ==
    page.alone =>
        /\ "alerts" \notin page.warnings =>
              /\ page.counts = page.total
              /\ "db" \notin mixed => PublicIds(page.of) \union page.notable \subseteq db
        /\ "attackers" \notin page.warnings /\ "details" \notin mixed =>
              page.of \subseteq details.of

(* The cached details are never older than the stamp they are kept under,  *)
(* so a newer file is always noticed, however threads and publishes mix.   *)
StaleIsNoticed == cache.version >= cache.stamp

(* A place on a page, <<page, row>>, and the alert it shows.               *)
Places(rows) ==
    {p \in (1 .. Pages(Len(rows))) \X (1 .. PerPage) : p[2] \in DOMAIN PageOf(rows, p[1])}

Shown(rows, p) == PageOf(rows, p[1])[p[2]]

Precedes(p, q) == p[1] < q[1] \/ (p[1] = q[1] /\ p[2] < q[2])

(* Whatever a filter chooses from the database, and in either order: the   *)
(* pages show all of it and nothing else, and are in order throughout, so  *)
(* that no alert is on two pages.                                          *)
PagesCoverListing ==
    \A order \in SortOrders, ids \in SUBSET db :
        LET rows == Listing(order, ids)
        IN  /\ Ids({Shown(rows, p) : p \in Places(rows)}) = ids
            /\ \A p, q \in Places(rows) :
                  Precedes(p, q) => Before(order, Shown(rows, p), Shown(rows, q))

(* All three files show all the alerts.                                    *)
Current ==
    /\ db = PublicIds(alerts)
    /\ details.of = alerts
    /\ page.of = alerts /\ page.warnings = {}
    /\ mixed = {}

(* When no more alerts come, all three files show all of them, whatever    *)
(* failed, whatever a killed engine left behind and whatever engines that  *)
(* overlapped have made of the files (overlaps come to an end).            *)
EventuallyCurrent == <>[]Current

=============================================================================
