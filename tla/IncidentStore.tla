--------------------------- MODULE IncidentStore ---------------------------
(***************************************************************************)
(* correlation/storage.py: the incidents of correlated_alerts.json and     *)
(* archive.json, the correlation runs that re-derive all incidents and     *)
(* merge them into the two files, and the analyst who closes incidents by  *)
(* editing the first one.                                                  *)
(*                                                                         *)
(* An incident is identified by its parent and the length of its chain     *)
(* (its key changes when the chain grows).  Time is kept as ages, which    *)
(* stop at ArchiveDelay: no code asks for more.  Severity and text of an   *)
(* incident are left out.                                                  *)
(***************************************************************************)
EXTENDS Naturals, SequencesExt

CONSTANTS
    Runs,           \* correlation processes
    NoRun,          \* holder of a lock that nobody holds
    Parents,        \* alerts that are the parent of an incident
    None,           \* closed_at is not set
    ArchiveDelay,   \* ARCHIVE_DELAY_HOURS
    MaxChain,       \* bound: parent -> length of its chain
    MaxKills        \* bound: runs that are killed

ASSUME RunAssumption   == Runs # {} /\ NoRun \notin Runs
ASSUME BoundAssumption ==
    {ArchiveDelay, MaxKills} \subseteq Nat /\ MaxChain \in [Parents -> Nat]
ASSUME NoneAssumption  == None \notin Nat

Files == {"active", "archive"}
Keys  == UNION {{p} \X (1 .. MaxChain[p]) : p \in Parents}
Ages  == 0 .. ArchiveDelay
Incident == [closed : BOOLEAN, age : Ages, closedAge : Ages \union {None}]
Data  == UNION {[K -> Incident] : K \in SUBSET Keys}

NoData == [k \in {} |-> None]

VARIABLES
    chain,      \* parent -> length of the chain alerts.json holds for it, or 0
    file,       \* the two files: [status, data]
    lock,       \* file -> the run that holds its flock
    pc,         \* run -> what it does next,
    at,         \*   with which of the files
    found,      \* run -> keys of the incidents it has derived from alerts.json
    seen,       \* run -> what it has read from correlated_alerts.json,
    plan,       \* run -> what it will write into each file, once both are read
    kills,      \* runs killed so far
    known,      \* history: key -> age, for the incidents that were ever saved
    shut,       \* history: keys that were closed on disk
    mishaps     \* history: what the store does not guard against

runVars == <<pc, at, found, seen, plan>>
history == <<known, shut, mishaps>>
vars    == <<chain, file, lock, pc, at, found, seen, plan, kills,
             known, shut, mishaps>>

Mishaps == {"overlap",  \* two runs at the same time
            "killed",   \* a run killed between its first open and last close
            "edited"}   \* an incident closed while a run was under way

TypeOK ==
    /\ chain \in [Parents -> Nat]
    /\ \A p \in Parents : chain[p] <= MaxChain[p]
    /\ file \in [Files -> [status : {"absent", "list", "empty", "garbled"},
                           data : Data]]
    /\ lock \in [Files -> Runs \union {NoRun}]
    /\ pc \in [Runs -> {"read", "open", "lock", "dump", "close"}]
    /\ at \in [Runs -> Files]
    /\ found \in [Runs -> SUBSET Keys]
    /\ seen \in [Runs -> Data]
    /\ plan \in [Runs -> [Files -> Data]]
    /\ kills \in 0 .. MaxKills
    /\ known \in UNION {[K -> Ages] : K \in SUBSET Keys}
    /\ shut \in SUBSET Keys
    /\ mishaps \in SUBSET Mishaps

NoPlan == [f \in Files |-> NoData]

Init ==
    /\ chain = [p \in Parents |-> 0]
    /\ file = [f \in Files |-> [status |-> "absent", data |-> NoData]]
    /\ lock = [f \in Files |-> NoRun]
    /\ pc = [r \in Runs |-> "read"]
    /\ at = [r \in Runs |-> "active"]
    /\ found = [r \in Runs |-> {}]
    /\ seen = [r \in Runs |-> NoData]
    /\ plan = [r \in Runs |-> NoPlan]
    /\ kills = 0
    /\ known = NoData
    /\ shut = {}
    /\ mishaps = {}

Idle(r) == pc[r] = "read" /\ at[r] = "active"
Writing(r) == pc[r] # "read" /\ ~(pc[r] = "open" /\ at[r] = "active")

-----------------------------------------------------------------------------
(* The pure part of a run.                                                 *)

(* run_correlation and build_all_incidents over the whole of alerts.json.  *)
Derived == {<<p, chain[p]>> : p \in {q \in Parents : chain[q] > 0}}

(* Bug: a new incident has no closed_at.                                   *)
FreshWithoutStamp == [closed |-> FALSE, age |-> 0]

Fresh == [closed |-> FALSE, age |-> 0, closedAge |-> None]

(* Bug: closed incidents are not time-stamped.                             *)
MergedUnstamped(new, existing) ==
    [k \in new \union DOMAIN existing |->
        IF k \in DOMAIN existing THEN existing[k] ELSE Fresh]

(* Bug: an open incident that is found again gets a new created_at.        *)
MergedRecreated(new, existing) ==
    LET kept(k) == k \in DOMAIN existing /\ (existing[k].closed \/ k \notin new)
    IN  [k \in new \union DOMAIN existing |->
            IF ~kept(k) THEN Fresh
            ELSE IF existing[k].closed /\ existing[k].closedAge = None
            THEN [existing[k] EXCEPT !.closedAge = 0]
            ELSE existing[k]]

(* Bug: incidents that this run has not found again are dropped.           *)
MergedWithoutOthers(new, existing) ==
    [k \in new |-> IF k \notin DOMAIN existing THEN Fresh
                   ELSE IF existing[k].closed /\ existing[k].closedAge = None
                   THEN [existing[k] EXCEPT !.closedAge = 0]
                   ELSE existing[k]]

(* merge_incidents: a known incident stays as it is (of an open one only   *)
(* severity and text are refreshed), a new one is added, and a closed one  *)
(* without closed_at is stamped.                                           *)
Merged(new, existing) ==
    [k \in new \union DOMAIN existing |->
        IF k \notin DOMAIN existing THEN Fresh
        ELSE IF existing[k].closed /\ existing[k].closedAge = None
        THEN [existing[k] EXCEPT !.closedAge = 0]
        ELSE existing[k]]

(* split_active_and_archive: what goes into the archive.                   *)
Ripe(i) == i.closed /\ i.closedAge # None /\ i.closedAge >= ArchiveDelay

RipeKeys(data) == {k \in DOMAIN data : Ripe(data[k])}

(* f, and g where f says nothing.                                          *)
Extended(f, g) ==
    [k \in DOMAIN f \union DOMAIN g |-> IF k \in DOMAIN f THEN f[k] ELSE g[k]]

(* Bug: incidents that are already archived are not filtered out.          *)
PlannedUnfiltered(keys, active, archive) ==
    LET merged == Merged(keys, active)
        ripe   == RipeKeys(merged)
    IN  [f \in Files |-> IF f = "active"
                         THEN Restrict(merged, DOMAIN merged \ ripe)
                         ELSE Extended(archive, Restrict(merged, ripe))]

(* What save_incidents writes when it has read active and archive.         *)
Planned(keys, active, archive) ==
    LET merged == Merged(keys \ DOMAIN archive, active)
        ripe   == RipeKeys(merged)
    IN  [f \in Files |-> IF f = "active"
                         THEN Restrict(merged, DOMAIN merged \ ripe)
                         ELSE Extended(archive, Restrict(merged, ripe))]

-----------------------------------------------------------------------------
(* Steps of run r.                                                         *)

Readable(f) == file[f].status \in {"absent", "list"}

Leave(r) ==
    /\ pc' = [pc EXCEPT ![r] = "read"]
    /\ at' = [at EXCEPT ![r] = "active"]
    /\ found' = [found EXCEPT ![r] = {}]
    /\ seen' = [seen EXCEPT ![r] = NoData]
    /\ plan' = [plan EXCEPT ![r] = NoPlan]

(* alerts.json has been correlated, correlated_alerts.json is read.        *)
ReadActive(r) ==
    /\ Idle(r)
    /\ Readable("active")
    /\ lock["active"] = NoRun
    /\ found' = [found EXCEPT ![r] = Derived]
    /\ seen' = [seen EXCEPT ![r] = file["active"].data]
    /\ at' = [at EXCEPT ![r] = "archive"]
    /\ mishaps' = mishaps \union
          (IF \A q \in Runs : Idle(q) THEN {} ELSE {"overlap"})
    /\ UNCHANGED <<chain, file, lock, pc, plan, kills, known, shut>>

(* archive.json is read; merge and split follow at once.                   *)
ReadArchive(r) ==
    /\ pc[r] = "read" /\ at[r] = "archive"
    /\ Readable("archive")
    /\ lock["archive"] = NoRun
    /\ plan' = [plan EXCEPT ![r] =
          Planned(found[r], seen[r], file["archive"].data)]
    /\ found' = [found EXCEPT ![r] = {}]
    /\ seen' = [seen EXCEPT ![r] = NoData]
    /\ pc' = [pc EXCEPT ![r] = "open"]
    /\ at' = [at EXCEPT ![r] = "active"]
    /\ UNCHANGED <<chain, file, lock, kills, history>>

(* The text is no JSON, or a writer holds the lock for all five attempts.  *)
ReadFails(r) ==
    /\ pc[r] = "read"
    /\ ~Readable(at[r]) \/ lock[at[r]] # NoRun
    /\ Leave(r)
    /\ UNCHANGED <<chain, file, lock, kills, history>>

(* open(path, "w") truncates the file before it is locked.                 *)
Open(r) ==
    /\ pc[r] = "open"
    /\ file' = [file EXCEPT ![at[r]] = [status |-> "empty", data |-> NoData]]
    /\ pc' = [pc EXCEPT ![r] = "lock"]
    /\ UNCHANGED <<chain, lock, at, found, seen, plan, kills, history>>

Lock(r) ==
    /\ pc[r] = "lock"
    /\ lock[at[r]] = NoRun
    /\ lock' = [lock EXCEPT ![at[r]] = r]
    /\ pc' = [pc EXCEPT ![r] = "dump"]
    /\ UNCHANGED <<chain, file, at, found, seen, plan, kills, history>>

(* json.dump into the buffer of the file object, and LOCK_UN.              *)
Dump(r) ==
    /\ pc[r] = "dump"
    /\ lock' = [lock EXCEPT ![at[r]] = NoRun]
    /\ pc' = [pc EXCEPT ![r] = "close"]
    /\ UNCHANGED <<chain, file, at, found, seen, plan, kills, history>>

(* The end of the with block writes the buffer: into the empty file, or    *)
(* over what another run has written since, whose end may remain.          *)
Close(r) ==
    /\ pc[r] = "close"
    /\ \E s \in IF file[at[r]].status = "empty" THEN {"list"}
                                                 ELSE {"list", "garbled"} :
          file' = [file EXCEPT ![at[r]] =
              [status |-> s, data |-> IF s = "list" THEN plan[r][at[r]]
                                                    ELSE NoData]]
    /\ known' = Extended(known,
          [k \in DOMAIN plan[r][at[r]] |-> plan[r][at[r]][k].age])
    /\ IF at[r] = "active"
       THEN /\ pc' = [pc EXCEPT ![r] = "open"]
            /\ at' = [at EXCEPT ![r] = "archive"]
            /\ UNCHANGED <<found, seen, plan>>
       ELSE Leave(r)
    /\ UNCHANGED <<chain, lock, kills, shut, mishaps>>

Kill(r) ==
    /\ kills < MaxKills
    /\ ~Idle(r)
    /\ kills' = kills + 1
    /\ lock' = [f \in Files |-> IF lock[f] = r THEN NoRun ELSE lock[f]]
    /\ mishaps' = mishaps \union (IF Writing(r) THEN {"killed"} ELSE {})
    /\ Leave(r)
    /\ UNCHANGED <<chain, file, known, shut>>

-----------------------------------------------------------------------------
(* The world.                                                              *)

(* New alerts lengthen the chain of an incident, or begin one.             *)
Extend(p) ==
    /\ chain[p] < MaxChain[p]
    /\ chain' = [chain EXCEPT ![p] = @ + 1]
    /\ UNCHANGED <<file, lock, runVars, kills, history>>

(* The analyst sets closed in the saved file.                              *)
CloseIncident(k) ==
    /\ file["active"].status = "list"
    /\ k \in DOMAIN file["active"].data
    /\ ~file["active"].data[k].closed
    /\ file' = [file EXCEPT !["active"].data[k].closed = TRUE]
    /\ shut' = shut \union {k}
    /\ mishaps' = mishaps \union
          (IF \A r \in Runs : Idle(r) THEN {} ELSE {"edited"})
    /\ UNCHANGED <<chain, lock, runVars, kills, known>>

Older(a) == IF a \in {None, ArchiveDelay} THEN a ELSE a + 1

Aged(data) ==
    [k \in DOMAIN data |->
        [closed    |-> data[k].closed,
         age       |-> Older(data[k].age),
         closedAge |-> Older(data[k].closedAge)]]

(* Time passes: every time stamp, on disk or in memory, gets older.        *)
Tick ==
    /\ file' = [f \in Files |-> [file[f] EXCEPT !.data = Aged(@)]]
    /\ seen' = [r \in Runs |-> Aged(seen[r])]
    /\ plan' = [r \in Runs |-> [f \in Files |-> Aged(plan[r][f])]]
    /\ known' = [k \in DOMAIN known |-> Older(known[k])]
    /\ UNCHANGED <<chain, lock, pc, at, found, kills, shut, mishaps>>

-----------------------------------------------------------------------------
RunStep(r) ==
    \/ ReadActive(r)
    \/ ReadArchive(r)
    \/ ReadFails(r)
    \/ Open(r)
    \/ Lock(r)
    \/ Dump(r)
    \/ Close(r)

Next ==
    \/ \E r \in Runs : RunStep(r) \/ Kill(r)
    \/ \E p \in Parents : Extend(p)
    \/ \E k \in Keys : CloseIncident(k)
    \/ Tick

Spec == Init /\ [][Next]_vars

(* Correlation is run again and again, and time passes.                    *)
FairSpec == Spec /\ WF_vars(Tick) /\ \A r \in Runs : WF_vars(RunStep(r))

-----------------------------------------------------------------------------
(* Properties.                                                             *)

Active  == file["active"].data
Archive == file["archive"].data
AllIdle == \A r \in Runs : Idle(r)

(* Closed state survives re-runs: an incident that was closed on disk is   *)
(* never open there again, although every run derives it again from the    *)
(* same alerts, before and after it was archived.                          *)
ClosedStaysClosed ==
    mishaps = {} => \A k \in shut \intersect DOMAIN Active : Active[k].closed

(* Between runs every incident that was ever saved is in one of the two    *)
(* files and in no more than one, and the archive holds only incidents     *)
(* closed for the delay: moving one neither loses nor doubles it.          *)
Conserved ==
    AllIdle /\ mishaps = {} =>
        /\ DOMAIN known = DOMAIN Active \union DOMAIN Archive
        /\ DOMAIN Active \intersect DOMAIN Archive = {}
        /\ \A k \in DOMAIN Archive : k \in shut /\ Ripe(Archive[k])

(* created_at is the time the incident was first saved, however often it   *)
(* has been found again, by whichever run.                                 *)
CreatedOnce ==
    mishaps = {} => \A k \in DOMAIN Active : Active[k].age = known[k]

(* A closed incident is moved to the archive in the end.                   *)
EventuallyArchived ==
    \A k \in Keys :
        k \in shut ~> k \in DOMAIN Archive \/ mishaps # {}

(* "closed state must survive re-runs", also when a run is killed: an      *)
(* incident that was closed does not come back as an open one.             *)
ClosedSurvivesKill ==
    mishaps \subseteq {"killed"} =>
        \A k \in shut \intersect DOMAIN Active : Active[k].closed

=============================================================================
