# Verification of the purple-team detection pipeline

TLA+ specifications of the parts of the pipeline whose correctness depends on
order, interleaving, crashes, failing steps and time. TLC checks them on small
instances; TLAPS proves the central safety properties of each for every value
of the constants. Definitions carry the names of the functions they translate;
`PROJECT.json` maps each of them to its lines.

    tlc -workers 2 -config AlertStore.cfg MCAlertStore.tla
    tlapm AlertStoreProofs.tla

## 1. The system

`run_loop.sh` calls `reports/report_generator.py` again and again, five minutes
after the last call has ended, and that calls `run_engine`
(`detection/engine.py`). A cycle checks that `alerts.json` is readable, lets
five collectors read what is new in their sources, hands the events to seventeen
rules, runs the heartbeat (rule_018), merges the alerts into `alerts.json` and
publishes three files for the dashboard, whose API reads them at any time. The
Kubernetes deployment runs one engine; a report started by hand, or the two pods
of a rolling update, make two that share one volume. Only the merge is locked:
two engines may also publish at the same time, under the same temporary names.
By hand, too, an analyst runs `correlation.storage`, which reads `alerts.json`
and keeps incidents in two files of its own, and closes incidents by editing the
first.

| component | state | operations | interacts with |
|---|---|---|---|
| alert store (`detection/engine.py` 60-203) | `alerts.json`, `.tmp`, `.corrupt`, `.lock` | check, load, deduplicate, save, merge | engines (flock), correlation and dashboard (read), operator |
| log reader (`logs/log_collector.py` 31-150) | offset and inode per log in `state.json` | `read_new_lines` with its rotation cases | logging daemon, logrotate, engine |
| CloudTrail and Falco collectors (`log_collector.py` 210-405) | last file name of each stream in `state.json`, a local copy of the bucket | sync, read what sorts after the last one | S3, engine |
| engine cycle (`run_engine`) | the cycle's alerts; `state.json` as a whole | the stages in order | all of the above |
| collector heartbeat (`rules/rule_018…`) | watching_since, last_input, outage per source in `state.json` | `detect`, `run_heartbeat` | collectors' counts, alert store |
| event schemas (`schemas/`) | none | text to events, `group_audit_lines` | engine |
| sliding-window rules (001, 007, 012, 013), single-event rules (the others) | none | events of one batch to alerts | engine |
| Cowrie sessions (`schemas/cowrie.py`, `storage/cowrie_store.py`) | SQLite tables of sessions, logins, commands | parse, upsert | engine, dashboard |
| alert correlation (`correlation/` without `storage.py`) | none | identities, windows, anchors, chains, incident keys | alert store, `/etc/passwd`, incident store |
| incident store (`correlation/storage.py`) | `correlated_alerts.json`, `archive.json` and their flocks | merge, split, save | analyst, alert correlation |
| public dashboard data (`dashboard_summary.py`, `public_alerts.py`, `public_attackers.py`, `geo_lookup.py`, `dashboard/api.py`) | the three files, `geo_cache.json`, the API's copy of one file | publish, look up, serve | engine, browser |

What is hard about them, and what makes each correct:

* **Interleaving.** Two engines merge into one file and rewrite one
  `state.json`; the world renames, truncates and deletes logs between two
  system calls of the reader; threads of the API fill one cache while the file
  behind it is replaced; alerts reach the store in the order of the collectors
  and not of their events. The store must stay one growing list without
  duplicate keys; positions must never run ahead of what is stored; a reader
  must return every line once, whole and in order; a cached file must not pass
  for a newer one; correlation must find what came before whatever the order.
* **Crashes and failing steps.** A process dies between any two of: read, save
  position, remember outage, merge, publish; a sync, a lookup, a database or
  one of three published files fails while the rest goes on; a sync brings some
  files and misses others, and nobody looks. A half-written file must not be
  published, a summary must not count what cannot be listed, one bad object must
  not hide its neighbours, and what is lost must be exactly what is known to be.
* **Batches.** The rules see one batch at a time and nothing before it; sessions
  and audit events are split over batches; a lost position makes the engine
  read everything again. Alerts must be backed by the log, no burst inside a
  batch may vanish, and deduplication must not hide one actor behind another.
* **Outside interventions.** `alerts.json` is damaged, restored from a backup,
  or holds entries a new schema rejects; accounts come and go.
* **Time.** Outages are found and closed by cycles that come late; closed
  incidents age into the archive; objects arrive late or around midnight.
* **Progress.** A merge that waits gets the lock; a line that was written is
  read; an event that arrived while the store was refused is stored afterwards;
  a closed incident is archived; the dashboard shows all alerts in the end; an
  attacker the lookup service knows is located.

## 2. The modules

    AlertLog <--refines-- AlertStore <-- MCAlertStore, AlertStoreProofs
    LogReader     <-- MCLogReader, LogReaderProofs
    Objects       <-- MCObjects, ObjectsProofs
    Heartbeat     <-- MCHeartbeat, HeartbeatProofs
    EngineCycle, StateFile <-- MCEngineCycle, EngineCycleProofs
    Bursts <-- SlidingWindow
    Bursts, Lists <-- AuthRules, AuditRules;  Lists <-- Honeypot
    AuthRules, AuditRules, CloudRules, Honeypot <-- Detection
    Detection, SlidingWindow <-- MCDetection, DetectionProofs
    Correlation   <-- MCCorrelation
    IncidentStore <-- MCIncidentStore
    Correlation, IncidentStore <-- IncidentProofs
    Dashboard, GeoCache <-- MCDashboard;  Dashboard <-- DashboardProofs

`EngineCycle` and `Detection` are two compositions of the same cycle.
`EngineCycle` takes from `LogReader` and `Objects` that a collector returns
what is new behind a position, and from `AlertStore` that `merge_and_save` is
atomic or refused, and adds the order of the steps, several collectors and
several engines around one `state.json`; an event there is a number.
`Detection` runs one engine that is never interrupted, but with the real path of
the data: a log entry, the batch it falls into, the event it is parsed to, the
rules, the deduplication, the stored alert. Definitions headed `Bug:` are
deliberate errors that the properties must find; no specification uses them.

**AlertStore.** `file`, `stored`, `malformed`, `tmp`, `copy`, `lock` are the
files of the store; `pc`, `batch`, `next`, `merged` are the locals of each
engine. `CheckStore` is `check_alert_store`; `Begin` to `Unlock` are
`merge_and_save` at the grain of its system calls, with `Deduplicate` as one
turn of the loop. `LoadFails` and `SaveFails` are the two ways it raises;
`Crash` kills the process and frees its flock. `Damage`, `RestoreBackup`,
`RejectEntry` are the outside world. While the file is unreadable `stored`
means its last complete content: what a backup holds. **AlertLog** is the
promise: a list of alerts that merges only extend, without two alerts of one
key; everything else is a counted intervention. `AlertStore` implements it with
`log <- stored`, `readable <- file` not torn.

**LogReader.** The text is numbered in half lines, so a line can be seen half
written. `Start` is everything up to the first `open` (the choice by inode, the
truncation test), `Drain` the read of the rotated file with its partial tail,
`Read` and `ReadFails` the read of the path, `Save` the write of the position
and the return. `Write`, `Rename`, `Create`, `Reopen`, `Discard`, `Truncate`
are daemon and logrotate, possible at each point. Inodes are reused as a file
system does. `mishaps` names, when it occurs, what the reader cannot make good;
the properties say that nothing else goes wrong.

**Objects.** A file name is a number in the order the code compares names, and
a day has `PerDay` of them. `SyncCloudTrail` copies today's prefix and unpacks
it, `CollectFalco` copies everything under `falco/`. The outcome of `aws s3 sync`
and of `gunzip` is ignored, so `SyncCloudTrailPartly` and `CollectFalcoPartly`
bring any part of it, none included, and the loop goes on with what is there:
`packed` are the files that are still `.gz` only, `local` those a loop sees, and
`missed` (history) those that were left out while a newer one was there. What an
object holds is `good`, `bad` (a `JSONDecodeError`: a CloudTrail file is lost as
a whole, a Falco file from its bad line on, and the loop goes on) or `poison`: an
error the loops do not catch. `CollectCloudTrailRaises` and `CollectFalcoRaises`
end the cycle there, before the position is saved, and the next cycle meets the
same file. `Restart` empties `/tmp` but not `state.json`. Falco objects of one
host arrive in the order of their names, CloudTrail files may be late
(`overtaken`) or belong to a day that no sync asks for any more (`outOfReach`).

**Heartbeat.** `Collect`, `RunHeartbeat`, `Merge` are the three moments of a
cycle that matter to the rule; `Tick` runs the clock, `Crash` ends a cycle
between any two of them. `state[s]` is the rule's entry in `state.json`, `None`
before the first run. `heard` and `lost` are history.

**EngineCycle.** A source is a stream of numbered events, a position a count,
each event worth one alert. `Load` and `Save` are the two accesses of a
collector to `state.json`: the whole dictionary is loaded, the whole dictionary
is written back, by some collectors always, by the S3 collectors only after news
(`AlwaysSaving`). `CheckStore`, `Merge`, `MergeRefused` are the store.
`EngineStep` under fairness is `run_loop.sh`. The heartbeat is a collector here.

**StateFile.** The inside of `Load` and `Save`: `load_state` and `save_state`,
one system call at a time. `names` says which file `state.json` and
`state.json.tmp` are, `data` what each file holds, `file` and `moved` what a
process has open and has read or written so far. `OpenTemp` truncates the
temporary file it finds, which `Stop`, a kill or a full disk, may have left;
`Replace` renames whatever has the name by then; a process that reads keeps the
file it opened. What the dictionary holds is abstracted to the number of the save
and of its pieces.

**Bursts, SlidingWindow.** The loop of rules 001, 012 and 013 over the sorted
times of one actor; `Slide` is one turn of it. An event is its place in that
list, so the window and each alert are sets of places. `SlidingWindow` runs the
loop turn by turn, over any list; `AuthRules` and `AuditRules` use the whole loop
(`BurstsOf`) inside the rules.

**Lists.** What the rules do with Python's lists: keep some entries, sort them by
time (stably), take the keys of a dictionary in the order they were first set.
Each says which place of the list an entry gets, so that one can reason about it.

**AuthRules, AuditRules, CloudRules, Honeypot.** For each source, how a log
entry becomes an event (the pattern a line of auth.log matches and the address
check that drops it; the grouping of audit records by serial; the actor and MFA
cascades of CloudTrail; partial Cowrie sessions) and the rules over a batch, as
operators from a batch to a sequence of alerts: the condition, the severity, the
deduplication key and the times. An alert of Falco has the user rule_017 reports
as well as the host its key names. `Honeypot` also has the database: an upsert
that keeps the earlier start, the later end and one row of each login and
command.

**Detection.** `Write` lets the source write an entry (records of an audit event
may be separated, CloudTrail comes in any order), `Cycle` takes what is behind
the position as one batch and adds what the rules raise, `Reread` is a
`state.json` that was lost. Cutting the log into batches anywhere, with one
re-read from the start, is what the properties quantify over.

**Correlation.** `CorrelationRun` derives all incidents from all stored alerts:
`Identity` (an alert's own user or the one `/etc/passwd` has for its auid;
`Loaded` lists the alerts under the name they have at that moment), `Candidates`
and `Nearest`, the tiers and groups of the rules table, severity and key of the
incident; `InOrder` is the stable sort of its links. Between two runs alerts are
stored in any order of event time and accounts are added and deleted.
`IncidentStore` takes over from there.

**IncidentStore.** An incident is a parent alert and the length of its chain, as
its key is built from both. `ReadActive` and `ReadArchive` take the shared lock
and parse; merge and split (`Planned`) follow at once; `Open`, `Lock`, `Dump`,
`Close` are `_write_json_locked`, in this order because `open(path, 'w')`
truncates before the flock and the buffer reaches the file when it is closed,
after the unlock. Time is kept as ages that stop at the archive delay. The
analyst's edits are valid: that a load skips an entry the schema rejects, which
the next save then drops (`storage.py` 86-101), is left out.

**Dashboard.** `step`, `draft` are the locals of each engine. `Merge` is the merge
of a cycle, with the list that its publish will use; a publish is `BuildSummary`
(with the lookups), `Rebuild` and `Replace` (the database), `WriteDetails`,
`WriteSummary`. `RebuildFails`, `DetailsFail` and the failing halves of the others
leave a warning; `PublishEnds` is a kill or an exception that reaches the engine.
A file is the set of alerts it was built from (for the database, their ids), with
a stamp for the one the API caches. Nothing keeps two engines apart: each writes
the list of its own merge, so an older one can replace a newer one, and where
their steps meet in one temporary file, either can find it moved, removed or half
written by the other (`SummaryFails` is the rename that finds nothing). What is in
a file then is left open (`Mix`): it is in `mixed` until an engine writes it as a
whole. `shared` holds from a merge beside another engine's publish until no engine
is on its way any more; a summary written without it is `alone`. A request of
the API is `Stat`, `Load`, `Update`, `Answer`, or `LoadFails`, which answers 503;
any number of threads mix with each other and with the publishes. `Listing` and
`PageOf` are the query of the alert list, for both orders and for any rows a
filter may choose (SQL's `ORDER BY` is the one sorted arrangement of them, by
`CHOOSE`).

**GeoCache.** `geo_lookup.enrich`: one step is one publish, with the order of the
wanted addresses and the service's answers as choices. The mishaps are the
service's rate limit, an unreadable ranking, a kill before `save_cache` and a cache
that is no JSON (`LookForgetful`). Publishes come one after the other here; two that
overlap can lose an answer, which is what `LookUnsaved` is.

## 3. The runs

| run | instance | states | shows |
|---|---|---|---|
| `store` | 2 engines, 2 alerts, batches of up to 2, 2 interventions | 384 k | mutual exclusion, complete files only, persisted batches, refinement of `AlertLog`, and that every merge ends |
| `reader` | 3 lines in halves, 3 inodes, 2 rotations and a kill, or one of each event | 539 k | exact, whole, unrepeated lines; every line returned |
| `reader_rotations` | 2 lines, 2 rotations, nothing else | violation | the file between two rotations is skipped |
| `objects` | CloudTrail and 2 hosts, 2 days of 2 names, 3 objects, 1 of them unreadable, any partial sync, 1 restart | 442 k | readable files read once, none passed without one of the known reasons, all read in the end |
| `heartbeat` | 2 sources with limits 1 and 2, clock to 5, 1 crash | 880 k | real outages, paired alerts, no unnoticed silence |
| `engine_cycle` | 2 engines, 2 collectors, 3 events, 1 kill, 1 damage; 3 saves of 1 or 2 pieces, 3 files, 1 call cut short | 504 k | positions accounted for, events read once and stored in the end; `state.json` and every load one whole version |
| `detection` | 5 sources with logs of 2 to 4 entries; windows over every sorted list of 6 times | 389 k | exact and unmissed bursts, alerts backed by the log, nobody masked (but Falco's users), complete sessions |
| `login_masked` | the same | violation | a failed console login takes the key of the successful one |
| `correlation` | 11 alerts of which 4 are stored, 3 accounts, 1 deletion | 316 k | chains hold, nothing is understated, nothing gets weaker |
| `incident_runs` | 2 parents, one with a growing chain, delay 2, 1 kill | 281 k | closing is final, nothing lost or doubled, archived in the end |
| `incident_kill` | 1 parent, 1 kill | violation | an incident in neither file comes back open |
| `dashboard` | 2 engines, 4 alerts in batches, 2 threads, 2 faults or overlaps; 3 addresses, 1 lookup a publish | 360 k | no summary published alone is ahead of the files, stale copies noticed, pages exact, everything shown and located in the end |

The last but one column counts distinct states; the state spaces are finite and
explored completely. Deadlock is checked except where a behaviour may really
end: a bounded world that has uploaded, written or published everything.

### Bounds, and why they are enough

Two engines, runs or threads are the smallest conflict, and their number appears
in no condition of the code; the proofs of section 5 remove the bound for the
store, the cycle and the API. Two interventions are damage and repair, or two
different damages. Two rotations with three inodes give a rotated file that is
current, drained, skipped and reused; `Rations` gives a behaviour either the two
rotations or one of each event. The clock to 5 with limits 1 and 2 lets one
source open, close and reopen an outage while the other is silent. A chain of
two is the smallest growth; a delay of 2 separates "stamped once" from "stamped
by every run". Two collectors, one of each kind, are the smallest dictionary of
which one part can be set back by the other. With three saves the second can be cut
short and the third truncate what it left, while a load still reads the first; two
pieces are the least that can be half written. Three objects on two days, one
stream with late files and two without, give a bad file between two good ones, a
late file, one on each side of midnight, and two hosts whose positions differ. One
unreadable object (`MaxUnreadable`), of either kind, is between, before or behind
two readable ones; three files are enough for one to be left out between two that
are not.

Thresholds and windows are scaled in `detection`: a burst is 2 attempts within 1
second, a day has 2 seconds, so that logs of four entries contain a burst, two
bursts of one day, bursts on two days, and a burst that spans midnight. The loop
itself is checked with threshold 3 and window 2 over all sorted lists of six
times and proved for all values. `MaxEntries` is 4 where sessions or bursts need
it and 2 or 3 for the single-event rules. One lost position (`MaxRereads`) makes
every entry read twice in other batches. `MCDetection`, `MCDashboard` and
`MCEngineCycle` put components without common state into one run: `part` says
which of them a behaviour follows, so their states add up and do not multiply.
In `MCDashboard` the parts are `lists` (alerts in batches, one fault or overlap),
`faults` (one list, two faults or overlaps), `api` (the threads, while two engines
may mix up the file they read) and `geo`.

Eleven alerts, of which a behaviour stores any four in any order, contain each
tier and both groups of an anchor, two candidates that tie, one that overlaps the
anchor, one beyond the window, one of another user, and one that no longer
validates. The four alerts of the dashboard are two that differ in priority, one
of the honeypot, which the list leaves out, and one of the owner. `MaxRepeats`
bounds only publishes of what was published without any warning: they change
nothing but a time stamp. In `GeoCache` time is counted in publishes. An address
is asked again after `RETRY_AFTER`, and `EventuallyLocated` is a claim only where
`LookupsSuffice`: fewer addresses that the service may never know than lookups in
that time. The instance is at this boundary: 2 such addresses, 3 publishes of one
lookup; one address more and the one that is known may never have its turn.
Production is not known to be inside it: `run_loop.sh` sleeps 300 s after each
cycle, whose 20 lookups take up to 4 s each, so an hour has 10 or 11 publishes and
200 to 220 lookups, while a publish can want 225 addresses.

### The three violations

* `SurvivesRotation`: only the file with the saved inode is drained. An engine
  that was down for two rotations skips the file in between although it is on
  disk.
* `ClosedSurvivesKill`: the active file is written without the incident before
  the archive is written with it; a run killed in between lets the next one
  derive the incident again, open.
* `SuccessfulLoginsStored`: rule_002 treats a failed console login without MFA as
  an API call without MFA, because the record has no `errorCode`, and stores
  MEDIUM under the key of user and event. The successful login that follows has
  the same key and its CRITICAL alert is suppressed, for ever.

### Known limits, stated as conditions of the properties

* A merge erases entries that `Alert.model_validate` rejects, and
  `_read_alert_entries` keeps no copy of JSON that is no list, nor a second copy.
* The heartbeat's memory is saved before its alert is merged: a cycle that dies
  in between leaves an outage that counts as reported (`lost.alerts`).
* A cycle that dies between a collector's save and the merge loses its events:
  `killed` and `refused` are the only mishaps `Accounted` needs. Two engines at
  once read events again (`overlap`); deduplication absorbs that, none is lost.
* Two processes in `save_state` at once write the same temporary file: a rename
  can then publish a mixture or find no file (`overlapped` in `StateFile`; drop it
  from `StateFileAtomic` and TLC shows four steps). `run_loop.sh` runs one engine;
  one started by hand beside it can do this. `EngineCycle` has such overlapping
  engines, but not inside a save.
* `correlation/storage.py` truncates before it locks, so two runs at once can
  read an empty file.
* CloudTrail files that arrive late, or after their day, are never read
  (`overtaken`, `outOfReach`), although a comment equates alphabetical and
  chronological order.
* A sync that misses one file and brings a newer one, or a `gunzip` that fails for
  it, loses the file for good once the position has passed it (`missed`).
* A file that raises anything but `JSONDecodeError` (bytes that are not UTF-8, a
  CloudTrail file without an object at its top) ends every cycle until it is
  removed: CloudTrail's also before Falco is read, Falco's after CloudTrail's
  position was saved, so that what CloudTrail handed on in that cycle is lost.
  `EventuallyRead` is about cycles without such a file ahead (`Poisoned`).
* rule_017's key is host, rule and day, without the user it reports: an alert
  about one user hides those about all others of that host and day. `NoActorMasked`
  excepts it, and it alone.
* Two publishes that overlap can leave the summary of the newer list beside files
  of the older one, or files of which one engine has moved or removed what the
  other was writing, until the next publish that runs alone (`page.alone`, `mixed`;
  drop either from `SummaryNotAhead` and TLC refutes it). `EventuallyCurrent` says
  that this ends.
* Where lookups do not suffice, addresses that are never found can come first
  again and again, as their failures are forgotten, and keep a known one from its
  turn for ever (`LookupsSuffice`).
* For rules 012 and 013 `AlertsGrounded` asks for as many system calls of the user
  as the alert counts, within its times, not for which commands they were.
* Owner activity is in no count of the summary: `build_summary` counts what
  `public_alerts.is_public` lets through, as the database does, and
  `SummaryNotAhead` says that the two counts agree. The name of a test,
  `test_owner_activity_is_left_out_of_notable_but_counted_in_totals`, says otherwise,
  but the test asserts only the first half.
* A burst, or an audit event, that straddles two batches is seen in parts;
  one bad Cowrie line takes the sessions of its batch with it (`kept`).
* rule_001's CRITICAL grade needs more attempts a second than an alert can
  hold; the repository's README.md says so itself, and `AlertsGrounded` confirms
  it.
* An entry of the location cache from an older version is asked for once more,
  and a failed answer overwrites the location it had. Only addresses the service
  knows are promised one.
* The database's fingerprint covers the ids of the alerts only. Ids never
  repeat and stored alerts never change, so that is enough (`IdAssumption`).
* A uid given to a second account makes the alerts of the first one its history;
  `ChainsHold` and `NeverWeakened` speak of runs without a deletion.

## 4. Fairness

* `AlertStore`: weak fairness of the steps of a merge that has begun (the
  process is scheduled), strong fairness of `Acquire`, because `flock` queues
  its waiters. None of crashes, faults or new cycles.
* `LogReader`: weak fairness of the reader (`run_loop.sh` repeats for ever) and
  of `Create` (a logrotate that renamed the log creates the new one). None of
  the writer.
* `Objects`: weak fairness of the engine's steps, by the same loop, and strong
  fairness of the two syncs that bring everything: a network that fails again
  and again also works again and again. None of uploads, midnights and restarts.
* `EngineCycle`: weak fairness of each engine's steps and of `Repair`: a store
  that stays unreadable for ever stops every cycle, by design.
* `IncidentStore`: weak fairness of runs and of time. Without repeated runs
  nothing is ever archived; the code has no timer.
* `Dashboard`: weak fairness of `EngineStep`, the steps of any engine's publish
  and the merge of a cycle without news, by the same loop; faults and overlaps
  are bounded, since without a bound no publish need ever succeed or run alone.
  `GeoCache`: weak fairness of an undisturbed `Look`, with bounded mishaps, for
  the same reason.

`Heartbeat`, `Detection` and `Correlation` have safety and action properties only.

## 5. Proofs

The theorems hold for every value of the constants that satisfies the
assumptions of the module: bounds are natural numbers, markers such as `NoEngine`
are no members of the sets they mark, and what is named below.

**AlertStoreProofs**, for any engines, alerts, keys, batches and interventions:
`TypeCorrect`, `StoreIsLocked`, `StoreHasUniqueKeys`, `MergesExtendTheStore`,
`MergePersistsItsBatch`, `EnginesNeverDamageTheStore`, and the refinement
`StoreImplementsAlertLog`. The inductive invariant is type correctness, mutual
exclusion, unique keys and `MergeInvariant`. Unique keys alone is not inductive:
`os.replace` publishes the temporary file, so one must know that it holds the
list the engine has built, that this list extends the file as it is *now* (which
needs mutual exclusion) and that its keys are distinct up to the loop index.

**EngineCycleProofs**, for any engines, collectors and events:
`CycleTypeCorrect`; `PositionsAccounted` and `LoadedPositionsAccounted`,
inductive together, because a save publishes an engine's old copy of every
position but its own; `EventsReadOnce`, from `OnceInv`: without overlap at most
one engine is in a cycle, what it has loaded is `state.json` as it is now, and no
kept alert is beyond its position. And, for any processes, sizes and saves cut
short, `StateFileIsAtomic`: without two saves at once a process writes only the
file named `state.json.tmp`, nobody reads that file, and what it holds is a
beginning of the version being written (`FilesHold`); so a rename publishes a
whole version and leaves a load that has begun with the old one. It is what
allows `EngineCycle` to take a load and a save as single steps.

**HeartbeatProofs**, for any sources, limits, clock and crashes:
`HeartbeatTypeCorrect`, `ReportedOutagesAreReal`, `OutagesArePaired`,
`SilenceIsNoticed`. Between the rule and the merge the rule's memory is ahead of
the store, so `AlertsPaired` is not inductive. The invariant is about the *tale*
of a source, what the store will say once the cycle's alerts are merged: it is
paired and in the order of time, and the memory agrees with it at every moment
(`Telling`). That the next alert has a new key, and so is not lost in the merge,
follows from that order. `Heeded` and `NothingMissed` bound the memory's last
input by the real one from both sides.

**DetectionProofs**, on the loop, for any window, threshold of at least one and
sorted batches of natural numbers: `WindowTypeCorrect`, `AlertsAreExact` and
`WindowMissesNoBurst`. The invariant says that the window holds fewer events than
the threshold, close together and in no alert, and that every event scanned is in
the window, in an alert, or too old for the last one scanned. So a burst none of
whose events is in an alert lies in the window as a whole when its last event
enters, and fills it: emptying the window after an alert is harmless.

**DetectionProofs**, on the whole way from the log to the store, for any entries,
thresholds, windows, numbers of entries and of re-reads: `StoredAlertsAreGrounded`,
`NobodyIsMasked`, `BurstsAreReported`. An alert is raised in one cycle and must
be backed by the log in all later ones, so the proof goes in three steps. First
each rule, over an arbitrary batch: every list it builds stands for lines of the
batch, each at most once (`AttemptsFacts`, `FailuresFacts`, `AuditEventsFacts`),
so a burst of n events is n lines with times between the alert's first and last;
the loop is the one above (`BurstsFacts`), which also says that a burst in the
batch is reported. Then the batch is a part of the log, and what the log backs it
goes on backing as it grows (`StaysGrounded`). Last, `AddNew` keeps an alert of
every key that was there or is raised (`AddNewFacts`), and the key names the
actor. The invariant, `DetectionInvariant`, says of the log that it is typed and,
for auth.log, in order of time (without which rule_007's last failure before a
login need not be the latest), of the position that it is within the log, and of
every stored alert that it is backed and that its key names its actor
(`NamedByKey`). For rule_006 the actor is not part of the key; it names the actor
because an account has one root user (`RootAssumption`). That rule_001 never says
CRITICAL follows from its threshold being no larger than the rate that grade asks
for in one second (`AuthAssumption`; 5 and 10 in the code). Dictionaries that are
keyed in order of first appearance, stable sorts and joined lists are each given
by what is at which place (`KeptLists`, `SortedLists`, `DistinctFacts`,
`Flattened`); what recursion there is (the loop, the joining of lists) is handled
by a least counterexample (`Stepwise`).

**DetectionProofs**, on Cowrie, for any lines, batches and re-reads:
`SessionsAreComplete`. Two databases built in different orders cannot be compared
step by step, so the proof says what a database *tells* (`Tells`): of each
session the time of its last connect and last closed line, and one row of each
command and of the first login of each user and time, among the lines at given
positions of the list of all lines read. A set of lines has one such database
(`TellsOne`), and storing one parsed session adds its lines to what is told
(`StoreSessionTells`), so many readings and one end up the same
(`OneReading`). The upsert keeps the start of the *first* batch of a session,
though, and a batch without the connect line has none: that is only right for a
list that is `Steady`, in which no line of a session comes before its connect line.
The invariant on the log gives it (`KeptRead`): what is behind the position was
read, or there is a bad line in the log; and if a session was first seen without
its connect line, that line is behind a position at or after it, so that whatever
batch reaches back to it begins at 0 and has the bad line too. A line's time is
never `NoTime` (`EntriesAssumption`; `_parse_ts` returns a time or raises). For
the alerts: `AddNew` gives nobody a second one (`AddNewOneEach`).

**ObjectsProofs**, for any hosts, days, names and numbers of objects and
restarts: `ObjectsTypeCorrect`, `FilesReadOnce`, `PositionSkipsNothing`,
whatever syncs bring or miss. A file read is behind its position, which gives
the first. The second needs what a sync leaves behind (`OnDiskInOrder`): when a
readable file is in the local directory, every earlier one of its stream is
there too, or was read, overtaken, left out then (`missed`) or is out of reach;
and that no CloudTrail file of an earlier day is still on its way
(`DaysAreSettled`). A cycle that an exception ends moves no position of its own,
and so keeps both. `Max` of a bounded set of names comes from the
well-foundedness of the naturals.

**DashboardProofs**, for any alerts with distinct ids, any number of engines and
threads and any faults: `DashboardTypeCorrect`, `PublishInOrder`, `NewFileNoticed`,
`ListingShowsAll`. `DraftsDescribe` says that a draft counts what its engine merged,
`OneAtATime` that without `shared` at most one engine is on its way and its list is
the newest, and `FilesFollow` that past each file's step that file holds what the
draft of such an engine counts unless a warning or `mixed` says otherwise. What is
published stays true because whoever is on its way has merged after the engine
whose summary is `alone`, and lists only grow (`PageIsOlder`, `OnlyPublicAlerts`): a
file written later, by however many engines, holds no less, or is mixed up.
That the two counts agree rests on `IdsCountAlerts`, a
bijection between alerts and ids. For the API it is enough that no request is
stamped later than the file, nor loaded before it was stamped. For the pages it
is first shown that any finite set of alerts can be sorted (`RowsCanBeSorted`, by a
least counterexample), in a total order because ids differ; then that the pages
cut the rows up without a gap or an overlap (`PageFacts`, `RowHasPlace`,
`LaterPlaceLaterRow`), for any page length. On `GeoCache`, for any addresses,
answers and limits: `ServiceNotHammered`. What is inductive is that as long as no
mishap has lost an answer, an address whose location is not known has a failure as
old as the last question about it (`LookupsRemembered`); it needs `RETRY_AFTER` to
be longer than one publish (an hour, against five minutes of `run_loop.sh`).

**LogReaderProofs**, for any inodes, lines, rotations, discards, truncations and
crashes: `LogReaderTypeCorrect`, `LinesNeverRepeated`, `LinesAreAPrefix`,
`LinesAreWhole`. None of the three is inductive, because each compares what was
delivered with what was written, and between the two stand a position and files
that move. The invariant therefore says what a position stands for.
`LogInOrder`: each file holds one block of consecutive units of the log, and the
file the daemon has open ends with the newest. `ReadOnce`: what was delivered,
or is about to be, is older than everything at or behind the position, in
whichever file (`Ahead`, `Behind`); an offset beyond the end of a file stands
for all of it. `ReadExactly`: the number of units delivered is where the
position is (`At`), and there are four such places: the beginning of the log, in
the open file, behind the end of one that was truncated, in a rotated one that
is finished and still findable. The reader's own offset is at one of them too,
and beyond the end of a file only if the saved one is. Each invariant holds
unless a mishap that the property excludes has occurred.

**IncidentProofs**, on the store, for any runs, parents, lengths of chains,
archive delay and kills, with at least one run: `IncidentTypeCorrect`,
`ClosedIncidentsStayClosed`, `IncidentsAreConserved`, `CreationTimeIsKept`. The
properties speak of the files on disk, which are wrong in the middle of every
save. What is inductive is that at most one run is under way and that either the
files or its plan are `Sound`: every known incident in exactly one part, with the
age it has had since it was created, closed if the analyst closed it, and in the
archive only when it is due. A file under way is empty from `open` to `close`
(`Orderly`).

**IncidentProofs**, on correlation, for any rules, alerts, accounts and window:
`ChainsTellOneStory`, `NoIncidentUnderstated`, `IncidentsNeverWeakened`. Two
assumptions carry them, both about data and both in `Correlation`: an alert does
not end before it begins (`AlertAssumption`; rules 001, 012 and 013 sort, rule
007 relies on a log in order of time), and the rules table lists the tiers of a
group from the strongest down (`RulesAssumption`), without which "first match
wins" would understate. That a finite set of links can be sorted at all is proved
from a least counterexample (`SortingExists`); the sorted order has each link
once, and the anchor, which begins after all others have ended, last. For the
action property it is enough that what a run loads only grows (`LoadedGrows`: a
new account never takes a name from another) and that of a larger list no
incident is built weaker or shorter (`IncidentsGrow`); so what was derived stays
below what *would* be derived now (`NothingWeakens`). `ChainsHold` looks alerts
up by their reference, hence `UniqueAlerts`; and a chain of one user stays one
because a name that is known is known until an account is deleted.

Only model-checked: all liveness properties (`EventuallyDelivered`,
`EventuallyRead`, `EventuallyStored`, `EventuallyArchived`, `EventuallyCurrent`,
`EventuallyLocated`, `MergeEnds`), since fairness is out of the prover's reach.

## 6. Not modelled, and the plan

* The formats: regular expressions, time stamps, how texts are worded, masked and
  shortened, fields no rule reads. The parsers' unit tests cover them.
* `block_ip` and the read-only queries of `storage/cowrie_store.py`, which the
  cycle does not call; the API's rate limit, and the summary's counts by country,
  host and hour; the printed and written reports.
* The dashboard pages (HTML and scripts in a browser), the rule catalogue, the
  Kubernetes and Docker files and the exported Sigma and Falco rules: they hold no
  state of the pipeline.

Next would be `Detection` with two sources at once through one store.
