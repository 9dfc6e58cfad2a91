----------------------------- MODULE AlertStore -----------------------------
(***************************************************************************)
(* The alert store of detection/engine.py: reports/alerts.json, its lock   *)
(* file, its temporary file, and the engine processes that merge their     *)
(* alerts into it.  Several engines may run at once (a rolling update of   *)
(* the deployment, a report started by hand); each runs one cycle after    *)
(* another and may be killed at any point of it.                           *)
(*                                                                         *)
(* An alert is a value with a deduplication key, KeyOf[a].  The collectors *)
(* and rules that produce a cycle's alerts are outside this module: Begin  *)
(* hands any batch to merge_and_save.                                      *)
(***************************************************************************)
EXTENDS Naturals, SequencesExt

CONSTANTS
    Engines,    \* the engine processes
    NoEngine,   \* the holder of a lock that nobody holds
    Alerts,     \* the alerts the rules can raise
    KeyOf,      \* alert -> deduplication key
    MaxBatch,   \* bound: alerts raised in one cycle
    MaxFaults   \* bound: interventions of the outside world

ASSUME EngineAssumption == NoEngine \notin Engines
ASSUME BoundAssumption  == MaxBatch \in Nat /\ MaxFaults \in Nat
ASSUME KeyAssumption    == KeyOf \in [Alerts -> {KeyOf[a] : a \in Alerts}]

VARIABLES
    file,       \* alerts.json: "absent", "list", "torn" (not JSON), "notlist"
    stored,     \* the valid entries of alerts.json; while the file is torn or
                \* notlist, the entries of its latest complete backup
    malformed,  \* entries of the list that Alert.model_validate rejects
    tmp,        \* alerts.json.tmp
    copy,       \* alerts.json.corrupt: 0, or which damaged content it holds
    faults,     \* interventions so far; names the content of a damaged file
    lock,       \* the engine that holds alerts.json.lock
    pc,         \* where each engine is in its cycle
    batch,      \* the alerts its cycle has raised
    next,       \* index in batch of the next alert to deduplicate
    merged      \* existing alerts + the new ones found so far

storeVars  == <<file, stored, malformed, tmp, copy, faults>>
engineVars == <<pc, batch, next, merged>>
vars       == <<file, stored, malformed, tmp, copy, faults, lock,
                pc, batch, next, merged>>

Unreadable  == {"torn", "notlist"}
FileStates  == {"absent", "list"} \union Unreadable
TmpContents == [status : {"absent", "partial", "complete"},
                entries : Seq(Alerts)]
NoTmp       == [status |-> "absent", entries |-> <<>>]

(* The program points of an engine; those of the second line lie inside    *)
(* the "with alert_store_lock()" block.                                    *)
Inside == {"load", "dedup", "write", "fsync", "replace", "unlock"}
Points == {"idle", "checked", "waiting", "refused"} \union Inside

KeysIn(s) == {KeyOf[s[i]] : i \in DOMAIN s}

DistinctKeys(s) ==
    \A i, j \in DOMAIN s : KeyOf[s[i]] = KeyOf[s[j]] => i = j

TypeOK ==
    /\ file \in FileStates
    /\ stored \in Seq(Alerts)
    /\ malformed \in Nat
    /\ tmp \in TmpContents
    /\ copy \in Nat
    /\ faults \in Nat
    /\ lock \in Engines \union {NoEngine}
    /\ pc \in [Engines -> Points]
    /\ batch \in [Engines -> Seq(Alerts)]
    /\ next \in [Engines -> Nat \ {0}]
    /\ merged \in [Engines -> Seq(Alerts)]

Init ==
    /\ file = "absent"
    /\ stored = <<>>
    /\ malformed = 0
    /\ tmp = NoTmp
    /\ copy = 0
    /\ faults = 0
    /\ lock = NoEngine
    /\ pc = [e \in Engines |-> "idle"]
    /\ batch = [e \in Engines |-> <<>>]
    /\ next = [e \in Engines |-> 1]
    /\ merged = [e \in Engines |-> <<>>]

-----------------------------------------------------------------------------
(* Steps shared by several operations.                                     *)

(* The engine leaves the cycle at point p: its locals are gone.            *)
Leave(e, p) ==
    /\ pc' = [pc EXCEPT ![e] = p]
    /\ batch' = [batch EXCEPT ![e] = <<>>]
    /\ next' = [next EXCEPT ![e] = 1]
    /\ merged' = [merged EXCEPT ![e] = <<>>]

(* The lock is dropped by the finally block, and by the kernel when the    *)
(* process dies.                                                           *)
ReleaseIfHeld(e) == lock' = IF lock = e THEN NoEngine ELSE lock

(* _read_alert_entries raises: text that is not JSON is copied aside,      *)
(* unless an older copy is already there; JSON that is not a list is not   *)
(* copied.                                                                 *)
RaiseStoreError ==
    /\ file \in Unreadable
    /\ copy' = IF file = "torn" /\ copy = 0 THEN faults ELSE copy
    /\ UNCHANGED <<file, stored, malformed, tmp, faults>>

-----------------------------------------------------------------------------
(* One cycle of engine e.                                                  *)

(* check_alert_store, before any log is read.                              *)
CheckStore(e) ==
    /\ pc[e] \in {"idle", "refused"}
    /\ \/ /\ file \notin Unreadable
          /\ pc' = [pc EXCEPT ![e] = "checked"]
          /\ UNCHANGED storeVars
       \/ /\ RaiseStoreError
          /\ pc' = [pc EXCEPT ![e] = "refused"]
    /\ UNCHANGED <<lock, batch, next, merged>>

(* The collectors and rules produced the batch b: merge_and_save is called.*)
Begin(e) ==
    /\ pc[e] = "checked"
    /\ \E b \in SeqOf(Alerts, MaxBatch) :
          batch' = [batch EXCEPT ![e] = b]
    /\ next' = [next EXCEPT ![e] = 1]
    /\ pc' = [pc EXCEPT ![e] = "waiting"]
    /\ UNCHANGED <<storeVars, lock, merged>>

(* Bug: the lock is taken on alerts.json itself, which every save replaces,*)
(* so two engines hold locks on two different inodes.                      *)
AcquireReplacedFile(e) ==
    /\ pc[e] = "waiting"
    /\ lock' = e
    /\ pc' = [pc EXCEPT ![e] = "load"]
    /\ UNCHANGED <<storeVars, batch, next, merged>>

Acquire(e) ==
    /\ pc[e] = "waiting"
    /\ lock = NoEngine
    /\ lock' = e
    /\ pc' = [pc EXCEPT ![e] = "load"]
    /\ UNCHANGED <<storeVars, batch, next, merged>>

(* Bug: an unreadable file counts as an empty one.                         *)
LoadOrEmpty(e) ==
    /\ pc[e] = "load"
    /\ merged' = [merged EXCEPT ![e] =
          IF file \in Unreadable THEN <<>> ELSE stored]
    /\ pc' = [pc EXCEPT ![e] = "dedup"]
    /\ UNCHANGED <<storeVars, lock, batch, next>>

Load(e) ==
    /\ pc[e] = "load"
    /\ file \notin Unreadable
    /\ merged' = [merged EXCEPT ![e] = stored]
    /\ pc' = [pc EXCEPT ![e] = "dedup"]
    /\ UNCHANGED <<storeVars, lock, batch, next>>

(* Bug: the lock is released only on the success path.                     *)
LoadFailsLocked(e) ==
    /\ pc[e] = "load"
    /\ RaiseStoreError
    /\ Leave(e, "refused")
    /\ UNCHANGED lock

(* The file was damaged after the check: the cycle's alerts are dropped.   *)
LoadFails(e) ==
    /\ pc[e] = "load"
    /\ RaiseStoreError
    /\ ReleaseIfHeld(e)
    /\ Leave(e, "refused")

(* One turn of the loop of deduplicate_alerts.                             *)
Deduplicate(e) ==
    /\ pc[e] = "dedup"
    /\ next[e] <= Len(batch[e])
    /\ LET alert == batch[e][next[e]]
       IN  merged' = [merged EXCEPT ![e] =
              IF KeyOf[alert] \in KeysIn(@) THEN @ ELSE Append(@, alert)]
    /\ next' = [next EXCEPT ![e] = @ + 1]
    /\ UNCHANGED <<storeVars, lock, pc, batch>>

(* Bug: the loop stops one alert early.                                    *)
DeduplicatedEarly(e) ==
    /\ pc[e] = "dedup"
    /\ next[e] >= Len(batch[e])
    /\ pc' = [pc EXCEPT ![e] = "write"]
    /\ UNCHANGED <<storeVars, lock, batch, next, merged>>

Deduplicated(e) ==
    /\ pc[e] = "dedup"
    /\ next[e] > Len(batch[e])
    /\ pc' = [pc EXCEPT ![e] = "write"]
    /\ UNCHANGED <<storeVars, lock, batch, next, merged>>

(* Bug: the rename does not wait for the temporary file to be flushed.     *)
WriteTmpUnflushed(e) ==
    /\ pc[e] = "write"
    /\ tmp' = [status |-> "partial", entries |-> merged[e]]
    /\ pc' = [pc EXCEPT ![e] = "replace"]
    /\ UNCHANGED <<file, stored, malformed, copy, faults,
                   lock, batch, next, merged>>

(* open(temp_path, "w") and part of json.dump.                             *)
WriteTmp(e) ==
    /\ pc[e] = "write"
    /\ tmp' = [status |-> "partial", entries |-> merged[e]]
    /\ pc' = [pc EXCEPT ![e] = "fsync"]
    /\ UNCHANGED <<file, stored, malformed, copy, faults,
                   lock, batch, next, merged>>

FsyncTmp(e) ==
    /\ pc[e] = "fsync"
    /\ tmp' = [status |-> "complete", entries |-> merged[e]]
    /\ pc' = [pc EXCEPT ![e] = "replace"]
    /\ UNCHANGED <<file, stored, malformed, copy, faults,
                   lock, batch, next, merged>>

(* os.replace: alerts.json becomes whatever the temporary file holds.      *)
Replace(e) ==
    /\ pc[e] = "replace"
    /\ tmp.status # "absent"
    /\ file' = IF tmp.status = "complete" THEN "list" ELSE "torn"
    /\ stored' = tmp.entries
    /\ malformed' = 0
    /\ tmp' = NoTmp
    /\ pc' = [pc EXCEPT ![e] = "unlock"]
    /\ UNCHANGED <<copy, faults, lock, batch, next, merged>>

(* save_alerts raises (disk full, I/O error): the temporary file is        *)
(* removed, the lock released and the cycle's alerts are dropped.          *)
SaveFails(e) ==
    /\ pc[e] \in {"write", "fsync", "replace"}
    /\ tmp' = NoTmp
    /\ ReleaseIfHeld(e)
    /\ Leave(e, "idle")
    /\ UNCHANGED <<file, stored, malformed, copy, faults>>

Unlock(e) ==
    /\ pc[e] = "unlock"
    /\ ReleaseIfHeld(e)
    /\ Leave(e, "idle")
    /\ UNCHANGED storeVars

(* The process is killed; the temporary file stays as it is.               *)
Crash(e) ==
    /\ pc[e] # "idle"
    /\ ReleaseIfHeld(e)
    /\ Leave(e, "idle")
    /\ UNCHANGED storeVars

-----------------------------------------------------------------------------
(* The outside world.                                                      *)

(* A disk error or a hand edit leaves text that is not a JSON list.        *)
Damage ==
    /\ faults < MaxFaults
    /\ file = "list"
    /\ file' \in Unreadable
    /\ faults' = faults + 1
    /\ UNCHANGED <<stored, malformed, tmp, copy, lock, engineVars>>

(* The operator puts a backup back, the latest one or an older one.        *)
RestoreBackup ==
    /\ faults < MaxFaults
    /\ file \in Unreadable
    /\ file' = "list"
    /\ \E n \in 0 .. Len(stored) : stored' = SubSeq(stored, 1, n)
    /\ malformed' = 0
    /\ faults' = faults + 1
    /\ UNCHANGED <<tmp, copy, lock, engineVars>>

(* An entry no longer fits the Alert schema (a new version of the code, a  *)
(* hand edit).  It happens between merges.                                 *)
RejectEntry ==
    /\ faults < MaxFaults
    /\ file = "list"
    /\ lock = NoEngine
    /\ \E i \in DOMAIN stored : stored' = RemoveAt(stored, i)
    /\ malformed' = malformed + 1
    /\ faults' = faults + 1
    /\ UNCHANGED <<file, tmp, copy, lock, engineVars>>

-----------------------------------------------------------------------------
EngineStep(e) ==
    \/ CheckStore(e)
    \/ Begin(e)
    \/ Acquire(e)
    \/ Load(e)
    \/ LoadFails(e)
    \/ Deduplicate(e)
    \/ Deduplicated(e)
    \/ WriteTmp(e)
    \/ FsyncTmp(e)
    \/ Replace(e)
    \/ SaveFails(e)
    \/ Unlock(e)

Next ==
    \/ \E e \in Engines : EngineStep(e) \/ Crash(e)
    \/ Damage
    \/ RestoreBackup
    \/ RejectEntry

Spec == Init /\ [][Next]_vars

(* A started merge is run by the scheduler until it ends, and flock wakes  *)
(* its waiters in turn, so an engine that is offered the lock again and    *)
(* again gets it.                                                          *)
Fairness ==
    \A e \in Engines :
        /\ SF_vars(Acquire(e))
        /\ WF_vars(EngineStep(e) /\ pc[e] \in Inside)

FairSpec == Spec /\ Fairness

-----------------------------------------------------------------------------
(* Properties.                                                             *)

(* At most one engine is inside the read-modify-write of merge_and_save,   *)
(* and it is the one that holds the lock file, whatever was killed.        *)
MutualExclusion ==
    \A e \in Engines : pc[e] \in Inside <=> lock = e

(* deduplicate_alerts with a file written by several engines: alerts.json  *)
(* never lists two valid alerts with one deduplication key.                *)
UniqueKeys == DistinctKeys(stored)

(* What the engine inside the merge knows, and the two properties above    *)
(* rest on: the list it has built extends the file as it is now (no other  *)
(* engine has saved since it loaded), has distinct keys, covers the batch  *)
(* up to the loop index, and is what the finished temporary file holds.    *)
Building == {"dedup", "write", "fsync", "replace"}

MergeInvariant ==
    \A e \in Engines :
        /\ pc[e] \in {"waiting", "load"} => next[e] = 1
        /\ pc[e] \in Building =>
              /\ IsPrefix(stored, merged[e])
              /\ DistinctKeys(merged[e])
              /\ \A i \in 1 .. next[e] - 1 :
                    i \in DOMAIN batch[e]
                       => KeyOf[batch[e][i]] \in KeysIn(merged[e])
        /\ pc[e] \in Building \ {"dedup"} => next[e] > Len(batch[e])
        /\ pc[e] = "replace" =>
              tmp = [status |-> "complete", entries |-> merged[e]]

(* os.replace never publishes an unfinished temporary file, also not one   *)
(* that another engine, or an engine killed in mid-write, left behind.     *)
OnlyCompleteFiles ==
    [][file' \in Unreadable => file \in Unreadable \/ faults' # faults]_vars

(* Every alert a cycle raised is in the file by its key when its           *)
(* merge_and_save returns, and so is everything an overlapping cycle saved *)
(* before it: the case of two overlapping writers, for any number of them, *)
(* with crashes between.                                                   *)
BatchPersisted ==
    [][\A e \in Engines : pc[e] = "replace" /\ pc'[e] = "unlock" =>
          /\ KeysIn(batch[e]) \subseteq KeysIn(stored')
          /\ KeysIn(stored) \subseteq KeysIn(stored')]_vars

(* AlertLog, the promise of the store: its history is only ever appended   *)
(* to, without duplicates, and engines never damage it.                    *)
Log == INSTANCE AlertLog WITH
          log <- stored,
          readable <- file \notin Unreadable,
          interventions <- faults

ImplementsAlertLog == Log!LogSpec

(* Every merge that asks for the lock ends, saved, refused or killed: no   *)
(* failure path keeps the lock.                                            *)
MergeEnds ==
    \A e \in Engines : pc[e] = "waiting" ~> pc[e] \in {"idle", "refused"}

=============================================================================
