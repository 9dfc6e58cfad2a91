---------------------------- MODULE EngineCycle ----------------------------
(***************************************************************************)
(* run_engine as a whole: the collectors read their sources one after the  *)
(* other, each with a load and a save of all of state.json, what they have *)
(* read becomes the batch of the cycle, and merge_and_save stores it at    *)
(* the end.  Several engines share the sources, state.json and the store.  *)
(*                                                                         *)
(* A source is a stream of events 1, 2, 3, ..., a position the number of   *)
(* events read, and every event is worth an alert.  LogReader shows how a  *)
(* position survives rotations, AlertStore that merge_and_save is atomic;  *)
(* here both are single steps.                                             *)
(***************************************************************************)
EXTENDS Naturals

CONSTANTS
    Engines,        \* processes that run run_engine
    Stages,         \* number of collectors; collector i is the i-th to run
    AlwaysSaving,   \* the collectors that save although they have read nothing
    MaxEvents,      \* bound: source -> events it delivers
    MaxKills,       \* bound: engines that are killed
    MaxDamages      \* bound: times alerts.json becomes unreadable

ASSUME StageAssumption == Stages \in Nat \ {0} /\ AlwaysSaving \subseteq 1 .. Stages

Sources == 1 .. Stages

ASSUME BoundAssumption ==
    MaxEvents \in [Sources -> Nat] /\ MaxKills \in Nat /\ MaxDamages \in Nat

Alerts  == Sources \X Nat

VARIABLES
    arrived,    \* source -> events it has delivered so far
    positions,  \* state.json: source -> events already read
    store,      \* the alerts in alerts.json
    readable,   \* FALSE while alerts.json is unreadable
    pc,         \* engine -> "idle", "load", "save", "merge"
    stage,      \* engine -> the collector that runs
    loaded,     \* engine -> state.json as this collector has loaded it
    upto,       \* engine -> the last event this collector has read
    batch,      \* engine -> the alerts of this cycle
    kills,      \* engines killed so far
    damages,    \* times alerts.json became unreadable
    mishaps     \* history: what a cycle cannot make good

worldVars == <<arrived, kills, damages>>
vars == <<arrived, positions, store, readable, pc, stage, loaded, upto, batch,
          kills, damages, mishaps>>

Mishaps == {"killed",   \* an engine died with unmerged alerts
            "refused",  \* a merge was refused, after the check had passed
            "overlap"}  \* two engines in a cycle at the same time

Positions == [Sources -> Nat]

TypeOK ==
    /\ arrived \in Positions
    /\ positions \in Positions
    /\ store \in SUBSET Alerts
    /\ readable \in BOOLEAN
    /\ pc \in [Engines -> {"idle", "load", "save", "merge"}]
    /\ stage \in [Engines -> Sources]
    /\ loaded \in [Engines -> Positions]
    /\ upto \in [Engines -> Nat]
    /\ batch \in [Engines -> SUBSET Alerts]
    /\ kills \in Nat
    /\ damages \in Nat
    /\ mishaps \in SUBSET Mishaps

NoPositions == [s \in Sources |-> 0]

Init ==
    /\ arrived = NoPositions
    /\ positions = NoPositions
    /\ store = {}
    /\ readable = TRUE
    /\ pc = [e \in Engines |-> "idle"]
    /\ stage = [e \in Engines |-> 1]
    /\ loaded = [e \in Engines |-> NoPositions]
    /\ upto = [e \in Engines |-> 0]
    /\ batch = [e \in Engines |-> {}]
    /\ kills = 0
    /\ damages = 0
    /\ mishaps = {}

-----------------------------------------------------------------------------
(* One cycle of engine e.                                                  *)

EndCycle(e) ==
    /\ pc' = [pc EXCEPT ![e] = "idle"]
    /\ stage' = [stage EXCEPT ![e] = 1]
    /\ loaded' = [loaded EXCEPT ![e] = NoPositions]
    /\ upto' = [upto EXCEPT ![e] = 0]
    /\ batch' = [batch EXCEPT ![e] = {}]

(* check_alert_store: a cycle begins only while the store is readable.     *)
CheckStore(e) ==
    /\ pc[e] = "idle"
    /\ readable
    /\ pc' = [pc EXCEPT ![e] = "load"]
    /\ mishaps' = mishaps \union
          (IF \A f \in Engines : pc[f] = "idle" THEN {} ELSE {"overlap"})
    /\ UNCHANGED <<worldVars, positions, store, readable, stage, loaded, upto,
                   batch>>

(* Bug: state.json is loaded once, at the start of the cycle.              *)
LoadOnce(e) ==
    /\ pc[e] = "load"
    /\ loaded' = IF stage[e] = 1 THEN [loaded EXCEPT ![e] = positions] ELSE loaded
    /\ upto' = [upto EXCEPT ![e] = arrived[stage[e]]]
    /\ pc' = [pc EXCEPT ![e] = "save"]
    /\ UNCHANGED <<worldVars, positions, store, readable, stage, batch, mishaps>>

(* The collector loads state.json and reads what is new.                   *)
Load(e) ==
    /\ pc[e] = "load"
    /\ loaded' = [loaded EXCEPT ![e] = positions]
    /\ upto' = [upto EXCEPT ![e] = arrived[stage[e]]]
    /\ pc' = [pc EXCEPT ![e] = "save"]
    /\ UNCHANGED <<worldVars, positions, store, readable, stage, batch, mishaps>>

NewAlerts(e) ==
    {stage[e]} \X (loaded[e][stage[e]] + 1 .. upto[e])

(* Bug: the last collector is not run.                                     *)
NextStageSkipsLast(e) ==
    IF stage[e] < Stages - 1
    THEN /\ pc' = [pc EXCEPT ![e] = "load"]
         /\ stage' = [stage EXCEPT ![e] = @ + 1]
    ELSE /\ pc' = [pc EXCEPT ![e] = "merge"]
         /\ UNCHANGED stage

(* The next collector, or the merge when all have run.                     *)
NextStage(e) ==
    IF stage[e] < Stages
    THEN /\ pc' = [pc EXCEPT ![e] = "load"]
         /\ stage' = [stage EXCEPT ![e] = @ + 1]
    ELSE /\ pc' = [pc EXCEPT ![e] = "merge"]
         /\ UNCHANGED stage

(* Bug: the size of the log is taken again when the position is saved.     *)
SaveSizeNow(e) ==
    /\ pc[e] = "save"
    /\ positions' = IF stage[e] \in AlwaysSaving \/ upto[e] # loaded[e][stage[e]]
                    THEN [loaded[e] EXCEPT ![stage[e]] = arrived[stage[e]]]
                    ELSE positions
    /\ batch' = [batch EXCEPT ![e] = @ \union NewAlerts(e)]
    /\ NextStage(e)
    /\ UNCHANGED <<worldVars, store, readable, loaded, upto, mishaps>>

(* save_state writes back all of the dictionary that was loaded.  The      *)
(* rules turn the events into alerts of the batch.                         *)
Save(e) ==
    /\ pc[e] = "save"
    /\ positions' = IF stage[e] \in AlwaysSaving \/ upto[e] # loaded[e][stage[e]]
                    THEN [loaded[e] EXCEPT ![stage[e]] = upto[e]]
                    ELSE positions
    /\ batch' = [batch EXCEPT ![e] = @ \union NewAlerts(e)]
    /\ NextStage(e)
    /\ UNCHANGED <<worldVars, store, readable, loaded, upto, mishaps>>

Merge(e) ==
    /\ pc[e] = "merge"
    /\ readable
    /\ store' = store \union batch[e]
    /\ EndCycle(e)
    /\ UNCHANGED <<worldVars, positions, readable, mishaps>>

(* merge_and_save raises AlertStoreError: the batch is gone.               *)
MergeRefused(e) ==
    /\ pc[e] = "merge"
    /\ ~readable
    /\ EndCycle(e)
    /\ mishaps' = mishaps \union (IF batch[e] = {} THEN {} ELSE {"refused"})
    /\ UNCHANGED <<worldVars, positions, store, readable>>

(* The process is killed, or a collector or a rule raises.                 *)
Kill(e) ==
    /\ pc[e] # "idle"
    /\ kills < MaxKills
    /\ kills' = kills + 1
    /\ EndCycle(e)
    /\ mishaps' = mishaps \union (IF batch[e] = {} THEN {} ELSE {"killed"})
    /\ UNCHANGED <<arrived, damages, positions, store, readable>>

-----------------------------------------------------------------------------
(* The world.                                                              *)

Arrive(s) ==
    /\ arrived[s] < MaxEvents[s]
    /\ arrived' = [arrived EXCEPT ![s] = @ + 1]
    /\ UNCHANGED <<positions, store, readable, pc, stage, loaded, upto, batch,
                   kills, damages, mishaps>>

Damage ==
    /\ readable
    /\ damages < MaxDamages
    /\ readable' = FALSE
    /\ damages' = damages + 1
    /\ UNCHANGED <<arrived, positions, store, pc, stage, loaded, upto, batch,
                   kills, mishaps>>

(* The operator restores a backup that holds every stored alert.           *)
Repair ==
    /\ ~readable
    /\ readable' = TRUE
    /\ UNCHANGED <<arrived, positions, store, pc, stage, loaded, upto, batch,
                   kills, damages, mishaps>>

-----------------------------------------------------------------------------
EngineStep(e) ==
    \/ CheckStore(e)
    \/ Load(e)
    \/ Save(e)
    \/ Merge(e)
    \/ MergeRefused(e)

Next ==
    \/ \E e \in Engines : EngineStep(e) \/ Kill(e)
    \/ \E s \in Sources : Arrive(s)
    \/ Damage
    \/ Repair

Spec == Init /\ [][Next]_vars

(* run_loop.sh starts a cycle again and again, and an unreadable store is  *)
(* repaired.                                                               *)
FairSpec ==
    Spec /\ WF_vars(Repair) /\ \A e \in Engines : WF_vars(EngineStep(e))

-----------------------------------------------------------------------------
(* Properties.                                                             *)

InFlight == UNION {batch[e] : e \in Engines}
Kept     == store \union InFlight

Covered(p) == \A s \in Sources : \A n \in 1 .. p[s] : <<s, n>> \in Kept

Lossless == mishaps \intersect {"killed", "refused"} = {}

(* No position in state.json runs ahead of the store: an event that will   *)
(* not be read again is stored or in the batch of a running cycle.  So     *)
(* nothing is lost while the store is unreadable and no cycle has passed   *)
(* its check, nor by overlapping engines that overwrite each other's       *)
(* positions; only a cycle that dies with unmerged alerts loses some.      *)
Accounted == Lossless => Covered(positions)

(* What an engine has loaded never runs ahead either, however old it is.   *)
LoadedAccounted ==
    Lossless => \A e \in Engines : pc[e] = "save" => Covered(loaded[e])

(* No event is handed to the rules twice, as long as engines do not        *)
(* overlap: not by the save of another collector, nor by a killed cycle.   *)
ReadOnce ==
    "overlap" \notin mishaps =>
        \A e \in Engines : pc[e] = "save" => NewAlerts(e) \intersect Kept = {}

(* Every event ends in the store, or a cycle died with unmerged alerts.    *)
EventuallyStored ==
    \A s \in Sources : \A n \in 1 .. MaxEvents[s] :
        arrived[s] >= n ~> <<s, n>> \in store \/ ~Lossless

=============================================================================
