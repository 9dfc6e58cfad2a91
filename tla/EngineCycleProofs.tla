------------------------- MODULE EngineCycleProofs -------------------------
(***************************************************************************)
(* Proofs about EngineCycle for any engines, any number of collectors and  *)
(* any bounds on events, kills and damages, and about StateFile for any    *)
(* processes, pieces, saves and stops.                                     *)
(***************************************************************************)
EXTENDS EngineCycle, StateFile, SequenceTheorems, TLAPS

-----------------------------------------------------------------------------
(* Type correctness.                                                       *)

LEMMA SomeCollector == 1 \in Sources
  BY StageAssumption DEF Sources

LEMMA NoPositionsTyped == NoPositions \in Positions
  BY DEF NoPositions, Positions

(* What a collector reads are alerts of its own source.                    *)
LEMMA NewAlertsTyped ==
    ASSUME TypeOK, NEW e \in Engines
    PROVE  NewAlerts(e) \subseteq Alerts
  <1>1. stage[e] \in Sources /\ upto[e] \in Nat
    BY DEF TypeOK
  <1>2. loaded[e] \in Positions
    BY DEF TypeOK
  <1>3. loaded[e][stage[e]] \in Nat
    BY <1>1, <1>2 DEF Positions
  <1>. QED
    BY <1>1, <1>3 DEF NewAlerts, Alerts

LEMMA TypeInit == Init => TypeOK
  BY SomeCollector, NoPositionsTyped DEF Init, TypeOK, Mishaps

LEMMA EndCycleTyped ==
    ASSUME TypeOK, NEW e \in Engines, EndCycle(e)
    PROVE  /\ pc' \in [Engines -> {"idle", "load", "save", "merge"}]
           /\ stage' \in [Engines -> Sources]
           /\ loaded' \in [Engines -> Positions]
           /\ upto' \in [Engines -> Nat]
           /\ batch' \in [Engines -> SUBSET Alerts]
  BY SomeCollector, NoPositionsTyped DEF TypeOK, EndCycle

LEMMA NextStageTyped ==
    ASSUME TypeOK, NEW e \in Engines, NextStage(e)
    PROVE  /\ pc' \in [Engines -> {"idle", "load", "save", "merge"}]
           /\ stage' \in [Engines -> Sources]
  <1>1. stage[e] \in Sources
    BY DEF TypeOK
  <1>2. stage[e] < Stages => stage[e] + 1 \in Sources
    BY <1>1, StageAssumption DEF Sources
  <1>. QED
    BY <1>2 DEF TypeOK, NextStage

LEMMA TypeStep == TypeOK /\ [Next]_vars => TypeOK'
  <1> SUFFICES ASSUME TypeOK, [Next]_vars
               PROVE  TypeOK'
    OBVIOUS
  <1>1. ASSUME NEW e \in Engines, CheckStore(e)
        PROVE  TypeOK'
    BY <1>1 DEF TypeOK, CheckStore, worldVars, Mishaps
  <1>2. ASSUME NEW e \in Engines, Load(e)
        PROVE  TypeOK'
    <2>1. arrived[stage[e]] \in Nat
      BY DEF TypeOK, Positions
    <2>. QED
      BY <1>2, <2>1 DEF TypeOK, Load, worldVars
  <1>3. ASSUME NEW e \in Engines, Save(e)
        PROVE  TypeOK'
    <2>1. batch' \in [Engines -> SUBSET Alerts]
      BY <1>3, NewAlertsTyped DEF TypeOK, Save
    <2>2. positions' \in Positions
      BY <1>3 DEF TypeOK, Save, Positions
    <2>3. /\ pc' \in [Engines -> {"idle", "load", "save", "merge"}]
          /\ stage' \in [Engines -> Sources]
      BY <1>3, NextStageTyped DEF Save
    <2>. QED
      BY <1>3, <2>1, <2>2, <2>3 DEF TypeOK, Save, worldVars
  <1>4. ASSUME NEW e \in Engines, Merge(e)
        PROVE  TypeOK'
    <2>1. store' \in SUBSET Alerts
      BY <1>4 DEF TypeOK, Merge
    <2>. QED
      BY <1>4, <2>1, EndCycleTyped DEF TypeOK, Merge, worldVars
  <1>5. ASSUME NEW e \in Engines, MergeRefused(e)
        PROVE  TypeOK'
    <2>1. mishaps' \in SUBSET Mishaps
      BY <1>5 DEF TypeOK, MergeRefused, Mishaps
    <2>. QED
      BY <1>5, <2>1, EndCycleTyped DEF TypeOK, MergeRefused, worldVars
  <1>6. ASSUME NEW e \in Engines, Kill(e)
        PROVE  TypeOK'
    <2>1. mishaps' \in SUBSET Mishaps
      BY <1>6 DEF TypeOK, Kill, Mishaps
    <2>2. kills' \in Nat
      BY <1>6 DEF TypeOK, Kill
    <2>. QED
      BY <1>6, <2>1, <2>2, EndCycleTyped DEF TypeOK, Kill
  <1>7. ASSUME NEW s \in Sources, Arrive(s)
        PROVE  TypeOK'
    <2>1. arrived' \in Positions
      BY <1>7 DEF TypeOK, Arrive, Positions
    <2>. QED
      BY <1>7, <2>1 DEF TypeOK, Arrive
  <1>8. CASE Damage
    <2>1. damages' \in Nat
      BY <1>8 DEF TypeOK, Damage
    <2>2. readable' \in BOOLEAN
      BY <1>8 DEF Damage
    <2>. QED
      BY <1>8, <2>1, <2>2 DEF TypeOK, Damage
  <1>9. CASE Repair
    BY <1>9 DEF TypeOK, Repair
  <1>10. CASE UNCHANGED vars
    BY <1>10 DEF TypeOK, vars
  <1>. QED
    BY <1>1, <1>2, <1>3, <1>4, <1>5, <1>6, <1>7, <1>8, <1>9, <1>10
       DEF Next, EngineStep

(* Every reachable state of a cycle is well typed.                         *)
THEOREM CycleTypeCorrect == Spec => []TypeOK
  BY TypeInit, TypeStep, PTL DEF Spec

-----------------------------------------------------------------------------
(* Nothing is lost: what is stored or in a batch stays so, as long as no   *)
(* cycle ends with unmerged alerts.                                        *)

LEMMA InFlightMember == \A a : a \in InFlight <=> \E e \in Engines : a \in batch[e]
  BY DEF InFlight

(* A cycle that ends has put its batch into the store, or had none.        *)
LEMMA EndCycleKeeps ==
    ASSUME TypeOK, NEW e \in Engines, EndCycle(e),
           store \union batch[e] \subseteq store'
    PROVE  Kept \subseteq Kept'
  <1>1. \A f \in Engines : f # e => batch'[f] = batch[f]
    BY DEF TypeOK, EndCycle
  <1>2. SUFFICES ASSUME NEW a \in Kept
                 PROVE  a \in Kept'
    OBVIOUS
  <1>3. CASE a \in store \/ a \in batch[e]
    BY <1>3 DEF Kept
  <1>4. CASE \E f \in Engines : f # e /\ a \in batch[f]
    BY <1>1, <1>4 DEF Kept, InFlight
  <1>. QED
    BY <1>2, <1>3, <1>4 DEF Kept, InFlight

LEMMA KeptGrows ==
    ASSUME TypeOK, [Next]_vars, Lossless'
    PROVE  Lossless /\ Kept \subseteq Kept'
  <1>1. ASSUME NEW e \in Engines, CheckStore(e)
        PROVE  Lossless /\ Kept \subseteq Kept'
    <2>1. Lossless
      BY <1>1 DEF CheckStore, Lossless
    <2>. QED
      BY <1>1, <2>1 DEF CheckStore, Kept, InFlight
  <1>2. ASSUME NEW e \in Engines, Load(e)
        PROVE  Lossless /\ Kept \subseteq Kept'
    BY <1>2 DEF Load, Kept, InFlight, Lossless
  <1>3. ASSUME NEW e \in Engines, Save(e)
        PROVE  Lossless /\ Kept \subseteq Kept'
    <2>1. \A f \in Engines : batch[f] \subseteq batch'[f]
      BY <1>3 DEF TypeOK, Save
    <2>2. store' = store /\ mishaps' = mishaps
      BY <1>3 DEF Save
    <2>. QED
      BY <2>1, <2>2 DEF Kept, InFlight, Lossless
  <1>4. ASSUME NEW e \in Engines, Merge(e)
        PROVE  Lossless /\ Kept \subseteq Kept'
    <2>1. EndCycle(e) /\ store' = store \union batch[e] /\ mishaps' = mishaps
      BY <1>4 DEF Merge
    <2>. QED
      BY <2>1, EndCycleKeeps DEF Lossless
  <1>5. ASSUME NEW e \in Engines, MergeRefused(e)
        PROVE  Lossless /\ Kept \subseteq Kept'
    <2>1. batch[e] = {} /\ mishaps \subseteq mishaps'
      BY <1>5 DEF MergeRefused, Lossless
    <2>2. EndCycle(e) /\ store' = store
      BY <1>5 DEF MergeRefused
    <2>. QED
      BY <2>1, <2>2, EndCycleKeeps DEF Lossless
  <1>6. ASSUME NEW e \in Engines, Kill(e)
        PROVE  Lossless /\ Kept \subseteq Kept'
    <2>1. batch[e] = {} /\ mishaps \subseteq mishaps'
      BY <1>6 DEF Kill, Lossless
    <2>2. EndCycle(e) /\ store' = store
      BY <1>6 DEF Kill
    <2>. QED
      BY <2>1, <2>2, EndCycleKeeps DEF Lossless
  <1>7. CASE \/ \E s \in Sources : Arrive(s)
             \/ Damage
             \/ Repair
             \/ UNCHANGED vars
    BY <1>7 DEF Arrive, Damage, Repair, vars, Kept, InFlight, Lossless
  <1>. QED
    BY <1>1, <1>2, <1>3, <1>4, <1>5, <1>6, <1>7 DEF Next, EngineStep

(* The saved position of the collector's own source covers what it had     *)
(* loaded and what it has just read.                                       *)
LEMMA SaveCovers ==
    ASSUME TypeOK, NEW e \in Engines, Save(e), Covered(loaded[e]),
           Covered(positions), Kept \subseteq Kept'
    PROVE  Covered(positions)'
  <1>1. SUFFICES ASSUME NEW s \in Sources, NEW n \in 1 .. positions'[s]
                 PROVE  <<s, n>> \in Kept'
    BY DEF Covered
  <1>2. CASE n \in 1 .. positions[s] \/ n \in 1 .. loaded[e][s]
    BY <1>2 DEF Covered
  <1>3. CASE ~(n \in 1 .. positions[s] \/ n \in 1 .. loaded[e][s])
    <2>1. positions' = [loaded[e] EXCEPT ![stage[e]] = upto[e]]
      BY <1>1, <1>3 DEF Save
    <2>2. loaded[e] \in [Sources -> Nat] /\ upto[e] \in Nat
      BY DEF TypeOK, Positions
    <2>3. s = stage[e] /\ positions'[s] = upto[e]
      BY <1>1, <1>3, <2>1, <2>2
    <2>4. n \in loaded[e][s] + 1 .. upto[e]
      BY <1>1, <1>3, <2>2, <2>3
    <2>5. <<s, n>> \in NewAlerts(e)
      BY <2>3, <2>4 DEF NewAlerts
    <2>6. batch'[e] = batch[e] \union NewAlerts(e)
      BY <1>1 DEF TypeOK, Save
    <2>. QED
      BY <2>5, <2>6 DEF Kept, InFlight
  <1>. QED
    BY <1>2, <1>3

AccountInv == TypeOK /\ Accounted /\ LoadedAccounted

LEMMA AccountInit == Init => AccountInv
  <1> SUFFICES ASSUME Init
               PROVE  AccountInv
    OBVIOUS
  <1>1. \A s \in Sources : positions[s] = 0
    BY DEF Init, NoPositions
  <1>2. Accounted
    BY <1>1 DEF Accounted, Covered
  <1>3. LoadedAccounted
    BY DEF Init, LoadedAccounted
  <1>. QED
    BY TypeInit, <1>2, <1>3 DEF AccountInv

LEMMA AccountStep == AccountInv /\ [Next]_vars => AccountInv'
  <1> SUFFICES ASSUME AccountInv, [Next]_vars
               PROVE  AccountInv'
    OBVIOUS
  <1> USE DEF AccountInv
  <1>1. TypeOK'
    BY TypeStep
  <1>2. ASSUME Lossless'
        PROVE  /\ Covered(positions)'
               /\ \A e \in Engines : pc'[e] = "save" => Covered(loaded[e])'
    <2>1. Lossless /\ Kept \subseteq Kept'
      BY <1>2, KeptGrows
    <2>2. Covered(positions) /\ \A e \in Engines : pc[e] = "save" => Covered(loaded[e])
      BY <2>1 DEF Accounted, LoadedAccounted
    <2>3. \A p : (\A s \in Sources : \A n \in 1 .. p[s] : <<s, n>> \in Kept)
              => (\A s \in Sources : \A n \in 1 .. p[s] : <<s, n>> \in Kept')
      BY <2>1
    <2>4. Covered(positions)'
      <3>1. CASE positions' = positions
        BY <2>2, <2>3, <3>1 DEF Covered
      <3>2. CASE \E e \in Engines : Save(e)
        <4>1. PICK e \in Engines : Save(e)
          BY <3>2
        <4>2. Covered(loaded[e])
          BY <2>2, <4>1 DEF Save
        <4>. QED
          BY <2>1, <2>2, <4>1, <4>2, SaveCovers
      <3>. QED
        BY <3>1, <3>2 DEF Next, EngineStep, CheckStore, Load, Merge,
           MergeRefused, Kill, Arrive, Damage, Repair, vars
    <2>5. ASSUME NEW e \in Engines, pc'[e] = "save"
          PROVE  Covered(loaded[e])'
      <3>1. CASE pc[e] = "save" /\ loaded'[e] = loaded[e]
        BY <2>2, <2>3, <3>1 DEF Covered
      <3>2. CASE Load(e)
        <4>1. loaded'[e] = positions
          BY <3>2 DEF TypeOK, Load
        <4>. QED
          BY <2>2, <2>3, <4>1 DEF Covered
      <3>3. ASSUME NEW f \in Engines, EndCycle(f)
            PROVE  pc[e] = "save" /\ loaded'[e] = loaded[e]
        BY <2>5, <3>3 DEF TypeOK, EndCycle
      <3>4. ASSUME NEW f \in Engines, CheckStore(f)
            PROVE  pc[e] = "save" /\ loaded'[e] = loaded[e]
        BY <2>5, <3>4 DEF TypeOK, CheckStore
      <3>5. ASSUME NEW f \in Engines, f # e, Load(f)
            PROVE  pc[e] = "save" /\ loaded'[e] = loaded[e]
        BY <2>5, <3>5 DEF TypeOK, Load
      <3>6. ASSUME NEW f \in Engines, Save(f)
            PROVE  pc[e] = "save" /\ loaded'[e] = loaded[e]
        BY <2>5, <3>6 DEF TypeOK, Save, NextStage
      <3>7. CASE \/ \E s \in Sources : Arrive(s)
                 \/ Damage
                 \/ Repair
                 \/ UNCHANGED vars
        BY <2>5, <3>1, <3>7 DEF Arrive, Damage, Repair, vars
      <3>. QED
        BY <3>1, <3>2, <3>3, <3>4, <3>5, <3>6, <3>7
           DEF Next, EngineStep, Merge, MergeRefused, Kill
    <2>. QED
      BY <2>4, <2>5
  <1>. QED
    BY <1>1, <1>2 DEF Accounted, LoadedAccounted

(* For any number of overlapping engines and collectors: no position in    *)
(* state.json runs ahead of what is stored or in a running cycle's batch.  *)
THEOREM PositionsAccounted == Spec => []Accounted
  <1>1. AccountInv => Accounted
    BY DEF AccountInv
  <1>. QED
    BY AccountInit, AccountStep, <1>1, PTL DEF Spec

(* Nor does what an engine has loaded, however old it is.                  *)
THEOREM LoadedPositionsAccounted == Spec => []LoadedAccounted
  <1>1. AccountInv => LoadedAccounted
    BY DEF AccountInv
  <1>. QED
    BY AccountInit, AccountStep, <1>1, PTL DEF Spec

-----------------------------------------------------------------------------
(* Nothing is read twice by engines that do not overlap: state.json is     *)
(* what the one running engine has loaded, and says what has been kept.    *)

Alone  == \A e, f \in Engines : pc[e] # "idle" /\ pc[f] # "idle" => e = f
Behind == \A s \in Sources : positions[s] <= arrived[s]
Marked == \A a \in Kept : a[2] <= positions[a[1]]
Loaded ==
    \A e \in Engines : pc[e] = "save" =>
        /\ loaded[e] = positions
        /\ positions[stage[e]] <= upto[e]
        /\ upto[e] <= arrived[stage[e]]

SingleInv == "overlap" \notin mishaps => Alone /\ Behind /\ Marked /\ Loaded

OnceInv == TypeOK /\ SingleInv

LEMMA OnceInit == Init => OnceInv
  <1> SUFFICES ASSUME Init
               PROVE  OnceInv
    OBVIOUS
  <1>1. Alone /\ Loaded
    BY DEF Init, Alone, Loaded
  <1>2. Behind
    BY DEF Init, Behind, NoPositions
  <1>3. Marked
    BY DEF Init, Marked, Kept, InFlight
  <1>. QED
    BY TypeInit, <1>1, <1>2, <1>3 DEF OnceInv, SingleInv

(* The end of a cycle with nothing new in the store.                       *)
LEMMA EndCycleSingle ==
    ASSUME TypeOK, Alone, Behind, Marked, Loaded, NEW e \in Engines,
           EndCycle(e), store' \subseteq store \union batch[e],
           positions' = positions, arrived' = arrived
    PROVE  Alone' /\ Behind' /\ Marked' /\ Loaded'
  <1>1. \A f \in Engines : f # e => /\ pc'[f] = pc[f]
                                    /\ loaded'[f] = loaded[f]
                                    /\ stage'[f] = stage[f]
                                    /\ upto'[f] = upto[f]
                                    /\ batch'[f] = batch[f]
    BY DEF TypeOK, EndCycle
  <1>2. pc'[e] = "idle" /\ batch'[e] = {}
    BY DEF TypeOK, EndCycle
  <1>3. Alone'
    BY <1>1, <1>2 DEF Alone
  <1>4. Behind'
    BY DEF Behind
  <1>5. Kept' \subseteq Kept
    BY <1>1, <1>2 DEF Kept, InFlight
  <1>6. Marked'
    BY <1>5 DEF Marked
  <1>7. Loaded'
    BY <1>1, <1>2 DEF Loaded
  <1>. QED
    BY <1>3, <1>4, <1>6, <1>7

LEMMA LoadSingle ==
    ASSUME TypeOK, Alone, Behind, Marked, Loaded, NEW e \in Engines, Load(e)
    PROVE  Alone' /\ Behind' /\ Marked' /\ Loaded'
  <1>1. /\ arrived' = arrived /\ positions' = positions /\ Kept' = Kept
        /\ stage' = stage
    BY DEF Load, worldVars, Kept, InFlight
  <1>2. \A f \in Engines : pc'[f] # "idle" => pc[f] # "idle"
    BY DEF TypeOK, Load
  <1>3. Alone'
    BY <1>2 DEF Alone
  <1>4. Behind' /\ Marked'
    BY <1>1 DEF Behind, Marked
  <1>5. stage[e] \in Sources
    BY DEF TypeOK
  <1>6. loaded'[e] = positions /\ upto'[e] = arrived[stage[e]]
    BY DEF TypeOK, Load
  <1>7. positions[stage[e]] <= upto'[e] /\ upto'[e] <= arrived[stage[e]]
    BY <1>5, <1>6 DEF Behind, TypeOK, Positions
  <1>8. \A f \in Engines : f # e => /\ pc'[f] = pc[f]
                                    /\ loaded'[f] = loaded[f]
                                    /\ upto'[f] = upto[f]
    BY DEF TypeOK, Load
  <1>9. Loaded'
    BY <1>1, <1>6, <1>7, <1>8 DEF Loaded
  <1>. QED
    BY <1>3, <1>4, <1>9

LEMMA SaveSingle ==
    ASSUME TypeOK, Alone, Behind, Marked, Loaded, NEW e \in Engines, Save(e)
    PROVE  Alone' /\ Behind' /\ Marked' /\ Loaded'
  <1> DEFINE s == stage[e]
  <1>1. /\ s \in Sources
        /\ positions \in [Sources -> Nat] /\ arrived \in [Sources -> Nat]
        /\ upto[e] \in Nat
    BY DEF TypeOK, Positions
  <1>2. /\ loaded[e] = positions
        /\ positions[s] <= upto[e]
        /\ upto[e] <= arrived[s]
    BY DEF Loaded, Save
  <1>3. positions' = [positions EXCEPT ![s] = upto[e]]
    BY <1>1, <1>2 DEF Save
  <1>4. arrived' = arrived
    BY DEF Save, worldVars
  <1> HIDE DEF s
  <1>5. Behind'
    BY <1>1, <1>2, <1>3, <1>4 DEF Behind
  <1>6. \A t \in Sources : positions[t] <= positions'[t]
    BY <1>1, <1>2, <1>3
  <1>7. pc[e] # "idle" /\ (pc'[e] = "load" \/ pc'[e] = "merge")
    BY DEF TypeOK, Save, NextStage
  <1>8. \A f \in Engines : f # e => pc'[f] = pc[f]
    BY DEF TypeOK, Save, NextStage
  <1>9. Alone'
    BY <1>7, <1>8 DEF Alone
  <1>10. Loaded'
    <2>1. \A f \in Engines : f # e => pc[f] = "idle"
      BY <1>7 DEF Alone
    <2>. QED
      BY <1>7, <1>8, <2>1 DEF Loaded
  <1>11. Marked'
    <2>1. SUFFICES ASSUME NEW a \in Kept'
                   PROVE  a[2] <= positions'[a[1]]
      BY DEF Marked
    <2>2. CASE a \in Kept
      <3>1. a[1] \in Sources /\ a[2] \in Nat
        BY <2>2 DEF TypeOK, Kept, InFlight, Alerts
      <3>2. a[2] <= positions[a[1]]
        BY <2>2 DEF Marked
      <3>3. positions[a[1]] \in Nat /\ positions'[a[1]] \in Nat
        BY <1>1, <1>3, <3>1
      <3>. QED
        BY <1>6, <3>1, <3>2, <3>3
    <2>3. CASE a \notin Kept
      <3>1. a \in NewAlerts(e)
        BY <2>1, <2>3 DEF TypeOK, Save, Kept, InFlight
      <3>2. a[1] = s /\ a[2] <= upto[e]
        BY <3>1, <1>1, <1>2 DEF NewAlerts, s
      <3>. QED
        BY <1>1, <1>3, <3>2
    <2>. QED
      BY <2>2, <2>3
  <1>. QED
    BY <1>5, <1>9, <1>10, <1>11

LEMMA OnceStep == OnceInv /\ [Next]_vars => OnceInv'
  <1> SUFFICES ASSUME OnceInv, [Next]_vars
               PROVE  OnceInv'
    OBVIOUS
  <1> USE DEF OnceInv
  <1>1. TypeOK'
    BY TypeStep
  <1>2. ASSUME "overlap" \notin mishaps'
        PROVE  (Alone /\ Behind /\ Marked /\ Loaded)'
    <2>1. "overlap" \notin mishaps
      BY <1>2 DEF Next, EngineStep, CheckStore, Load, Save, Merge,
         MergeRefused, Kill, Arrive, Damage, Repair, vars
    <2>2. Alone /\ Behind /\ Marked /\ Loaded
      BY <2>1 DEF SingleInv
    <2>3. ASSUME NEW e \in Engines, CheckStore(e)
          PROVE  (Alone /\ Behind /\ Marked /\ Loaded)'
      <3>1. \A f \in Engines : pc[f] = "idle"
        BY <1>2, <2>3 DEF CheckStore
      <3>2. \A f \in Engines : f # e => pc'[f] = "idle"
        BY <2>3, <3>1 DEF TypeOK, CheckStore
      <3>3. pc'[e] = "load"
        BY <2>3 DEF TypeOK, CheckStore
      <3>4. Alone' /\ Loaded'
        BY <3>2, <3>3 DEF Alone, Loaded
      <3>5. Behind' /\ Marked'
        BY <2>2, <2>3 DEF CheckStore, worldVars, Behind, Marked, Kept, InFlight
      <3>. QED
        BY <3>4, <3>5
    <2>4. ASSUME NEW e \in Engines, Load(e)
          PROVE  (Alone /\ Behind /\ Marked /\ Loaded)'
      BY <2>2, <2>4, LoadSingle
    <2>5. ASSUME NEW e \in Engines, Save(e)
          PROVE  (Alone /\ Behind /\ Marked /\ Loaded)'
      BY <2>2, <2>5, SaveSingle
    <2>6. ASSUME NEW e \in Engines, Merge(e) \/ MergeRefused(e) \/ Kill(e)
          PROVE  (Alone /\ Behind /\ Marked /\ Loaded)'
      <3>1. /\ EndCycle(e)
            /\ store' \subseteq store \union batch[e]
            /\ positions' = positions /\ arrived' = arrived
        BY <2>6 DEF Merge, MergeRefused, Kill, worldVars
      <3>. QED
        BY <2>2, <3>1, EndCycleSingle
    <2>7. ASSUME NEW s \in Sources, Arrive(s)
          PROVE  (Alone /\ Behind /\ Marked /\ Loaded)'
      <3>1. /\ \A t \in Sources : arrived[t] <= arrived'[t]
            /\ \A t \in Sources : arrived[t] \in Nat /\ arrived'[t] \in Nat
            /\ \A t \in Sources : positions[t] \in Nat
        BY <2>7 DEF Arrive, TypeOK, Positions
      <3>2. /\ pc' = pc /\ stage' = stage /\ loaded' = loaded /\ upto' = upto
            /\ positions' = positions /\ Kept' = Kept
        BY <2>7 DEF Arrive, Kept, InFlight
      <3>3. Behind'
        BY <2>2, <3>1, <3>2 DEF Behind
      <3>4. Alone' /\ Marked'
        BY <2>2, <3>2 DEF Alone, Marked
      <3>5. \A e \in Engines : stage[e] \in Sources /\ upto[e] \in Nat
        BY DEF TypeOK
      <3>6. Loaded'
        BY <2>2, <3>1, <3>2, <3>5 DEF Loaded
      <3>. QED
        BY <3>3, <3>4, <3>6
    <2>8. CASE Damage \/ Repair \/ UNCHANGED vars
      BY <2>2, <2>8 DEF Damage, Repair, vars, Alone, Behind, Marked, Loaded,
         Kept, InFlight
    <2>. QED
      BY <2>3, <2>4, <2>5, <2>6, <2>7, <2>8 DEF Next, EngineStep
  <1>. QED
    BY <1>1, <1>2 DEF SingleInv

(* Cycles that do not overlap hand no event to the rules twice, whichever  *)
(* collectors save and whatever is killed.                                 *)
THEOREM EventsReadOnce == Spec => []ReadOnce
  <1>1. OnceInv => ReadOnce
    <2> SUFFICES ASSUME OnceInv, "overlap" \notin mishaps,
                        NEW e \in Engines, pc[e] = "save",
                        NEW a \in NewAlerts(e), a \in Kept
                 PROVE  FALSE
      BY DEF ReadOnce
    <2>1. /\ loaded[e] = positions
          /\ \A b \in Kept : b[2] <= positions[b[1]]
      BY DEF OnceInv, SingleInv, Loaded, Marked
    <2>2. positions[stage[e]] \in Nat /\ upto[e] \in Nat
      BY DEF OnceInv, TypeOK, Positions
    <2>3. a[1] = stage[e] /\ a[2] \in Nat /\ positions[stage[e]] < a[2]
      BY <2>1, <2>2 DEF NewAlerts
    <2>. QED
      BY <2>1, <2>2, <2>3
  <1>. QED
    BY OnceInit, OnceStep, <1>1, PTL DEF Spec

-----------------------------------------------------------------------------
(* StateFile: while no two saves have overlapped.                          *)

Pieces   == Nat \X Nat
Versions == [save : Nat, pieces : Nat]

FilesTyped ==
    /\ names \in [{"state", "temp"} -> Inodes \union {NoFile}]
    /\ data \in [Inodes -> Seq(Pieces)]
    /\ at \in [Processes -> {"idle", "load", "save"}]
    /\ file \in [Processes -> Inodes \union {NoFile}]
    /\ moved \in [Processes -> Seq(Pieces)]
    /\ version \in [Processes -> Versions]
    /\ saves \in Nat
    /\ current \in Versions
    /\ \A p \in Processes : at[p] # "idle" => file[p] # NoFile

(* The pieces read or written so far are the first ones of the version.    *)
Begins(pieces, v) ==
    /\ Len(pieces) <= v.pieces
    /\ \A i \in 1 .. Len(pieces) : pieces[i] = Content(v)[i]

StateHolds ==
    names["state"] # NoFile =>
        names["temp"] # names["state"] /\ data[names["state"]] = Content(current)

(* No process writes the file that p reads, and none will.                 *)
LoadHolds(p) ==
    at[p] = "load" =>
        /\ file[p] # names["temp"]
        /\ data[file[p]] = Content(version[p])
        /\ Begins(moved[p], version[p])

SaveHolds(p) ==
    at[p] = "save" =>
        /\ file[p] = names["temp"]
        /\ data[file[p]] = moved[p]
        /\ Begins(moved[p], version[p])
        /\ \A q \in Processes : at[q] = "save" => q = p

FilesHold ==
    /\ FilesTyped
    /\ StateHolds
    /\ \A p \in Processes : LoadHolds(p) /\ SaveHolds(p)

FileInv == ~ overlapped => FilesHold

LEMMA ContentTyped ==
    ASSUME NEW v \in Versions
    PROVE  /\ Content(v) \in Seq(Pieces)
           /\ Len(Content(v)) = v.pieces
           /\ v.pieces \in Nat
<1>1. v.pieces \in Nat /\ v.save \in Nat
  BY DEF Versions
<1>2. \A i \in 1 .. v.pieces : <<v.save, i>> \in Pieces
  BY <1>1 DEF Pieces
<1>3. Content(v) \in [1 .. v.pieces -> Pieces]
  BY <1>2 DEF Content
<1> HIDE DEF Content, Pieces
<1> QED
  BY <1>1, <1>3

LEMMA WholeVersion ==
    ASSUME NEW v \in Versions, NEW s \in Seq(Pieces), Begins(s, v), Len(s) >= v.pieces
    PROVE  s = Content(v)
<1>1. Len(s) = v.pieces /\ Len(Content(v)) = v.pieces /\ Content(v) \in Seq(Pieces)
  BY ContentTyped DEF Begins
<1>2. \A i \in 1 .. Len(s) : s[i] = Content(v)[i]
  BY DEF Begins
<1> QED
  BY <1>1, <1>2

LEMMA NextPiece ==
    ASSUME NEW v \in Versions, NEW s \in Seq(Pieces), Begins(s, v), Len(s) # v.pieces
    PROVE  LET piece == Content(v)[Len(s) + 1]
           IN  /\ piece \in Pieces
               /\ Begins(Append(s, piece), v)
<1> DEFINE piece == Content(v)[Len(s) + 1]
<1>1. /\ Content(v) \in Seq(Pieces) /\ Len(Content(v)) = v.pieces /\ v.pieces \in Nat
      /\ Len(s) \in Nat /\ Len(s) + 1 <= v.pieces
  BY ContentTyped DEF Begins
<1>2. piece \in Pieces
  <2>1. Len(s) + 1 \in 1 .. Len(Content(v))
    BY <1>1
  <2> QED
    BY <1>1, <2>1
<1>3. \A i \in 1 .. Len(s) : s[i] = Content(v)[i]
  BY DEF Begins
<1> HIDE DEF piece
<1>4. /\ Len(Append(s, piece)) = Len(s) + 1
      /\ Append(s, piece)[Len(s) + 1] = piece
      /\ \A i \in 1 .. Len(s) : Append(s, piece)[i] = s[i]
  BY <1>1, <1>2
<1>5. \A i \in 1 .. Len(s) + 1 : Append(s, piece)[i] = Content(v)[i]
  BY <1>1, <1>3, <1>4 DEF piece
<1>6. Begins(Append(s, piece), v)
  BY <1>1, <1>4, <1>5 DEF Begins
<1> QED
  BY <1>2, <1>6 DEF piece

LEMMA NothingYet ==
    ASSUME NEW v \in Versions
    PROVE  Begins(<<>>, v)
BY DEF Begins, Versions

(* A write after the last piece only adds one.                             *)
LEMMA PutLast ==
    ASSUME NEW s \in Seq(Pieces), NEW piece \in Pieces
    PROVE  PutAt(s, Len(s) + 1, piece) = Append(s, piece)
<1>1. Len(s) \in Nat
  OBVIOUS
<1>2. PutAt(s, Len(s) + 1, piece) =
        [j \in 1 .. Len(s) + 1 |->
            IF j = Len(s) + 1 THEN piece ELSE IF j <= Len(s) THEN s[j] ELSE Gap]
  BY <1>1 DEF PutAt
<1>3. \A j \in 1 .. Len(s) + 1 :
        (IF j = Len(s) + 1 THEN piece ELSE IF j <= Len(s) THEN s[j] ELSE Gap) =
            Append(s, piece)[j]
  BY <1>1
<1>4. Append(s, piece) = [j \in 1 .. Len(s) + 1 |-> Append(s, piece)[j]]
  <2>1. Append(s, piece) \in Seq(Pieces) /\ Len(Append(s, piece)) = Len(s) + 1
    BY <1>1
  <2>2. Append(s, piece) \in [1 .. Len(s) + 1 -> Pieces]
    BY <2>1, LenProperties
  <2> QED
    BY <2>2
<1> QED
  BY <1>2, <1>3, <1>4

LEMMA FilesInit == FileInit => FileInv
<1> SUFFICES ASSUME FileInit PROVE FilesHold
  BY DEF FileInv
<1>1. NoVersion \in Versions /\ <<>> \in Seq(Pieces)
  BY DEF NoVersion, Versions
<1>2. FilesTyped
  BY <1>1 DEF FileInit, FilesTyped
<1>3. StateHolds /\ \A p \in Processes : LoadHolds(p) /\ SaveHolds(p)
  BY DEF FileInit, StateHolds, LoadHolds, SaveHolds
<1> QED
  BY <1>2, <1>3 DEF FilesHold

(* What Opens does to the process that opens, and to the others.           *)
LEMMA OpensOne ==
    ASSUME FilesTyped, NEW p \in Processes, NEW call \in {"idle", "load", "save"},
           NEW f \in Inodes \union {NoFile}, NEW v \in Versions, Opens(p, call, f, v)
    PROVE  /\ at' \in [Processes -> {"idle", "load", "save"}]
           /\ file' \in [Processes -> Inodes \union {NoFile}]
           /\ moved' \in [Processes -> Seq(Pieces)]
           /\ version' \in [Processes -> Versions]
           /\ at'[p] = call /\ file'[p] = f /\ moved'[p] = <<>> /\ version'[p] = v
           /\ \A q \in Processes \ {p} :
                 /\ at'[q] = at[q] /\ file'[q] = file[q]
                 /\ moved'[q] = moved[q] /\ version'[q] = version[q]
<1> <<>> \in Seq(Pieces)
  OBVIOUS
<1> QED
  BY DEF FilesTyped, Opens

LEMMA ClosesOne ==
    ASSUME FilesTyped, NEW p \in Processes, Closes(p)
    PROVE  /\ at' \in [Processes -> {"idle", "load", "save"}]
           /\ file' \in [Processes -> Inodes \union {NoFile}]
           /\ moved' \in [Processes -> Seq(Pieces)]
           /\ version' \in [Processes -> Versions]
           /\ at'[p] = "idle"
           /\ \A q \in Processes \ {p} :
                 /\ at'[q] = at[q] /\ file'[q] = file[q]
                 /\ moved'[q] = moved[q] /\ version'[q] = version[q]
<1>1. NoVersion \in Versions /\ NoFile \in Inodes \union {NoFile}
  BY DEF NoVersion, Versions
<1> QED
  BY <1>1, OpensOne DEF Closes

(* EndLoad, ReplaceFails, Stop: only the open file is given up.            *)
LEMMA CloseKeeps ==
    ASSUME FilesHold, NEW p \in Processes, Closes(p),
           UNCHANGED <<names, data, saves, current>>
    PROVE  FilesHold'
<1>1. FilesTyped'
  BY ClosesOne DEF FilesHold, FilesTyped
<1>2. StateHolds'
  BY DEF FilesHold, StateHolds
<1>3. ASSUME NEW q \in Processes PROVE LoadHolds(q)' /\ SaveHolds(q)'
  <2>1. CASE q = p
    BY <2>1, ClosesOne DEF FilesHold, LoadHolds, SaveHolds
  <2>2. CASE q # p
    BY <2>2, ClosesOne DEF FilesHold, LoadHolds, SaveHolds
  <2> QED
    BY <2>1, <2>2
<1> QED
  BY <1>1, <1>2, <1>3 DEF FilesHold

LEMMA OpenStateKeeps ==
    ASSUME FilesHold, NEW p \in Processes, OpenState(p)
    PROVE  FilesHold'
<1>1. /\ names["state"] \in Inodes \union {NoFile} /\ names["state"] # NoFile
      /\ current \in Versions
  BY DEF FilesHold, FilesTyped, OpenState
<1>2. FilesTyped /\ Opens(p, "load", names["state"], current)
  BY DEF FilesHold, OpenState
<1>3. /\ at' \in [Processes -> {"idle", "load", "save"}]
      /\ file' \in [Processes -> Inodes \union {NoFile}]
      /\ moved' \in [Processes -> Seq(Pieces)]
      /\ version' \in [Processes -> Versions]
      /\ at'[p] = "load" /\ file'[p] = names["state"] /\ moved'[p] = <<>>
      /\ version'[p] = current
      /\ \A q \in Processes \ {p} :
            /\ at'[q] = at[q] /\ file'[q] = file[q]
            /\ moved'[q] = moved[q] /\ version'[q] = version[q]
  BY <1>1, <1>2, OpensOne
<1>4. UNCHANGED <<names, data, saves, current>>
  BY DEF OpenState
<1>5. FilesTyped'
  BY <1>1, <1>2, <1>3, <1>4 DEF FilesTyped
<1>6. StateHolds'
  BY <1>4 DEF FilesHold, StateHolds
<1>7. ASSUME NEW q \in Processes PROVE LoadHolds(q)' /\ SaveHolds(q)'
  <2>1. CASE q = p
    <3>1. Begins(<<>>, current)
      BY <1>1, NothingYet
    <3> QED
      BY <2>1, <1>1, <1>3, <1>4, <3>1 DEF FilesHold, StateHolds, LoadHolds, SaveHolds
  <2>2. CASE q # p
    BY <2>2, <1>3, <1>4 DEF FilesHold, LoadHolds, SaveHolds
  <2> QED
    BY <2>1, <2>2
<1> QED
  BY <1>5, <1>6, <1>7 DEF FilesHold

LEMMA ReadKeeps ==
    ASSUME FilesHold, NEW p \in Processes, Read(p)
    PROVE  FilesHold'
<1>1. /\ moved[p] \in Seq(Pieces) /\ version[p] \in Versions
      /\ data[file[p]] = Content(version[p]) /\ Begins(moved[p], version[p])
  BY DEF FilesHold, FilesTyped, LoadHolds, Read
<1>2. Len(moved[p]) # version[p].pieces
  BY <1>1, ContentTyped DEF Read, AtEnd
<1> DEFINE piece == Content(version[p])[Len(moved[p]) + 1]
<1>3. piece \in Pieces /\ Begins(Append(moved[p], piece), version[p])
  BY <1>1, <1>2, NextPiece
<1>4. /\ moved' = [moved EXCEPT ![p] = Append(@, piece)]
      /\ at[p] = "load" /\ moved \in [Processes -> Seq(Pieces)]
      /\ UNCHANGED <<names, data, at, file, version, saves, current>>
  BY <1>1 DEF Read, FilesHold, FilesTyped
<1> HIDE DEF piece
<1>5. /\ moved' \in [Processes -> Seq(Pieces)]
      /\ moved'[p] = Append(moved[p], piece)
      /\ \A q \in Processes \ {p} : moved'[q] = moved[q]
  BY <1>1, <1>3, <1>4
<1>6. FilesTyped'
  BY <1>4, <1>5 DEF FilesHold, FilesTyped
<1>7. StateHolds'
  BY <1>4 DEF FilesHold, StateHolds
<1>8. ASSUME NEW q \in Processes PROVE LoadHolds(q)' /\ SaveHolds(q)'
  <2>1. CASE q = p
    BY <2>1, <1>3, <1>4, <1>5 DEF FilesHold, LoadHolds, SaveHolds
  <2>2. CASE q # p
    BY <2>2, <1>4, <1>5 DEF FilesHold, LoadHolds, SaveHolds
  <2> QED
    BY <2>1, <2>2
<1> QED
  BY <1>6, <1>7, <1>8 DEF FilesHold

(* The file that is opened for writing is the one temporary file: nobody   *)
(* reads it, and it is not state.json.                                     *)
LEMMA OpenTempKeeps ==
    ASSUME FilesHold, NEW p \in Processes, OpenTemp(p), ~ overlapped'
    PROVE  FilesHold'
<1>1. PICK f \in Inodes :
        /\ IF names["temp"] = NoFile THEN Unused(f) ELSE f = names["temp"]
        /\ names' = [names EXCEPT !["temp"] = f]
        /\ data' = [data EXCEPT ![f] = <<>>]
        /\ \E n \in 1 .. MaxPieces :
              Opens(p, "save", f, [save |-> saves', pieces |-> n])
  BY DEF OpenTemp
<1>2. PICK n \in 1 .. MaxPieces : Opens(p, "save", f, [save |-> saves', pieces |-> n])
  BY <1>1
<1> DEFINE v == [save |-> saves', pieces |-> n]
<1>3. FilesTyped /\ f # NoFile
  BY NoFileAssumption DEF FilesHold
<1>4. saves' \in Nat /\ current' = current /\ at[p] = "idle"
  BY <1>3 DEF OpenTemp, FilesTyped
<1>5. v \in Versions
  <2>1. n \in Nat
    BY FileBoundAssumption
  <2> QED
    BY <2>1, <1>4 DEF Versions
<1>6. \A q \in Processes : at[q] # "save"
  BY DEF OpenTemp
<1> HIDE DEF v
<1>7. Opens(p, "save", f, v)
  BY <1>2 DEF v
<1>8. /\ at' \in [Processes -> {"idle", "load", "save"}]
      /\ file' \in [Processes -> Inodes \union {NoFile}]
      /\ moved' \in [Processes -> Seq(Pieces)]
      /\ version' \in [Processes -> Versions]
      /\ at'[p] = "save" /\ file'[p] = f /\ moved'[p] = <<>> /\ version'[p] = v
      /\ \A q \in Processes \ {p} :
            /\ at'[q] = at[q] /\ file'[q] = file[q]
            /\ moved'[q] = moved[q] /\ version'[q] = version[q]
  BY <1>3, <1>5, <1>7, OpensOne
<1>9. names' \in [{"state", "temp"} -> Inodes \union {NoFile}]
      /\ names'["temp"] = f /\ names'["state"] = names["state"]
  BY <1>1, <1>3 DEF FilesTyped
<1>10. /\ data' \in [Inodes -> Seq(Pieces)] /\ data'[f] = <<>>
       /\ \A g \in Inodes \ {f} : data'[g] = data[g]
  <2>1. <<>> \in Seq(Pieces) /\ data \in [Inodes -> Seq(Pieces)]
    BY <1>3 DEF FilesTyped
  <2> QED
    BY <1>1, <2>1
<1>11. FilesTyped'
  BY <1>3, <1>4, <1>8, <1>9, <1>10 DEF FilesTyped
<1>12. StateHolds'
  <2> SUFFICES ASSUME names["state"] # NoFile
               PROVE  f # names["state"] /\ data'[names["state"]] = Content(current)
    BY <1>4, <1>9 DEF StateHolds
  <2>1. f # names["state"]
    BY <1>1 DEF FilesHold, StateHolds, Unused
  <2>2. names["state"] \in Inodes \ {f} /\ data[names["state"]] = Content(current)
    BY <1>3, <2>1 DEF FilesTyped, FilesHold, StateHolds
  <2> QED
    BY <1>10, <2>1, <2>2
<1>13. ASSUME NEW q \in Processes PROVE LoadHolds(q)' /\ SaveHolds(q)'
  <2>1. CASE q = p
    <3>1. Begins(<<>>, v)
      BY <1>5, NothingYet
    <3>2. \A r \in Processes : at'[r] = "save" => r = p
      BY <1>6, <1>8
    <3> QED
      BY <2>1, <1>8, <1>9, <1>10, <3>1, <3>2 DEF LoadHolds, SaveHolds
  <2>2. CASE q # p
    <3>1. SaveHolds(q)'
      BY <2>2, <1>6, <1>8 DEF SaveHolds
    <3>2. ASSUME at[q] = "load"
          PROVE  f # file[q] /\ file[q] \in Inodes \ {f}
      <4>1. f # file[q]
        BY <1>1, <3>2 DEF Unused, FilesHold, LoadHolds
      <4> QED
        BY <4>1, <1>3, <3>2 DEF FilesTyped
    <3>3. /\ at'[q] = at[q] /\ file'[q] = file[q]
          /\ moved'[q] = moved[q] /\ version'[q] = version[q]
      BY <2>2, <1>8
    <3>4. LoadHolds(q)'
      <4> SUFFICES ASSUME at[q] = "load"
                   PROVE  /\ file[q] # f
                          /\ data'[file[q]] = Content(version[q])
                          /\ Begins(moved[q], version[q])
        BY <1>9, <3>3 DEF LoadHolds
      <4>1. data[file[q]] = Content(version[q]) /\ Begins(moved[q], version[q])
        BY DEF FilesHold, LoadHolds
      <4> QED
        BY <4>1, <1>10, <3>2
    <3> QED
      BY <3>1, <3>4
  <2> QED
    BY <2>1, <2>2
<1> QED
  BY <1>11, <1>12, <1>13 DEF FilesHold

LEMMA WriteKeeps ==
    ASSUME FilesHold, NEW p \in Processes, Write(p)
    PROVE  FilesHold'
<1>1. FilesTyped /\ at[p] = "save"
  BY DEF FilesHold, Write
<1>2. /\ moved[p] \in Seq(Pieces) /\ version[p] \in Versions
      /\ file[p] \in Inodes
      /\ data \in [Inodes -> Seq(Pieces)] /\ moved \in [Processes -> Seq(Pieces)]
  BY <1>1 DEF FilesTyped
<1>3. /\ file[p] = names["temp"] /\ data[file[p]] = moved[p]
      /\ Begins(moved[p], version[p])
      /\ \A q \in Processes : at[q] = "save" => q = p
  BY <1>1 DEF FilesHold, SaveHolds
<1> DEFINE piece == Content(version[p])[Len(moved[p]) + 1]
<1>4. piece \in Pieces /\ Begins(Append(moved[p], piece), version[p])
  BY <1>2, <1>3, NextPiece DEF Write, Written
<1>5. /\ data' = [data EXCEPT ![file[p]] = PutAt(@, Len(moved[p]) + 1, piece)]
      /\ moved' = [moved EXCEPT ![p] = Append(@, piece)]
      /\ UNCHANGED <<names, at, file, version, saves, current>>
  BY DEF Write
<1> HIDE DEF piece
<1>6. PutAt(data[file[p]], Len(moved[p]) + 1, piece) = Append(moved[p], piece)
  BY <1>2, <1>3, <1>4, PutLast
<1>7. Append(moved[p], piece) \in Seq(Pieces)
  BY <1>2, <1>4
<1>8. /\ data' \in [Inodes -> Seq(Pieces)] /\ data'[file[p]] = Append(moved[p], piece)
      /\ \A g \in Inodes \ {file[p]} : data'[g] = data[g]
  BY <1>2, <1>5, <1>6, <1>7
<1>9. /\ moved' \in [Processes -> Seq(Pieces)] /\ moved'[p] = Append(moved[p], piece)
      /\ \A q \in Processes \ {p} : moved'[q] = moved[q]
  BY <1>2, <1>5, <1>7
<1>10. FilesTyped'
  BY <1>1, <1>5, <1>8, <1>9 DEF FilesTyped
<1>11. StateHolds'
  <2> SUFFICES ASSUME names["state"] # NoFile
               PROVE  names["temp"] # names["state"] /\
                      data'[names["state"]] = Content(current)
    BY <1>5 DEF StateHolds
  <2>1. /\ names["temp"] # names["state"]
        /\ data[names["state"]] = Content(current)
    BY DEF FilesHold, StateHolds
  <2>2. names["state"] \in Inodes \ {file[p]}
    BY <1>1, <1>3, <2>1 DEF FilesTyped
  <2> QED
    BY <1>8, <2>1, <2>2
<1>12. ASSUME NEW q \in Processes PROVE LoadHolds(q)' /\ SaveHolds(q)'
  <2>1. CASE q = p
    BY <2>1, <1>1, <1>3, <1>4, <1>5, <1>8, <1>9 DEF LoadHolds, SaveHolds
  <2>2. CASE q # p
    <3>1. SaveHolds(q)'
      BY <2>2, <1>3, <1>5 DEF SaveHolds
    <3>2. ASSUME at[q] = "load" PROVE file[q] \in Inodes \ {file[p]}
      <4>1. file[q] # names["temp"]
        BY <3>2 DEF FilesHold, LoadHolds
      <4> QED
        BY <4>1, <1>1, <1>3, <3>2 DEF FilesTyped
    <3>3. LoadHolds(q)'
      BY <2>2, <1>5, <1>8, <1>9, <3>2 DEF FilesHold, LoadHolds
    <3> QED
      BY <3>1, <3>3
  <2> QED
    BY <2>1, <2>2
<1> QED
  BY <1>10, <1>11, <1>12 DEF FilesHold

LEMMA ReplaceKeeps ==
    ASSUME FilesHold, NEW p \in Processes, Replace(p)
    PROVE  FilesHold'
<1>1. FilesTyped /\ at[p] = "save" /\ Closes(p) /\ names["temp"] # NoFile
  BY DEF FilesHold, Replace
<1>2. /\ names' = [state |-> names["temp"], temp |-> NoFile]
      /\ current' = version[p] /\ UNCHANGED <<data, saves>>
  BY DEF Replace
<1>3. /\ names["temp"] \in Inodes \union {NoFile}
      /\ names'["state"] = names["temp"] /\ names'["temp"] = NoFile
      /\ names' \in [{"state", "temp"} -> Inodes \union {NoFile}]
  <2>1. names["temp"] \in Inodes \union {NoFile}
    BY <1>1 DEF FilesTyped
  <2> QED
    BY <1>2, <2>1
<1>4. FilesTyped'
  BY <1>1, <1>2, <1>3, ClosesOne DEF FilesTyped
<1>5. data[names["temp"]] = Content(version[p])
  <2>1. /\ moved[p] \in Seq(Pieces) /\ version[p] \in Versions
        /\ names["temp"] = file[p] /\ data[file[p]] = moved[p]
        /\ Begins(moved[p], version[p])
        /\ Len(moved[p]) = version[p].pieces
    BY <1>1 DEF FilesHold, FilesTyped, SaveHolds, Replace, Written
  <2>2. version[p].pieces \in Nat
    BY <2>1, ContentTyped
  <2> QED
    BY <2>1, <2>2, WholeVersion
<1>6. StateHolds'
  BY <1>1, <1>2, <1>3, <1>5 DEF StateHolds
<1>7. ASSUME NEW q \in Processes PROVE LoadHolds(q)' /\ SaveHolds(q)'
  <2>1. CASE q = p
    BY <2>1, <1>1, ClosesOne DEF LoadHolds, SaveHolds
  <2>2. CASE q # p
    <3>1. at[q] # "save"
      BY <2>2, <1>1 DEF FilesHold, SaveHolds
    <3>2. SaveHolds(q)'
      BY <2>2, <1>1, <3>1, ClosesOne DEF SaveHolds
    <3>3. at[q] = "load" => file[q] # NoFile
      BY <1>1 DEF FilesTyped
    <3>4. LoadHolds(q)'
      BY <2>2, <1>1, <1>2, <1>3, <3>3, ClosesOne DEF FilesHold, LoadHolds
    <3> QED
      BY <3>2, <3>4
  <2> QED
    BY <2>1, <2>2
<1> QED
  BY <1>4, <1>6, <1>7 DEF FilesHold

LEMMA FilesStep == FileInv /\ [FileNext]_fileVars => FileInv'
<1> SUFFICES ASSUME FileInv, [FileNext]_fileVars, ~ overlapped'
             PROVE  FilesHold'
  BY DEF FileInv
<1>1. CASE UNCHANGED fileVars
  BY <1>1 DEF fileVars, FileInv, FilesHold, FilesTyped, StateHolds, LoadHolds, SaveHolds,
              Begins
<1>2. ASSUME NEW p \in Processes,
             \/ OpenState(p) \/ Read(p) \/ EndLoad(p) \/ OpenTemp(p)
             \/ Write(p) \/ Replace(p) \/ ReplaceFails(p) \/ Stop(p)
      PROVE  FilesHold'
  <2>1. ~ overlapped
    BY <1>2 DEF OpenState, Read, EndLoad, OpenTemp, Write, Replace, ReplaceFails, Stop
  <2>2. FilesHold
    BY <2>1 DEF FileInv
  <2>3. CASE OpenState(p)
    BY <2>2, <2>3, OpenStateKeeps
  <2>4. CASE Read(p)
    BY <2>2, <2>4, ReadKeeps
  <2>5. CASE EndLoad(p) \/ ReplaceFails(p) \/ Stop(p)
    <3>1. Closes(p) /\ UNCHANGED <<names, data, saves, current>>
      BY <2>5 DEF EndLoad, ReplaceFails, Stop
    <3> QED
      BY <2>2, <3>1, CloseKeeps
  <2>6. CASE OpenTemp(p)
    BY <2>2, <2>6, OpenTempKeeps
  <2>7. CASE Write(p)
    BY <2>2, <2>7, WriteKeeps
  <2>8. CASE Replace(p)
    BY <2>2, <2>8, ReplaceKeeps
  <2> QED
    BY <1>2, <2>3, <2>4, <2>5, <2>6, <2>7, <2>8
<1> QED
  BY <1>1, <1>2 DEF FileNext

(* save_state is atomic, however many pieces it writes and whenever it is  *)
(* cut short, and so is load_state, as long as no two processes are in     *)
(* save_state at once: Load and Save of EngineCycle may be single steps.   *)
THEOREM StateFileIsAtomic == FileSpec => []StateFileAtomic
<1>1. FileInv => StateFileAtomic
  <2> SUFFICES ASSUME FilesHold
               PROVE  /\ names["state"] # NoFile =>
                            data[names["state"]] = Content(current)
                      /\ \A p \in Processes :
                            at[p] = "load" /\ AtEnd(p) => moved[p] = Content(version[p])
    BY DEF FileInv, StateFileAtomic
  <2>1. ASSUME NEW p \in Processes, at[p] = "load", AtEnd(p)
        PROVE  moved[p] = Content(version[p])
    <3>1. /\ moved[p] \in Seq(Pieces) /\ version[p] \in Versions
          /\ data[file[p]] = Content(version[p]) /\ Begins(moved[p], version[p])
      BY <2>1 DEF FilesHold, FilesTyped, LoadHolds
    <3>2. Len(moved[p]) >= version[p].pieces
      BY <2>1, <3>1, ContentTyped DEF AtEnd
    <3> QED
      BY <3>1, <3>2, WholeVersion
  <2> QED
    BY <2>1 DEF FilesHold, StateHolds
<1> QED
  BY FilesInit, FilesStep, <1>1, PTL DEF FileSpec

=============================================================================
