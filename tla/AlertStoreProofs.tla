-------------------------- MODULE AlertStoreProofs --------------------------
(***************************************************************************)
(* Proofs about AlertStore for any set of engines and alerts, any batches  *)
(* and any number of interventions.                                        *)
(***************************************************************************)
EXTENDS AlertStore, SequenceTheorems, TLAPS

-----------------------------------------------------------------------------
(* Prefixes and keys of sequences.                                         *)

(* IsPrefix(s, t) position by position.                                    *)
LEMMA PrefixByIndex ==
    ASSUME NEW s \in Seq(Alerts), NEW t \in Seq(Alerts)
    PROVE  IsPrefix(s, t) <=>
              /\ Len(s) <= Len(t)
              /\ \A i \in 1 .. Len(s) : s[i] = t[i]
  <1>1. CASE Len(s) <= Len(t)
    <2>1. SubSeq(s, 1, Len(s)) = s
      BY SubSeqFull
    <2>2. /\ SubSeq(t, 1, Len(s)) \in Seq(Alerts)
          /\ Len(SubSeq(t, 1, Len(s))) = Len(s)
          /\ \A i \in 1 .. Len(s) : SubSeq(t, 1, Len(s))[i] = t[i]
      BY <1>1, LenProperties
    <2>3. s = SubSeq(t, 1, Len(s)) <=> \A i \in 1 .. Len(s) : s[i] = t[i]
      BY <2>2, SeqEqual
    <2>. QED
      BY <1>1, <2>1, <2>3 DEF IsPrefix
  <1>2. CASE ~(Len(s) <= Len(t))
    BY <1>2 DEF IsPrefix
  <1>. QED
    BY <1>1, <1>2

LEMMA PrefixReflexive ==
    ASSUME NEW s \in Seq(Alerts)
    PROVE  IsPrefix(s, s)
  BY PrefixByIndex, LenProperties

LEMMA PrefixTransitive ==
    ASSUME NEW s \in Seq(Alerts), NEW t \in Seq(Alerts), NEW u \in Seq(Alerts),
           IsPrefix(s, t), IsPrefix(t, u)
    PROVE  IsPrefix(s, u)
  BY PrefixByIndex, LenProperties

LEMMA PrefixAppend ==
    ASSUME NEW s \in Seq(Alerts), NEW t \in Seq(Alerts), NEW x \in Alerts,
           IsPrefix(s, t)
    PROVE  IsPrefix(s, Append(t, x))
  <1> DEFINE u == Append(t, x)
  <1>1. /\ u \in Seq(Alerts)
        /\ Len(u) = Len(t) + 1
        /\ \A i \in 1 .. Len(t) : u[i] = t[i]
    BY AppendProperties
  <1>2. Len(s) \in Nat /\ Len(t) \in Nat
    BY LenProperties
  <1>3. /\ Len(s) <= Len(t)
        /\ \A i \in 1 .. Len(s) : s[i] = t[i]
    BY PrefixByIndex
  <1> HIDE DEF u
  <1>4. IsPrefix(s, u)
    BY <1>1, <1>2, <1>3, PrefixByIndex
  <1>. QED
    BY <1>4 DEF u

(* A restored backup is a prefix of the list it backs up.                  *)
LEMMA PrefixSubSeq ==
    ASSUME NEW s \in Seq(Alerts), NEW n \in 0 .. Len(s)
    PROVE  /\ SubSeq(s, 1, n) \in Seq(Alerts)
           /\ IsPrefix(SubSeq(s, 1, n), s)
  <1> DEFINE u == SubSeq(s, 1, n)
  <1>1. Len(s) \in Nat
    BY LenProperties
  <1>2. \A i \in 1 .. n : s[i] \in Alerts
    BY <1>1, ElementOfSeq
  <1>3. /\ u \in Seq(Alerts)
        /\ Len(u) = n
        /\ \A i \in 1 .. n : u[i] = s[i]
    BY <1>1, <1>2, SubSeqProperties
  <1> HIDE DEF u
  <1>4. IsPrefix(u, s)
    BY <1>1, <1>3, PrefixByIndex
  <1>. QED
    BY <1>3, <1>4 DEF u

LEMMA KeysOfPrefix ==
    ASSUME NEW s \in Seq(Alerts), NEW t \in Seq(Alerts), IsPrefix(s, t)
    PROVE  KeysIn(s) \subseteq KeysIn(t)
  <1>1. /\ Len(s) <= Len(t)
        /\ \A i \in 1 .. Len(s) : s[i] = t[i]
    BY PrefixByIndex
  <1>. QED
    BY <1>1, LenProperties DEF KeysIn

LEMMA DistinctKeysOfPrefix ==
    ASSUME NEW s \in Seq(Alerts), NEW t \in Seq(Alerts),
           IsPrefix(s, t), DistinctKeys(t)
    PROVE  DistinctKeys(s)
  <1>1. /\ Len(s) <= Len(t)
        /\ \A i \in 1 .. Len(s) : s[i] = t[i]
    BY PrefixByIndex
  <1>. QED
    BY <1>1, LenProperties DEF DistinctKeys

(* The step of the deduplication loop.                                     *)
LEMMA DistinctKeysAppend ==
    ASSUME NEW s \in Seq(Alerts), NEW a \in Alerts,
           DistinctKeys(s), KeyOf[a] \notin KeysIn(s)
    PROVE  DistinctKeys(Append(s, a))
  <1>1. /\ Append(s, a) \in Seq(Alerts)
        /\ DOMAIN Append(s, a) = 1 .. Len(s) + 1
        /\ \A i \in 1 .. Len(s) : Append(s, a)[i] = s[i]
        /\ Append(s, a)[Len(s) + 1] = a
    BY AppendProperties, LenProperties
  <1>2. DOMAIN s = 1 .. Len(s) /\ Len(s) \in Nat
    BY LenProperties
  <1>. QED
    BY <1>1, <1>2 DEF DistinctKeys, KeysIn

LEMMA KeysOfAppend ==
    ASSUME NEW s \in Seq(Alerts), NEW a \in Alerts
    PROVE  /\ KeysIn(s) \subseteq KeysIn(Append(s, a))
           /\ KeyOf[a] \in KeysIn(Append(s, a))
  <1>1. /\ DOMAIN Append(s, a) = 1 .. Len(s) + 1
        /\ \A i \in 1 .. Len(s) : Append(s, a)[i] = s[i]
        /\ Append(s, a)[Len(s) + 1] = a
    BY AppendProperties, LenProperties
  <1>2. DOMAIN s = 1 .. Len(s) /\ Len(s) \in Nat
    BY LenProperties
  <1>. QED
    BY <1>1, <1>2 DEF KeysIn

(* Removing an entry keeps the keys of the others distinct.                *)
LEMMA RemoveAtDistinct ==
    ASSUME NEW s \in Seq(Alerts), NEW i \in DOMAIN s, DistinctKeys(s)
    PROVE  /\ RemoveAt(s, i) \in Seq(Alerts)
           /\ DistinctKeys(RemoveAt(s, i))
  <1> DEFINE front == SubSeq(s, 1, i - 1)
             back  == SubSeq(s, i + 1, Len(s))
             rest  == front \o back
  <1>1. Len(s) \in Nat /\ i \in 1 .. Len(s) /\ DOMAIN s = 1 .. Len(s)
    BY LenProperties
  <1>2. /\ front \in Seq(Alerts)
        /\ Len(front) = i - 1
        /\ \A j \in 1 .. i - 1 : front[j] = s[j]
    BY <1>1
  <1>3. /\ back \in Seq(Alerts)
        /\ Len(back) = Len(s) - i
        /\ \A j \in 1 .. Len(s) - i : back[j] = s[i + j]
    BY <1>1
  <1> HIDE DEF front, back
  <1>4. /\ rest \in Seq(Alerts)
        /\ Len(rest) = Len(front) + Len(back)
        /\ \A j \in 1 .. Len(front) + Len(back) : rest[j] =
              IF j <= Len(front) THEN front[j] ELSE back[j - Len(front)]
    BY <1>2, <1>3, ConcatProperties
  <1>5. RemoveAt(s, i) = rest
    BY DEF RemoveAt, front, back
  <1> HIDE DEF rest
  <1>6. DOMAIN rest = 1 .. Len(s) - 1
    BY <1>1, <1>2, <1>3, <1>4, LenProperties
  <1>7. \A j \in 1 .. Len(s) - 1 :
           rest[j] = IF j < i THEN s[j] ELSE s[j + 1]
    <2> TAKE j \in 1 .. Len(s) - 1
    <2>1. CASE j < i
      BY <1>1, <1>2, <1>3, <1>4, <2>1
    <2>2. CASE ~(j < i)
      <3>1. rest[j] = back[j - (i - 1)]
        BY <1>1, <1>2, <1>3, <1>4, <2>2
      <3>2. j - (i - 1) \in 1 .. Len(s) - i
        BY <1>1, <2>2
      <3>3. back[j - (i - 1)] = s[i + (j - (i - 1))]
        BY <1>3, <3>2
      <3>4. i + (j - (i - 1)) = j + 1
        BY <1>1
      <3>. QED
        BY <2>2, <3>1, <3>3, <3>4
    <2>. QED
      BY <2>1, <2>2
  <1>8. DistinctKeys(rest)
    <2> SUFFICES ASSUME NEW j \in 1 .. Len(s) - 1, NEW k \in 1 .. Len(s) - 1,
                        KeyOf[rest[j]] = KeyOf[rest[k]]
                 PROVE  j = k
      BY <1>6 DEF DistinctKeys
    <2> DEFINE from(m) == IF m < i THEN m ELSE m + 1
    <2>1. rest[j] = s[from(j)] /\ rest[k] = s[from(k)]
      BY <1>7
    <2>2. from(j) \in DOMAIN s /\ from(k) \in DOMAIN s
      BY <1>1
    <2>3. from(j) = from(k)
      BY <2>1, <2>2 DEF DistinctKeys
    <2>. QED
      BY <1>1, <2>3
  <1>. QED
    BY <1>4, <1>5, <1>8

-----------------------------------------------------------------------------
(* Type correctness.                                                       *)

LEMMA LeaveTypes ==
    ASSUME TypeOK, NEW e \in Engines, NEW p \in Points, Leave(e, p)
    PROVE  /\ pc' \in [Engines -> Points]
           /\ batch' \in [Engines -> Seq(Alerts)]
           /\ next' \in [Engines -> Nat \ {0}]
           /\ merged' \in [Engines -> Seq(Alerts)]
  BY DEF TypeOK, Leave

LEMMA InitTypeOK == Init => TypeOK
  BY DEF Init, TypeOK, FileStates, TmpContents, NoTmp, Points

(* Each step keeps the types; the sequence operators are the only ones     *)
(* that need more than the definition of the action.                       *)
LEMMA NextTypeOK == TypeOK /\ [Next]_vars => TypeOK'
  <1> SUFFICES ASSUME TypeOK, [Next]_vars
               PROVE  TypeOK'
    OBVIOUS
  <1> USE DEF storeVars, engineVars, Points, Inside, FileStates, Unreadable
  <1>1. ASSUME NEW e \in Engines, CheckStore(e)
        PROVE  TypeOK'
    BY <1>1 DEF TypeOK, CheckStore, RaiseStoreError
  <1>2. ASSUME NEW e \in Engines, Begin(e)
        PROVE  TypeOK'
    <2>1. PICK b \in SeqOf(Alerts, MaxBatch) : batch' = [batch EXCEPT ![e] = b]
      BY <1>2 DEF Begin
    <2>2. b \in Seq(Alerts)
      BY <2>1, BoundAssumption DEF SeqOf
    <2>. QED
      BY <1>2, <2>1, <2>2 DEF TypeOK, Begin
  <1>3. ASSUME NEW e \in Engines, Acquire(e)
        PROVE  TypeOK'
    BY <1>3 DEF TypeOK, Acquire
  <1>4. ASSUME NEW e \in Engines, Load(e)
        PROVE  TypeOK'
    BY <1>4 DEF TypeOK, Load
  <1>5. ASSUME NEW e \in Engines, LoadFails(e)
        PROVE  TypeOK'
    BY <1>5, LeaveTypes DEF TypeOK, LoadFails, RaiseStoreError, ReleaseIfHeld
  <1>6. ASSUME NEW e \in Engines, Deduplicate(e)
        PROVE  TypeOK'
    <2>1. batch[e][next[e]] \in Alerts
      BY <1>6, ElementOfSeq DEF TypeOK, Deduplicate
    <2>2. Append(merged[e], batch[e][next[e]]) \in Seq(Alerts)
      BY <2>1, AppendProperties DEF TypeOK
    <2>3. merged' \in [Engines -> Seq(Alerts)]
      BY <1>6, <2>2 DEF TypeOK, Deduplicate
    <2>4. next' \in [Engines -> Nat \ {0}]
      BY <1>6 DEF TypeOK, Deduplicate
    <2>. QED
      BY <1>6, <2>3, <2>4 DEF TypeOK, Deduplicate
  <1>7. ASSUME NEW e \in Engines, Deduplicated(e)
        PROVE  TypeOK'
    BY <1>7 DEF TypeOK, Deduplicated
  <1>8. ASSUME NEW e \in Engines, WriteTmp(e)
        PROVE  TypeOK'
    BY <1>8 DEF TypeOK, WriteTmp, TmpContents
  <1>9. ASSUME NEW e \in Engines, FsyncTmp(e)
        PROVE  TypeOK'
    BY <1>9 DEF TypeOK, FsyncTmp, TmpContents
  <1>10. ASSUME NEW e \in Engines, Replace(e)
         PROVE  TypeOK'
    BY <1>10 DEF TypeOK, Replace, TmpContents, NoTmp
  <1>11. ASSUME NEW e \in Engines, SaveFails(e)
         PROVE  TypeOK'
    BY <1>11, LeaveTypes, SMTT(30) DEF TypeOK, SaveFails, ReleaseIfHeld, TmpContents, NoTmp
  <1>12. ASSUME NEW e \in Engines, Unlock(e)
         PROVE  TypeOK'
    BY <1>12, LeaveTypes DEF TypeOK, Unlock, ReleaseIfHeld
  <1>13. ASSUME NEW e \in Engines, Crash(e)
         PROVE  TypeOK'
    BY <1>13, LeaveTypes DEF TypeOK, Crash, ReleaseIfHeld
  <1>14. CASE Damage
    BY <1>14 DEF TypeOK, Damage
  <1>15. CASE RestoreBackup
    <2>1. stored' \in Seq(Alerts)
      BY <1>15, PrefixSubSeq DEF TypeOK, RestoreBackup
    <2>. QED
      BY <1>15, <2>1 DEF TypeOK, RestoreBackup
  <1>16. CASE RejectEntry
    <2>1. stored' \in Seq(Alerts)
      BY <1>16 DEF TypeOK, RejectEntry, RemoveAt
    <2>. QED
      BY <1>16, <2>1 DEF TypeOK, RejectEntry
  <1>17. CASE UNCHANGED vars
    BY <1>17 DEF TypeOK, vars
  <1>. QED
    BY <1>1, <1>2, <1>3, <1>4, <1>5, <1>6, <1>7, <1>8, <1>9, <1>10, <1>11,
       <1>12, <1>13, <1>14, <1>15, <1>16, <1>17 DEF Next, EngineStep

(* TypeOK: every variable of the store keeps its type.                     *)
THEOREM TypeCorrect == Spec => []TypeOK
  BY InitTypeOK, NextTypeOK, PTL DEF Spec

-----------------------------------------------------------------------------
(* The lock.                                                               *)

(* An engine that leaves for a point outside the merge gives up the lock,  *)
(* and nobody else's lock is touched.                                      *)
LEMMA LeaveReleases ==
    ASSUME TypeOK, MutualExclusion, NEW e \in Engines,
           NEW p \in Points \ Inside, Leave(e, p), ReleaseIfHeld(e)
    PROVE  MutualExclusion'
  BY EngineAssumption DEF TypeOK, MutualExclusion, Leave, ReleaseIfHeld

LEMMA InitMutualExclusion == Init => MutualExclusion
  BY EngineAssumption DEF Init, MutualExclusion, Inside

LEMMA NextMutualExclusion ==
    TypeOK /\ MutualExclusion /\ [Next]_vars => MutualExclusion'
  <1> SUFFICES ASSUME TypeOK, MutualExclusion, [Next]_vars
               PROVE  MutualExclusion'
    OBVIOUS
  <1>0. "idle" \in Points \ Inside /\ "refused" \in Points \ Inside
    BY DEF Points, Inside
  <1>1. ASSUME NEW e \in Engines, CheckStore(e)
        PROVE  MutualExclusion'
    BY <1>1 DEF TypeOK, MutualExclusion, CheckStore, Inside
  <1>2. ASSUME NEW e \in Engines, Begin(e)
        PROVE  MutualExclusion'
    BY <1>2 DEF TypeOK, MutualExclusion, Begin, Inside
  <1>3. ASSUME NEW e \in Engines, Acquire(e)
        PROVE  MutualExclusion'
    BY <1>3, EngineAssumption DEF TypeOK, MutualExclusion, Acquire, Inside
  <1>4. ASSUME NEW e \in Engines, Load(e)
        PROVE  MutualExclusion'
    BY <1>4 DEF TypeOK, MutualExclusion, Load, Inside
  <1>5. ASSUME NEW e \in Engines, LoadFails(e)
        PROVE  MutualExclusion'
    BY <1>0, <1>5, LeaveReleases DEF LoadFails
  <1>6. ASSUME NEW e \in Engines, Deduplicate(e)
        PROVE  MutualExclusion'
    BY <1>6 DEF MutualExclusion, Deduplicate
  <1>7. ASSUME NEW e \in Engines, Deduplicated(e)
        PROVE  MutualExclusion'
    BY <1>7 DEF TypeOK, MutualExclusion, Deduplicated, Inside
  <1>8. ASSUME NEW e \in Engines, WriteTmp(e) \/ FsyncTmp(e) \/ Replace(e)
        PROVE  MutualExclusion'
    BY <1>8 DEF TypeOK, MutualExclusion, WriteTmp, FsyncTmp, Replace, Inside
  <1>9. ASSUME NEW e \in Engines, SaveFails(e)
        PROVE  MutualExclusion'
    BY <1>0, <1>9, LeaveReleases DEF SaveFails
  <1>10. ASSUME NEW e \in Engines, Unlock(e) \/ Crash(e)
         PROVE  MutualExclusion'
    BY <1>0, <1>10, LeaveReleases DEF Unlock, Crash
  <1>11. CASE Damage \/ RestoreBackup \/ RejectEntry
    BY <1>11 DEF MutualExclusion, Damage, RestoreBackup, RejectEntry, engineVars
  <1>12. CASE UNCHANGED vars
    BY <1>12 DEF MutualExclusion, vars
  <1>. QED
    BY <1>1, <1>2, <1>3, <1>4, <1>5, <1>6, <1>7, <1>8, <1>9, <1>10, <1>11,
       <1>12 DEF Next, EngineStep

(* MutualExclusion: whatever engines start and die, at most one of them is *)
(* inside the read-modify-write of merge_and_save.                         *)
THEOREM StoreIsLocked == Spec => []MutualExclusion
  BY InitMutualExclusion, NextMutualExclusion, TypeCorrect, PTL DEF Spec

-----------------------------------------------------------------------------
(* The content of the store.                                               *)

(* The induction hypothesis.                                               *)
StoreInvariant ==
    /\ TypeOK
    /\ MutualExclusion
    /\ UniqueKeys
    /\ MergeInvariant

LEMMA InitStoreInvariant == Init => StoreInvariant
  <1> SUFFICES ASSUME Init
               PROVE  StoreInvariant
    OBVIOUS
  <1>1. UniqueKeys
    BY DEF Init, UniqueKeys, DistinctKeys
  <1>2. MergeInvariant
    BY DEF Init, MergeInvariant, Building
  <1>. QED
    BY <1>1, <1>2, InitTypeOK, InitMutualExclusion DEF StoreInvariant

(* Only one engine is building a list.                                     *)
LEMMA OneBuilder ==
    ASSUME MutualExclusion, NEW e \in Engines, NEW f \in Engines,
           pc[e] \in Inside, pc[f] \in Inside
    PROVE  e = f
  BY DEF MutualExclusion

(* A step of e that leaves the file alone keeps what the other engines     *)
(* know; if it also ends e's merge, it keeps the whole invariant.          *)
LEMMA LeaveKeepsMergeInvariant ==
    ASSUME StoreInvariant, NEW e \in Engines, NEW p \in Points \ Inside,
           Leave(e, p), UNCHANGED stored,
           UNCHANGED tmp \/ pc[e] \in Inside
    PROVE  UniqueKeys' /\ MergeInvariant'
  <1>1. UniqueKeys'
    BY DEF StoreInvariant, UniqueKeys, DistinctKeys
  <1>2. ASSUME NEW f \in Engines, f # e
        PROVE  /\ pc'[f] = pc[f] /\ batch'[f] = batch[f]
               /\ next'[f] = next[f] /\ merged'[f] = merged[f]
    BY <1>2 DEF StoreInvariant, TypeOK, Leave
  <1>3. ASSUME NEW f \in Engines, f # e, pc[f] \in Building
        PROVE  UNCHANGED tmp
    BY <1>3, OneBuilder DEF StoreInvariant, Building, Inside
  <1>4. pc'[e] \notin Building /\ next'[e] = 1
    BY DEF StoreInvariant, TypeOK, Leave, Building, Inside
  <1>5. MergeInvariant'
    BY <1>2, <1>3, <1>4
       DEF StoreInvariant, MergeInvariant, Building, Inside, KeysIn, DistinctKeys
  <1>. QED
    BY <1>1, <1>5

LEMMA NextStoreInvariant == StoreInvariant /\ [Next]_vars => StoreInvariant'
  <1> SUFFICES ASSUME StoreInvariant, [Next]_vars
               PROVE  UniqueKeys' /\ MergeInvariant'
    BY NextTypeOK, NextMutualExclusion DEF StoreInvariant
  <1> USE DEF storeVars, engineVars, Building
  <1>0. /\ "idle" \in Points \ Inside /\ "refused" \in Points \ Inside
        /\ TypeOK /\ MutualExclusion /\ UniqueKeys /\ MergeInvariant
    BY DEF Points, Inside, StoreInvariant
  <1>1. ASSUME NEW e \in Engines, CheckStore(e)
        PROVE  UniqueKeys' /\ MergeInvariant'
    BY <1>0, <1>1, SMTT(30) DEF TypeOK, UniqueKeys, MergeInvariant, CheckStore,
       RaiseStoreError, DistinctKeys, KeysIn
  <1>2. ASSUME NEW e \in Engines, Begin(e)
        PROVE  UniqueKeys' /\ MergeInvariant'
    BY <1>0, <1>2 DEF TypeOK, UniqueKeys, MergeInvariant, Begin,
       DistinctKeys, KeysIn
  <1>3. ASSUME NEW e \in Engines, Acquire(e)
        PROVE  UniqueKeys' /\ MergeInvariant'
    BY <1>0, <1>3 DEF TypeOK, UniqueKeys, MergeInvariant, Acquire,
       DistinctKeys, KeysIn
  <1>4. ASSUME NEW e \in Engines, Load(e)
        PROVE  UniqueKeys' /\ MergeInvariant'
    <2>1. IsPrefix(stored, stored)
      BY <1>0, PrefixReflexive DEF TypeOK
    <2>2. merged'[e] = stored /\ next[e] = 1
      BY <1>0, <1>4 DEF TypeOK, MergeInvariant, Load
    <2>. QED
      BY <1>0, <1>4, <2>1, <2>2 DEF TypeOK, UniqueKeys, MergeInvariant, Load,
         DistinctKeys, KeysIn
  <1>5. ASSUME NEW e \in Engines, LoadFails(e)
        PROVE  UniqueKeys' /\ MergeInvariant'
    BY <1>0, <1>5, LeaveKeepsMergeInvariant DEF LoadFails, RaiseStoreError
  <1>6. ASSUME NEW e \in Engines, Deduplicate(e)
        PROVE  UniqueKeys' /\ MergeInvariant'
    <2> DEFINE alert == batch[e][next[e]]
               old   == merged[e]
               new   == merged'[e]
    <2>1. /\ alert \in Alerts
          /\ old \in Seq(Alerts) /\ stored \in Seq(Alerts)
          /\ IsPrefix(stored, old) /\ DistinctKeys(old)
          /\ \A i \in 1 .. next[e] - 1 :
                i \in DOMAIN batch[e] => KeyOf[batch[e][i]] \in KeysIn(old)
      BY <1>0, <1>6, ElementOfSeq DEF TypeOK, MergeInvariant, Deduplicate
    <2>2. /\ new = IF KeyOf[alert] \in KeysIn(old)
                   THEN old ELSE Append(old, alert)
          /\ next'[e] = next[e] + 1
          /\ next[e] \in Nat
      BY <1>0, <1>6 DEF TypeOK, Deduplicate
    <2> HIDE DEF alert, old, new
    <2>3. IsPrefix(stored, new)
      BY <2>1, <2>2, PrefixAppend
    <2>4. DistinctKeys(new)
      BY <2>1, <2>2, DistinctKeysAppend
    <2>5. KeysIn(old) \subseteq KeysIn(new) /\ KeyOf[alert] \in KeysIn(new)
      BY <2>1, <2>2, KeysOfAppend
    <2>6. \A i \in 1 .. next'[e] - 1 :
             i \in DOMAIN batch[e] => KeyOf[batch[e][i]] \in KeysIn(new)
      <3> SUFFICES ASSUME NEW i \in 1 .. next'[e] - 1, i \in DOMAIN batch[e]
                   PROVE  KeyOf[batch[e][i]] \in KeysIn(new)
        OBVIOUS
      <3>1. CASE i = next[e]
        BY <2>5, <3>1 DEF alert
      <3>2. CASE i # next[e]
        BY <2>1, <2>2, <2>5, <3>2
      <3>. QED
        BY <3>1, <3>2
    <2>7. pc' = pc /\ batch' = batch /\ stored' = stored /\ tmp' = tmp
          /\ pc[e] = "dedup"
      BY <1>6 DEF Deduplicate
    <2>8. \A f \in Engines : f # e =>
             next'[f] = next[f] /\ merged'[f] = merged[f]
      BY <1>0, <1>6 DEF TypeOK, Deduplicate
    <2>9. MergeInvariant'
      BY <1>0, <2>3, <2>4, <2>6, <2>7, <2>8
         DEF MergeInvariant, KeysIn, DistinctKeys, new
    <2>. QED
      BY <1>0, <2>7, <2>9 DEF UniqueKeys, DistinctKeys
  <1>7. ASSUME NEW e \in Engines, Deduplicated(e)
        PROVE  UniqueKeys' /\ MergeInvariant'
    BY <1>0, <1>7 DEF TypeOK, UniqueKeys, MergeInvariant, Deduplicated,
       DistinctKeys, KeysIn
  <1>8. ASSUME NEW e \in Engines, WriteTmp(e) \/ FsyncTmp(e)
        PROVE  UniqueKeys' /\ MergeInvariant'
    <2>1. ASSUME NEW f \in Engines, f # e
          PROVE  pc[f] \notin Building
      BY <1>0, <1>8, <2>1, OneBuilder DEF WriteTmp, FsyncTmp, Inside
    <2>2. /\ pc[e] \in {"write", "fsync"} /\ pc'[e] \in {"fsync", "replace"}
          /\ \A f \in Engines : f # e => pc'[f] = pc[f]
          /\ stored' = stored /\ batch' = batch
          /\ next' = next /\ merged' = merged
      BY <1>0, <1>8 DEF TypeOK, WriteTmp, FsyncTmp
    <2>3. pc'[e] = "replace" =>
             tmp' = [status |-> "complete", entries |-> merged[e]]
      BY <1>0, <1>8 DEF TypeOK, WriteTmp, FsyncTmp
    <2>4. MergeInvariant'
      BY <1>0, <2>1, <2>2, <2>3 DEF MergeInvariant, DistinctKeys, KeysIn
    <2>. QED
      BY <1>0, <2>2, <2>4 DEF UniqueKeys, DistinctKeys
  <1>9. ASSUME NEW e \in Engines, Replace(e)
        PROVE  UniqueKeys' /\ MergeInvariant'
    <2>1. ASSUME NEW f \in Engines, f # e
          PROVE  pc[f] \notin Building
      BY <1>0, <1>9, <2>1, OneBuilder DEF Replace, Inside
    <2>2. stored' = merged[e] /\ DistinctKeys(merged[e])
      BY <1>0, <1>9 DEF MergeInvariant, Replace
    <2>. QED
      BY <1>0, <1>9, <2>1, <2>2 DEF TypeOK, UniqueKeys, MergeInvariant,
         Replace, DistinctKeys, KeysIn
  <1>10. ASSUME NEW e \in Engines, SaveFails(e)
         PROVE  UniqueKeys' /\ MergeInvariant'
    BY <1>0, <1>10, LeaveKeepsMergeInvariant DEF SaveFails, Inside
  <1>11. ASSUME NEW e \in Engines, Unlock(e) \/ Crash(e)
         PROVE  UniqueKeys' /\ MergeInvariant'
    BY <1>0, <1>11, LeaveKeepsMergeInvariant DEF Unlock, Crash
  <1>12. CASE Damage
    BY <1>0, <1>12 DEF UniqueKeys, MergeInvariant, Damage, DistinctKeys, KeysIn
  <1>13. CASE RestoreBackup
    <2>1. stored' \in Seq(Alerts) /\ IsPrefix(stored', stored)
      BY <1>0, <1>13, PrefixSubSeq DEF TypeOK, RestoreBackup
    <2>2. DistinctKeys(stored')
      BY <1>0, <2>1, DistinctKeysOfPrefix DEF TypeOK, UniqueKeys
    <2>3. \A e \in Engines : IsPrefix(stored, merged[e])
                                => IsPrefix(stored', merged[e])
      BY <1>0, <2>1, PrefixTransitive DEF TypeOK
    <2>. QED
      BY <1>0, <1>13, <2>2, <2>3
         DEF UniqueKeys, MergeInvariant, RestoreBackup, DistinctKeys, KeysIn
  <1>14. CASE RejectEntry
    <2>1. \A e \in Engines : pc[e] \notin Inside
      BY <1>0, <1>14, EngineAssumption DEF MutualExclusion, RejectEntry
    <2>2. DistinctKeys(stored')
      BY <1>0, <1>14, RemoveAtDistinct DEF TypeOK, UniqueKeys, RejectEntry
    <2>. QED
      BY <1>0, <1>14, <2>1, <2>2
         DEF UniqueKeys, MergeInvariant, RejectEntry, DistinctKeys, Inside
  <1>15. CASE UNCHANGED vars
    BY <1>0, <1>15 DEF UniqueKeys, MergeInvariant, vars, DistinctKeys, KeysIn
  <1>. QED
    BY <1>1, <1>2, <1>3, <1>4, <1>5, <1>6, <1>7, <1>8, <1>9, <1>10, <1>11,
       <1>12, <1>13, <1>14, <1>15 DEF Next, EngineStep

LEMMA StoreInvariantHolds == Spec => []StoreInvariant
  BY InitStoreInvariant, NextStoreInvariant, PTL DEF Spec

(* UniqueKeys: alerts.json never lists a deduplication key twice.          *)
THEOREM StoreHasUniqueKeys == Spec => []UniqueKeys
  BY StoreInvariantHolds, PTL DEF StoreInvariant

(* MergeInvariant: the list being built extends the file as it is now.     *)
THEOREM MergesExtendTheStore == Spec => []MergeInvariant
  BY StoreInvariantHolds, PTL DEF StoreInvariant

-----------------------------------------------------------------------------
(* Steps.                                                                  *)

(* What os.replace does to the store: it publishes the finished list.      *)
LEMMA ReplacePublishes ==
    ASSUME StoreInvariant, NEW e \in Engines, Replace(e)
    PROVE  /\ file' = "list"
           /\ stored' = merged[e]
           /\ faults' = faults
           /\ IsPrefix(stored, stored')
           /\ DistinctKeys(stored')
           /\ KeysIn(batch[e]) \subseteq KeysIn(stored')
  <1>1. /\ pc[e] = "replace"
        /\ tmp = [status |-> "complete", entries |-> merged[e]]
        /\ IsPrefix(stored, merged[e]) /\ DistinctKeys(merged[e])
        /\ next[e] > Len(batch[e])
        /\ \A i \in 1 .. next[e] - 1 :
              i \in DOMAIN batch[e] => KeyOf[batch[e][i]] \in KeysIn(merged[e])
    BY DEF StoreInvariant, MergeInvariant, Building, Replace
  <1>2. /\ batch[e] \in Seq(Alerts) /\ next[e] \in Nat
        /\ DOMAIN batch[e] = 1 .. Len(batch[e]) /\ Len(batch[e]) \in Nat
    BY LenProperties DEF StoreInvariant, TypeOK
  <1>3. \A i \in DOMAIN batch[e] : i \in 1 .. next[e] - 1
    BY <1>1, <1>2
  <1>4. KeysIn(batch[e]) \subseteq KeysIn(merged[e])
    BY <1>1, <1>3 DEF KeysIn
  <1>. QED
    BY <1>1, <1>4 DEF Replace

(* Every other step of an engine leaves the content of the store alone.    *)
LEMMA OtherStepsKeepStore ==
    ASSUME NEW e \in Engines, EngineStep(e) \/ Crash(e), ~Replace(e)
    PROVE  UNCHANGED <<file, stored, malformed, faults>>
  BY DEF EngineStep, CheckStore, Begin, Acquire, Load, LoadFails, Deduplicate,
     Deduplicated, WriteTmp, FsyncTmp, SaveFails, Unlock, Crash,
     RaiseStoreError, storeVars

(* BatchPersisted: when a merge has replaced the file, the keys of its     *)
(* batch and of everything saved before it are in the file.                *)
THEOREM MergePersistsItsBatch == Spec => BatchPersisted
  <1> DEFINE Persists ==
        \A e \in Engines : pc[e] = "replace" /\ pc'[e] = "unlock" =>
              /\ KeysIn(batch[e]) \subseteq KeysIn(stored')
              /\ KeysIn(stored) \subseteq KeysIn(stored')
  <1>1. StoreInvariant /\ StoreInvariant' /\ [Next]_vars => [Persists]_vars
    <2> SUFFICES ASSUME StoreInvariant, StoreInvariant', Next,
                        NEW e \in Engines, pc[e] = "replace", pc'[e] = "unlock"
                 PROVE  /\ KeysIn(batch[e]) \subseteq KeysIn(stored')
                        /\ KeysIn(stored) \subseteq KeysIn(stored')
      BY DEF Persists
    <2>1. Replace(e)
      <3>1. ASSUME NEW f \in Engines, EngineStep(f) \/ Crash(f)
            PROVE  Replace(e)
        <4>1. f = e
          BY <3>1 DEF StoreInvariant, TypeOK, EngineStep, CheckStore, Begin,
             Acquire, Load, LoadFails, Deduplicate, Deduplicated, WriteTmp,
             FsyncTmp, Replace, SaveFails, Unlock, Crash, Leave
        <4>2. pc[e] = "replace" /\ pc'[e] = "unlock" /\ pc \in [Engines -> Points]
          BY DEF StoreInvariant, TypeOK
        <4>. QED
          BY <3>1, <4>1, <4>2 DEF EngineStep, CheckStore, Begin, Acquire, Load,
             LoadFails, Deduplicate, Deduplicated, WriteTmp, FsyncTmp,
             SaveFails, Unlock, Crash, Leave
      <3>2. CASE Damage \/ RestoreBackup \/ RejectEntry
        BY <3>2 DEF Damage, RestoreBackup, RejectEntry, engineVars
      <3>. QED
        BY <3>1, <3>2 DEF Next
    <2>2. /\ stored \in Seq(Alerts) /\ stored' \in Seq(Alerts)
          /\ IsPrefix(stored, stored')
          /\ KeysIn(batch[e]) \subseteq KeysIn(stored')
      BY <2>1, ReplacePublishes DEF StoreInvariant, TypeOK
    <2>. QED
      BY <2>2, KeysOfPrefix
  <1>. QED
    BY <1>1, StoreInvariantHolds, PTL DEF Spec, BatchPersisted

(* OnlyCompleteFiles: no engine step makes alerts.json unreadable.         *)
THEOREM EnginesNeverDamageTheStore == Spec => OnlyCompleteFiles
  <1>1. StoreInvariant /\ [Next]_vars =>
           [file' \in Unreadable => file \in Unreadable \/ faults' # faults]_vars
    <2> SUFFICES ASSUME StoreInvariant, Next, file' \in Unreadable
                 PROVE  file \in Unreadable \/ faults' # faults
      OBVIOUS
    <2>1. ASSUME NEW e \in Engines, EngineStep(e) \/ Crash(e)
          PROVE  file \in Unreadable
      <3>1. ~Replace(e)
        BY ReplacePublishes DEF Unreadable
      <3>. QED
        BY <2>1, <3>1, OtherStepsKeepStore
    <2>2. CASE Damage \/ RestoreBackup \/ RejectEntry
      BY <2>2 DEF Damage, RestoreBackup, RejectEntry, StoreInvariant, TypeOK
    <2>. QED
      BY <2>1, <2>2 DEF Next
  <1>. QED
    BY <1>1, StoreInvariantHolds, PTL DEF Spec, OnlyCompleteFiles

-----------------------------------------------------------------------------
(* ImplementsAlertLog: the store is an append-only log of alerts without   *)
(* duplicates, in spite of overlapping engines and crashes.                *)
THEOREM StoreImplementsAlertLog == Spec => ImplementsAlertLog
  <1>1. Init => Log!LogInit
    BY DEF Init, Log!LogInit, Unreadable
  <1>2. StoreInvariant /\ [Next]_vars => [Log!LogNext]_(Log!logVars)
    <2> SUFFICES ASSUME StoreInvariant, [Next]_vars
                 PROVE  Log!LogNext \/ UNCHANGED Log!logVars
      OBVIOUS
    <2>1. ASSUME NEW e \in Engines, EngineStep(e) \/ Crash(e)
          PROVE  Log!LogNext \/ UNCHANGED Log!logVars
      <3>1. CASE Replace(e)
        <4>1. /\ IsPrefix(stored, stored') /\ Log!DistinctKeys(stored')
              /\ file' \notin Unreadable /\ faults' = faults
          BY <3>1, ReplacePublishes DEF Log!DistinctKeys, DistinctKeys, Unreadable
        <4>. QED
          BY <4>1 DEF Log!LogNext, Log!Grow, IsPrefix, Log!IsPrefix
      <3>2. CASE ~Replace(e)
        BY <2>1, <3>2, OtherStepsKeepStore DEF Log!logVars, Unreadable
      <3>. QED
        BY <3>1, <3>2
    <2>2. CASE Damage
      BY <2>2 DEF Damage, Log!LogNext, Log!Damage, Unreadable
    <2>3. CASE RestoreBackup
      <3>1. IsPrefix(stored', stored)
        BY <2>3, PrefixSubSeq DEF RestoreBackup, StoreInvariant, TypeOK
      <3>2. /\ file \in Unreadable /\ file' \notin Unreadable
            /\ faults' = faults + 1
        BY <2>3 DEF RestoreBackup, Unreadable
      <3>. QED
        BY <3>1, <3>2 DEF Log!LogNext, Log!RestoreBackup, IsPrefix, Log!IsPrefix
    <2>4. CASE RejectEntry
      <3>1. /\ file = "list" /\ file' = file /\ faults' = faults + 1
            /\ \E i \in DOMAIN stored : stored' = RemoveAt(stored, i)
        BY <2>4 DEF RejectEntry
      <3>2. file \notin Unreadable
        BY <3>1 DEF Unreadable
      <3>. QED
        BY <3>1, <3>2 DEF Log!LogNext, Log!RejectEntry, RemoveAt, Log!RemoveAt
    <2>5. CASE UNCHANGED vars
      BY <2>5 DEF vars, Log!logVars, Unreadable
    <2>. QED
      BY <2>1, <2>2, <2>3, <2>4, <2>5 DEF Next
  <1>. QED
    BY <1>1, <1>2, StoreInvariantHolds, PTL
       DEF Spec, ImplementsAlertLog, Log!LogSpec

=============================================================================
