--------------------------- MODULE ObjectsProofs ---------------------------
(***************************************************************************)
(* The S3 collectors for any hosts, days and names: a readable file is     *)
(* read once, and the position passes only what was read, overtaken, left  *)
(* out by a sync or out of reach.                                          *)
(*                                                                         *)
(* Why the position is right needs what the syncs leave on the disk: with  *)
(* a readable file comes every one before it, but for the named exceptions.*)
(***************************************************************************)
EXTENDS Objects, WellFoundedInduction, TLAPS

LastName == PerDay * MaxDay

LEMMA LastNameType == LastName \in Nat
BY ObjectsBoundAssumption DEF LastName

LEMMA LeastNatural ==
    ASSUME NEW S, S \subseteq Nat, S # {}
    PROVE  \E x \in S : \A y \in S : x <= y
<1> DEFINE less == {ss \in Nat \X Nat : ss[1] < ss[2]}
<1>1. IsWellFoundedOn(less, Nat)
  BY NatLessThanWellFounded DEF OpToRel
<1>2. PICK x \in S : \A y \in S : <<y, x>> \notin less
  BY <1>1, WFMin
<1>3. ASSUME NEW y \in S
      PROVE  x <= y
  <2>1. x \in Nat /\ y \in Nat
    OBVIOUS
  <2>2. ~ (y < x)
    BY <1>2, <2>1
  <2> QED
    BY <2>1, <2>2
<1> QED
  BY <1>3

(* Max of a bounded set of numbers is what its name says.                  *)
LEMMA MaxFacts ==
    ASSUME NEW N \in Nat, NEW S, S \subseteq 0 .. N, S # {}
    PROVE  Max(S) \in S /\ \A x \in S : x <= Max(S)
<1> DEFINE T == {N - x : x \in S}
<1>1. \A x \in S : x \in 0 .. N
  OBVIOUS
<1>2. T \subseteq Nat /\ T # {}
  <2>1. \A x \in 0 .. N : N - x \in Nat
    OBVIOUS
  <2> QED
    BY <1>1, <2>1
<1>3. PICK t \in T : \A y \in T : t <= y
  BY <1>2, LeastNatural
<1>4. PICK m \in S : t = N - m
  OBVIOUS
<1>5. ASSUME NEW x \in S
      PROVE  m >= x
  <2>1. t <= N - x
    BY <1>3
  <2>2. m \in Int /\ x \in Int /\ N \in Int
    OBVIOUS
  <2>3. N - m <= N - x
    BY <2>1, <1>4
  <2> HIDE DEF T
  <2> QED
    BY <2>2, <2>3
<1>6. \E n \in S : \A x \in S : n >= x
  BY <1>5
<1> QED
  BY <1>6 DEF Max

-----------------------------------------------------------------------------

(* What was read is behind the position.                                   *)
ReadIsPassed == \A o \in read : o.content = "good" => o.name <= last[o.stream]

(* A position is the name of an object.                                    *)
PositionIsName == \A s \in Streams : last[s] > 0 => \E o \in Of(s, bucket) : o.name = last[s]

NamesAreUnique ==
    \A o, p \in bucket : o.stream = p.stream /\ o.name = p.name => o = p

(* A CloudTrail file of an earlier day is on the disk, read, or gone.      *)
DaysAreSettled ==
    \A o \in Of(CloudTrail, bucket) :
        /\ DayOf(o.name) <= today
        /\ DayOf(o.name) < today => o \in local \union packed \union read \union outOfReach

(* A readable file on the disk has every earlier one beside it.            *)
OnDiskInOrder(files, leftOut) ==
    \A n \in files, o \in bucket :
        /\ n.content = "good" /\ o.content = "good"
        /\ n.stream = o.stream /\ o.name < n.name
        => o \in files \union read \union overtaken \union leftOut \union outOfReach

PackedIsCloudTrail == \A o \in packed : o.stream = CloudTrail

ObjectsInvariant ==
    /\ ObjectsTypeOK
    /\ ReadIsPassed
    /\ PositionIsName
    /\ NamesAreUnique
    /\ PackedIsCloudTrail
    /\ DaysAreSettled
    /\ OnDiskInOrder(local, missed)
    /\ GoodFilesReadOnce
    /\ NothingSkippedUnseen

LEMMA DayType == \A n \in Names : DayOf(n) \in Int
BY ObjectsBoundAssumption DEF DayOf, Names

(* The new position is at least the old one and the name of a readable     *)
(* file, and no readable file on the disk is beyond it.                    *)
LEMMA NewestFacts ==
    ASSUME ObjectsTypeOK, NEW s \in Streams, NEW files, files \subseteq bucket
    PROVE  /\ Newest(s, files) \in 0 .. LastName
           /\ last[s] \in 0 .. LastName
           /\ last[s] <= Newest(s, files)
           /\ \A o \in Of(s, files) : o.content = "good" => o.name <= Newest(s, files)
           /\ Newest(s, files) # last[s] =>
                 \E n \in Of(s, files) : n.content = "good" /\ n.name = Newest(s, files)
<1> DEFINE good == {n \in New(s, files) : n.content = "good"}
           found == {o.name : o \in good} \union {last[s]}
<1>1. \A o \in files : o.stream \in Streams /\ o.name \in 1 .. LastName /\ o.content \in Contents
  BY DEF ObjectsTypeOK, Object, Names, LastName
<1>2. last[s] \in 0 .. LastName
  BY DEF ObjectsTypeOK, LastName
<1>3. good \subseteq files
  BY DEF New, Of
<1>4. found \subseteq 0 .. LastName /\ found # {}
  BY <1>1, <1>2, <1>3, LastNameType
<1>5. Max(found) \in found /\ \A x \in found : x <= Max(found)
  BY <1>4, MaxFacts, LastNameType
<1>6. Newest(s, files) = Max(found)
  BY DEF Newest
<1>7. Newest(s, files) \in 0 .. LastName /\ last[s] <= Newest(s, files)
  BY <1>4, <1>5, <1>6
<1>8. ASSUME NEW o \in Of(s, files), o.content = "good"
      PROVE  o.name <= Newest(s, files)
  <2>1. CASE o.name > last[s]
    <3>1. o \in good
      BY <2>1, <1>8 DEF New, Of
    <3> QED
      BY <3>1, <1>5, <1>6
  <2>2. CASE ~ (o.name > last[s])
    <3>1. o.name \in 1 .. LastName
      BY <1>1 DEF Of
    <3> QED
      BY <3>1, <2>2, <1>2, <1>7, LastNameType
  <2> QED
    BY <2>1, <2>2
<1>9. ASSUME Newest(s, files) # last[s]
      PROVE  \E n \in Of(s, files) : n.content = "good" /\ n.name = Newest(s, files)
  BY <1>9, <1>5, <1>6 DEF New, Of
<1> QED
  BY <1>2, <1>7, <1>8, <1>9

-----------------------------------------------------------------------------

(* A collector that opens the new files of some streams, whatever else is  *)
(* on the disk by then.                                                    *)
LEMMA CollectingKeepsInvariant ==
    ASSUME ObjectsInvariant,
           NEW files, local \subseteq files, files \subseteq bucket,
           missed \subseteq missed', missed' \subseteq bucket,
           OnDiskInOrder(files, missed'),
           NEW some, some \subseteq Streams,
           NEW opened, opened \subseteq UNION {New(s, files) : s \in some},
           \A o \in UNION {New(s, files) : s \in some} : o.content = "good" => o \in opened,
           Read(opened),
           last' = [s \in Streams |-> IF s \in some THEN Newest(s, files) ELSE last[s]],
           local' = files, pc' \in Steps,
           UNCHANGED <<today, bucket, packed, overtaken, outOfReach, restarts>>
    PROVE  ObjectsInvariant'
<1>1. /\ ObjectsTypeOK /\ ReadIsPassed /\ PositionIsName /\ NamesAreUnique
      /\ PackedIsCloudTrail /\ DaysAreSettled /\ GoodFilesReadOnce /\ NothingSkippedUnseen
  BY DEF ObjectsInvariant
<1>2. \A o \in opened : o \in files /\ o.stream \in some /\ o.name > last[o.stream]
  BY DEF New, Of
<1>3. /\ read' = read \union opened
      /\ reread' = reread \union (read \intersect opened)
  BY DEF Read
<1>4. \A o \in bucket : o.stream \in Streams /\ o.name \in 1 .. LastName /\ o.content \in Contents
  BY <1>1 DEF ObjectsTypeOK, Object, Names, LastName
<1>5. \A s \in Streams : last[s] \in 0 .. LastName /\ last'[s] \in 0 .. LastName
                         /\ last[s] <= last'[s]
  BY <1>1, NewestFacts, LastNameType
<1>6. ObjectsTypeOK'
  <2>1. last' \in [Streams -> 0 .. LastName]
    BY <1>5
  <2> QED
    BY <2>1, <1>1, <1>2, <1>3 DEF ObjectsTypeOK, LastName
<1>7. ReadIsPassed'
  <2> SUFFICES ASSUME NEW o \in read', o.content = "good"
               PROVE  o.name <= last'[o.stream]
    BY DEF ReadIsPassed
  <2>1. o \in bucket
    BY <1>1, <1>2, <1>3 DEF ObjectsTypeOK
  <2>2. CASE o \in read
    BY <2>1, <2>2, <1>1, <1>4, <1>5, LastNameType DEF ReadIsPassed
  <2>3. CASE o \in opened
    <3>1. o \in Of(o.stream, files) /\ o.stream \in some
      BY <2>3, <1>2 DEF Of
    <3>2. o.name <= Newest(o.stream, files)
      BY <3>1, <2>1, <1>1, <1>4, NewestFacts
    <3> QED
      BY <3>1, <3>2
  <2> QED
    BY <2>2, <2>3, <1>3
<1>8. PositionIsName'
  <2> SUFFICES ASSUME NEW s \in Streams, last'[s] > 0
               PROVE  \E o \in Of(s, bucket) : o.name = last'[s]
    BY DEF PositionIsName, Of
  <2>1. CASE last'[s] = last[s]
    BY <2>1, <1>1 DEF PositionIsName
  <2>2. CASE last'[s] # last[s]
    <3>1. \E n \in Of(s, files) : n.name = last'[s]
      BY <2>2, <1>1, NewestFacts
    <3> QED
      BY <3>1 DEF Of
  <2> QED
    BY <2>1, <2>2
<1>9. NamesAreUnique' /\ PackedIsCloudTrail' /\ DaysAreSettled' /\ OnDiskInOrder(local, missed)'
  BY <1>1, <1>3 DEF NamesAreUnique, PackedIsCloudTrail, DaysAreSettled, OnDiskInOrder, Of, DayOf
<1>10. GoodFilesReadOnce'
  <2> SUFFICES ASSUME NEW o \in read, o \in opened, o.content = "good"
               PROVE  FALSE
    BY <1>1, <1>3 DEF GoodFilesReadOnce
  <2>1. o.name <= last[o.stream] /\ o.name > last[o.stream]
    BY <1>1, <1>2 DEF ReadIsPassed
  <2>2. o.name \in Int /\ last[o.stream] \in Int
    BY <1>2, <1>4, <1>5, LastNameType
  <2> QED
    BY <2>1, <2>2
<1>11. NothingSkippedUnseen'
  <2> SUFFICES ASSUME NEW o \in bucket, o.content = "good", o.name <= last'[o.stream],
                      o \notin read', o \notin overtaken, o \notin missed',
                      o \notin outOfReach
               PROVE  FALSE
    BY DEF NothingSkippedUnseen
  <2> DEFINE s == o.stream
  <2>1. s \in Streams /\ o.name \in Int /\ last[s] \in Int /\ last'[s] \in Int
    BY <1>4, <1>5, LastNameType
  <2>2. ~ (o.name <= last[s])
    BY <1>1, <1>3 DEF NothingSkippedUnseen
  <2>3. s \in some /\ last'[s] = Newest(s, files) /\ last'[s] # last[s]
    BY <2>1, <2>2
  <2>4. PICK n \in Of(s, files) : n.content = "good" /\ n.name = last'[s]
    BY <2>1, <2>3, <1>1, NewestFacts
  <2>5. o \in files
    <3>1. CASE o.name = n.name
      BY <3>1, <2>4, <1>1 DEF NamesAreUnique, Of
    <3>2. CASE o.name < n.name
      BY <3>2, <2>4, <1>3 DEF OnDiskInOrder, Of
    <3> QED
      BY <3>1, <3>2, <2>1, <2>4
  <2>6. o \in New(s, files)
    BY <2>1, <2>2, <2>5 DEF New, Of
  <2> QED
    BY <2>3, <2>6, <1>3
<1> QED
  BY <1>6, <1>7, <1>8, <1>9, <1>10, <1>11 DEF ObjectsInvariant

LEMMA InvariantInitially == ObjectsInit => ObjectsInvariant
BY ObjectsBoundAssumption, LastNameType
   DEF ObjectsInit, ObjectsInvariant, ObjectsTypeOK, ReadIsPassed, PositionIsName,
       NamesAreUnique, PackedIsCloudTrail, DaysAreSettled, OnDiskInOrder, GoodFilesReadOnce,
       NothingSkippedUnseen, Of, Steps, LastName

LEMMA FetchKeepsInvariant ==
    ASSUME ObjectsInvariant, NEW fetched, NEW unpacked, fetched \subseteq Today,
           unpacked \subseteq packed \union fetched, Fetch(fetched, unpacked)
    PROVE  ObjectsInvariant'
<1>1. /\ ObjectsTypeOK /\ ReadIsPassed /\ PositionIsName /\ NamesAreUnique
      /\ PackedIsCloudTrail /\ DaysAreSettled /\ OnDiskInOrder(local, missed)
      /\ GoodFilesReadOnce /\ NothingSkippedUnseen
  BY DEF ObjectsInvariant
<1>2. /\ packed' = (packed \union fetched) \ unpacked
      /\ local' = local \union unpacked
      /\ missed' = missed \union LeftOut(Today \union packed, local')
      /\ pc' = "cloudtrail"
      /\ UNCHANGED <<today, bucket, last, read, reread, overtaken, outOfReach, restarts>>
  BY DEF Fetch
<1>3. Today \subseteq bucket /\ LeftOut(Today \union packed, local') \subseteq bucket
  BY <1>1 DEF Today, LeftOut, Of, ObjectsTypeOK
<1>4. ObjectsTypeOK'
  BY <1>1, <1>2, <1>3 DEF ObjectsTypeOK, Steps
<1>5. ReadIsPassed' /\ PositionIsName' /\ NamesAreUnique'
  BY <1>1, <1>2 DEF ReadIsPassed, PositionIsName, NamesAreUnique, Of
<1>6. GoodFilesReadOnce' /\ NothingSkippedUnseen'
  BY <1>1, <1>2 DEF GoodFilesReadOnce, NothingSkippedUnseen
<1>7. PackedIsCloudTrail' /\ DaysAreSettled'
  <2>1. PackedIsCloudTrail'
    BY <1>1, <1>2 DEF PackedIsCloudTrail, Today, Of
  <2>2. DaysAreSettled'
    BY <1>1, <1>2 DEF DaysAreSettled, Of, DayOf
  <2> QED
    BY <2>1, <2>2
<1>8. OnDiskInOrder(local, missed)'
  <2> SUFFICES ASSUME NEW n \in local', NEW o \in bucket,
                      n.content = "good", o.content = "good",
                      n.stream = o.stream, o.name < n.name,
                      o \notin local', o \notin read, o \notin missed', o \notin outOfReach,
                      o \notin overtaken
               PROVE  FALSE
    BY <1>2 DEF OnDiskInOrder
  <2>1. CASE n \in local
    BY <2>1, <1>1, <1>2 DEF OnDiskInOrder
  <2>2. CASE n \notin local
    <3>1. ObjectsTypeOK /\ n \in bucket
      BY <1>1, <1>4, <1>2 DEF ObjectsTypeOK
    <3>2. \A p \in Today \union packed : p.stream = CloudTrail
      BY <1>1 DEF Today, Of, PackedIsCloudTrail
    <3>3. n.stream = CloudTrail
      BY <2>2, <3>2, <1>2
    <3>4. DayOf(o.name) \in Int /\ today \in Int
      BY <3>1, DayType DEF ObjectsTypeOK, Object
    <3>5. o \in Today \union packed
      <4>1. o \in Of(CloudTrail, bucket) /\ o \notin local
        BY <3>3, <1>2 DEF Of
      <4>2. CASE DayOf(o.name) = today
        BY <4>1, <4>2 DEF Today, Of
      <4>3. CASE DayOf(o.name) # today
        <5>1. DayOf(o.name) < today
          BY <4>1, <4>3, <3>4, <1>1 DEF DaysAreSettled
        <5>2. o \notin read /\ o \notin outOfReach
          BY <1>2
        <5> QED
          BY <4>1, <5>1, <5>2, <1>1 DEF DaysAreSettled
      <4> QED
        BY <4>2, <4>3
    <3>6. n \in Of(o.stream, local') /\ n.name > o.name
      <4>1. n.name \in Int /\ o.name \in Int
        BY <3>1, LastNameType DEF ObjectsTypeOK, Object, Names, LastName
      <4> QED
        BY <4>1 DEF Of
    <3>7. o \in LeftOut(Today \union packed, local')
      BY <3>5, <3>6 DEF LeftOut
    <3> QED
      BY <3>7, <1>2
  <2> QED
    BY <2>1, <2>2
<1> QED
  BY <1>4, <1>5, <1>6, <1>7, <1>8 DEF ObjectsInvariant

LEMMA SyncKeepsInvariant ==
    ASSUME ObjectsInvariant, SyncCloudTrail \/ SyncCloudTrailPartly
    PROVE  ObjectsInvariant'
<1>1. CASE SyncCloudTrail
  <2>1. Today \union packed \subseteq packed \union Today
    OBVIOUS
  <2>2. Fetch(Today, Today \union packed)
    BY <1>1 DEF SyncCloudTrail
  <2> QED
    BY <2>1, <2>2, FetchKeepsInvariant
<1>2. CASE SyncCloudTrailPartly
  <2>1. PICK fetched \in SUBSET Today :
           \E unpacked \in SUBSET (packed \union fetched) : Fetch(fetched, unpacked)
    BY <1>2 DEF SyncCloudTrailPartly
  <2>2. PICK unpacked \in SUBSET (packed \union fetched) : Fetch(fetched, unpacked)
    BY <2>1
  <2> QED
    BY <2>2, FetchKeepsInvariant
<1> QED
  BY <1>1, <1>2

LEMMA CollectCloudTrailKeepsInvariant ==
    ASSUME ObjectsInvariant, CollectCloudTrail
    PROVE  ObjectsInvariant'
<1> DEFINE opened == {o \in New(CloudTrail, local) : o.content = "good"}
<1>1. ObjectsTypeOK /\ OnDiskInOrder(local, missed) /\ local \subseteq bucket
      /\ missed \subseteq bucket /\ missed' = missed
  BY DEF ObjectsInvariant, ObjectsTypeOK, CollectCloudTrail
<1>2. UNION {New(s, local) : s \in {CloudTrail}} = New(CloudTrail, local)
  OBVIOUS
<1>3. last' = [s \in Streams |-> IF s \in {CloudTrail} THEN Newest(s, local) ELSE last[s]]
  BY <1>1 DEF CollectCloudTrail, ObjectsTypeOK, Streams
<1>4. Read(opened) /\ local' = local /\ pc' \in Steps
      /\ UNCHANGED <<today, bucket, packed, overtaken, outOfReach, restarts>>
  BY DEF CollectCloudTrail, Steps
<1>5. {CloudTrail} \subseteq Streams
  BY DEF Streams
<1> HIDE DEF opened
<1>6. /\ opened \subseteq UNION {New(s, local) : s \in {CloudTrail}}
      /\ \A o \in UNION {New(s, local) : s \in {CloudTrail}} :
            o.content = "good" => o \in opened
  BY <1>2 DEF opened
<1> QED
  BY <1>1, <1>3, <1>4, <1>5, <1>6, CollectingKeepsInvariant

(* Whatever a sync of the Falco files brings, what it leaves out is noted. *)
LEMMA FalcoOnDiskInOrder ==
    ASSUME ObjectsInvariant, NEW fetched, fetched \subseteq Falco,
           SyncFalco(local \union fetched)
    PROVE  /\ local \union fetched \subseteq bucket
           /\ missed \subseteq missed' /\ missed' \subseteq bucket
           /\ OnDiskInOrder(local \union fetched, missed')
<1> DEFINE files == local \union fetched
           left == LeftOut({o \in bucket : o.stream \in Hosts}, files)
<1>1. ObjectsTypeOK /\ OnDiskInOrder(local, missed)
  BY DEF ObjectsInvariant
<1>2. fetched \subseteq bucket /\ \A o \in fetched : o.stream \in Hosts
  BY DEF Falco
<1>3. files \subseteq bucket
  BY <1>1, <1>2 DEF ObjectsTypeOK
<1>4. missed' = missed \union left
  BY DEF SyncFalco
<1>5. left \subseteq bucket /\ missed \subseteq bucket
  BY <1>1 DEF LeftOut, ObjectsTypeOK
<1>6. ASSUME NEW n \in files, NEW o \in bucket, n.content = "good", o.content = "good",
             n.stream = o.stream, o.name < n.name,
             o \notin files, o \notin read, o \notin overtaken, o \notin outOfReach
      PROVE  o \in missed'
  <2>1. CASE n \in local
    BY <2>1, <1>1, <1>4, <1>6 DEF OnDiskInOrder
  <2>2. CASE n \in fetched
    <3>1. n.name \in Int /\ o.name \in Int
      BY <1>1, <1>2, <2>2, LastNameType DEF ObjectsTypeOK, Object, Names, LastName
    <3>2. n \in Of(o.stream, files) /\ n.name > o.name
      BY <3>1, <1>6 DEF Of
    <3>3. o.stream \in Hosts
      BY <2>2, <1>2, <1>6
    <3> HIDE DEF files
    <3>4. o \in left
      BY <3>2, <3>3, <1>6 DEF LeftOut
    <3> QED
      BY <3>4, <1>4
  <2> QED
    BY <2>1, <2>2
<1>7. OnDiskInOrder(files, missed')
  <2> HIDE DEF files, left
  <2> QED
    BY <1>6 DEF OnDiskInOrder
<1> QED
  BY <1>3, <1>4, <1>5, <1>7

LEMMA ReadFalcoKeepsInvariant ==
    ASSUME ObjectsInvariant, NEW fetched, fetched \subseteq Falco,
           ReadFalco(local \union fetched)
    PROVE  ObjectsInvariant'
<1> DEFINE files == local \union fetched
           opened == UNION {New(h, files) : h \in Hosts}
<1>1. /\ SyncFalco(files) /\ Read(opened) /\ local' = files /\ pc' \in Steps
      /\ last' = [s \in Streams |-> IF s \in Hosts THEN Newest(s, files) ELSE last[s]]
      /\ UNCHANGED <<today, bucket, packed, overtaken, outOfReach, restarts>>
  BY DEF ReadFalco, SyncFalco, Steps
<1>2. Hosts \subseteq Streams
  BY DEF Streams
<1>3. /\ files \subseteq bucket /\ missed \subseteq missed' /\ missed' \subseteq bucket
      /\ OnDiskInOrder(files, missed')
  BY <1>1, FalcoOnDiskInOrder
<1>4. local \subseteq files
  OBVIOUS
<1> HIDE DEF files
<1> QED
  BY <1>1, <1>2, <1>3, <1>4, CollectingKeepsInvariant

(* The cycle that a file ends keeps what was synced, and nothing else.     *)
LEMMA ReadFalcoRaisesKeepsInvariant ==
    ASSUME ObjectsInvariant, NEW fetched, fetched \subseteq Falco,
           ReadFalcoRaises(local \union fetched)
    PROVE  ObjectsInvariant'
<1> DEFINE files == local \union fetched
<1>1. /\ ObjectsTypeOK /\ ReadIsPassed /\ PositionIsName /\ NamesAreUnique
      /\ PackedIsCloudTrail /\ DaysAreSettled /\ GoodFilesReadOnce /\ NothingSkippedUnseen
  BY DEF ObjectsInvariant
<1>2. /\ SyncFalco(files) /\ local' = files /\ pc' \in Steps
      /\ UNCHANGED <<today, bucket, packed, last, read, reread, overtaken, outOfReach,
                     restarts>>
  BY DEF ReadFalcoRaises, SyncFalco, Steps
<1>3. /\ files \subseteq bucket /\ missed \subseteq missed' /\ missed' \subseteq bucket
      /\ OnDiskInOrder(files, missed')
  BY <1>2, FalcoOnDiskInOrder
<1>4. local \subseteq files
  OBVIOUS
<1> HIDE DEF files
<1>5. ObjectsTypeOK'
  BY <1>1, <1>2, <1>3 DEF ObjectsTypeOK
<1>6. ReadIsPassed' /\ PositionIsName' /\ NamesAreUnique'
  BY <1>1, <1>2 DEF ReadIsPassed, PositionIsName, NamesAreUnique, Of
<1>7. PackedIsCloudTrail' /\ DaysAreSettled' /\ GoodFilesReadOnce' /\ NothingSkippedUnseen'
  BY <1>1, <1>2, <1>3, <1>4
     DEF PackedIsCloudTrail, DaysAreSettled, GoodFilesReadOnce, NothingSkippedUnseen, Of, DayOf
<1>8. OnDiskInOrder(local, missed)'
  BY <1>2, <1>3 DEF OnDiskInOrder
<1> QED
  BY <1>5, <1>6, <1>7, <1>8 DEF ObjectsInvariant

LEMMA CollectFalcoKeepsInvariant ==
    ASSUME ObjectsInvariant, CollectFalco \/ CollectFalcoPartly \/ CollectFalcoRaises
    PROVE  ObjectsInvariant'
<1>1. CASE CollectFalco
  <2>1. ReadFalco(local \union Falco)
    BY <1>1 DEF CollectFalco
  <2> QED
    BY <2>1, ReadFalcoKeepsInvariant
<1>2. CASE CollectFalcoPartly
  <2>1. PICK fetched \in SUBSET Falco : ReadFalco(local \union fetched)
    BY <1>2 DEF CollectFalcoPartly
  <2> QED
    BY <2>1, ReadFalcoKeepsInvariant
<1>3. CASE CollectFalcoRaises
  <2>1. PICK fetched \in SUBSET Falco : ReadFalcoRaises(local \union fetched)
    BY <1>3 DEF CollectFalcoRaises
  <2> QED
    BY <2>1, ReadFalcoRaisesKeepsInvariant
<1> QED
  BY <1>1, <1>2, <1>3

LEMMA RestartKeepsInvariant ==
    ASSUME ObjectsInvariant, Restart
    PROVE  ObjectsInvariant'
<1> USE DEF ObjectsInvariant, Restart
<1>1. ObjectsTypeOK'
  BY ObjectsBoundAssumption DEF ObjectsTypeOK, Steps, Of
<1>2. ReadIsPassed' /\ PositionIsName' /\ NamesAreUnique'
  BY DEF ReadIsPassed, PositionIsName, NamesAreUnique, Of
<1>3. GoodFilesReadOnce' /\ NothingSkippedUnseen' /\ OnDiskInOrder(local, missed)'
  BY DEF GoodFilesReadOnce, NothingSkippedUnseen, OnDiskInOrder
<1>4. PackedIsCloudTrail' /\ DaysAreSettled'
  BY DEF PackedIsCloudTrail, DaysAreSettled, Of, DayOf
<1> QED
  BY <1>1, <1>2, <1>3, <1>4

LEMMA MidnightKeepsInvariant ==
    ASSUME ObjectsInvariant, Midnight
    PROVE  ObjectsInvariant'
<1> USE DEF ObjectsInvariant, Midnight
<1>1. ObjectsTypeOK'
  BY ObjectsBoundAssumption DEF ObjectsTypeOK, Of
<1>2. ReadIsPassed' /\ PositionIsName' /\ NamesAreUnique'
  BY DEF ReadIsPassed, PositionIsName, NamesAreUnique, Of
<1>3. GoodFilesReadOnce' /\ NothingSkippedUnseen' /\ OnDiskInOrder(local, missed)'
  BY DEF GoodFilesReadOnce, NothingSkippedUnseen, OnDiskInOrder
<1>4. PackedIsCloudTrail' /\ DaysAreSettled'
  <2> SUFFICES ASSUME NEW o \in Of(CloudTrail, bucket)
               PROVE  /\ DayOf(o.name) <= today + 1
                      /\ o \in local \union packed \union read \union outOfReach'
    BY DEF PackedIsCloudTrail, DaysAreSettled, Of, DayOf
  <2>1. DayOf(o.name) \in Int /\ today \in Int
    BY DayType DEF ObjectsTypeOK, Object, Of
  <2> QED
    BY <2>1 DEF PackedIsCloudTrail, DaysAreSettled
<1> QED
  BY <1>1, <1>2, <1>3, <1>4

LEMMA UploadKeepsInvariant ==
    ASSUME ObjectsInvariant, Upload
    PROVE  ObjectsInvariant'
<1> USE DEF ObjectsInvariant
<1>1. PICK o \in Object :
        /\ IF o.stream = CloudTrail
           THEN /\ DayOf(o.name) <= today
                /\ \A other \in Of(CloudTrail, bucket) : other.name # o.name
           ELSE /\ DayOf(o.name) = today
                /\ \A other \in Of(o.stream, bucket) : other.name < o.name
        /\ bucket' = bucket \union {o}
        /\ overtaken' = overtaken \union
              {n \in {o} : \E other \in Of(o.stream, bucket) : other.name > o.name}
        /\ outOfReach' = outOfReach \union
              {n \in {o} : o.stream = CloudTrail /\ DayOf(o.name) < today}
        /\ UNCHANGED <<today, packed, local, last, pc, read, reread, missed, restarts>>
  BY DEF Upload
<1>2. /\ \A other \in bucket \union {o} :
             /\ other.stream \in Streams /\ other.name \in 1 .. LastName
             /\ DayOf(other.name) \in Int
      /\ \A s \in Streams : last[s] \in 0 .. LastName
      /\ today \in Int
  BY <1>1, DayType DEF ObjectsTypeOK, Object, Names, LastName
<1>3. \A other \in Of(o.stream, bucket) : other.name # o.name
  BY <1>1, <1>2, LastNameType DEF Of
<1>4. ObjectsTypeOK'
  BY <1>1 DEF ObjectsTypeOK
<1>5. ReadIsPassed' /\ PositionIsName' /\ GoodFilesReadOnce'
  BY <1>1 DEF ReadIsPassed, PositionIsName, GoodFilesReadOnce, Of
<1>6. NamesAreUnique'
  BY <1>1, <1>3 DEF NamesAreUnique, Of
<1>7. PackedIsCloudTrail' /\ DaysAreSettled'
  BY <1>1, <1>2 DEF PackedIsCloudTrail, DaysAreSettled, Of, DayOf
<1>8. OnDiskInOrder(local, missed)'
  <2> SUFFICES ASSUME NEW n \in local, NEW p \in bucket \union {o},
                      n.content = "good", p.content = "good",
                      n.stream = p.stream, p.name < n.name
               PROVE  p \in local \union read \union overtaken' \union missed \union outOfReach'
    BY <1>1 DEF OnDiskInOrder
  <2>1. CASE p \in bucket
    BY <1>1, <2>1 DEF OnDiskInOrder
  <2>2. CASE p = o
    <3>1. n \in Of(o.stream, bucket) /\ n.name > o.name
      BY <2>2, <1>2, LastNameType DEF ObjectsTypeOK, Of
    <3> QED
      BY <1>1, <2>2, <3>1
  <2> QED
    BY <2>1, <2>2
<1>9. NothingSkippedUnseen'
  <2> SUFFICES ASSUME o.content = "good", o.name <= last[o.stream]
               PROVE  o \in overtaken'
    BY <1>1 DEF NothingSkippedUnseen
  <2>1. last[o.stream] > 0
    BY <1>2, LastNameType
  <2>2. PICK p \in Of(o.stream, bucket) : p.name = last[o.stream]
    BY <2>1, <1>2 DEF PositionIsName
  <2>3. p.name > o.name
    BY <2>2, <1>2, <1>3, LastNameType DEF Of
  <2> QED
    BY <1>1, <2>2, <2>3
<1> QED
  BY <1>4, <1>5, <1>6, <1>7, <1>8, <1>9

LEMMA StutteringKeepsInvariant ==
    ASSUME ObjectsInvariant, CollectCloudTrailRaises \/ UNCHANGED objectsVars
    PROVE  ObjectsInvariant'
BY DEF ObjectsInvariant, CollectCloudTrailRaises, objectsVars, ObjectsTypeOK, ReadIsPassed,
       PositionIsName, NamesAreUnique, PackedIsCloudTrail, DaysAreSettled, OnDiskInOrder,
       GoodFilesReadOnce,
       NothingSkippedUnseen, Of, DayOf, Steps

THEOREM ObjectsInvariantHolds == ObjectsSpec => []ObjectsInvariant
<1>1. ObjectsInit => ObjectsInvariant
  BY InvariantInitially
<1>2. ObjectsInvariant /\ [ObjectsNext]_objectsVars => ObjectsInvariant'
  <2> SUFFICES ASSUME ObjectsInvariant, [ObjectsNext]_objectsVars
               PROVE  ObjectsInvariant'
    OBVIOUS
  <2>1. CASE SyncCloudTrail \/ SyncCloudTrailPartly
    BY <2>1, SyncKeepsInvariant
  <2>2. CASE CollectCloudTrailRaises \/ UNCHANGED objectsVars
    BY <2>2, StutteringKeepsInvariant
  <2>3. CASE CollectCloudTrail
    BY <2>3, CollectCloudTrailKeepsInvariant
  <2>4. CASE CollectFalco \/ CollectFalcoPartly \/ CollectFalcoRaises
    BY <2>4, CollectFalcoKeepsInvariant
  <2>5. CASE Restart
    BY <2>5, RestartKeepsInvariant
  <2>6. CASE Upload
    BY <2>6, UploadKeepsInvariant
  <2>7. CASE Midnight
    BY <2>7, MidnightKeepsInvariant
  <2> QED
    BY <2>1, <2>2, <2>3, <2>4, <2>5, <2>6, <2>7 DEF ObjectsNext, EngineSteps
<1> QED
  BY <1>1, <1>2, PTL DEF ObjectsSpec

(* Every reachable state of the collectors is well typed.                  *)
THEOREM ObjectsTypeCorrect == ObjectsSpec => []ObjectsTypeOK
BY ObjectsInvariantHolds, PTL DEF ObjectsInvariant

(* No file that can be read is handed to the rules twice, whichever syncs  *)
(* are partial, whatever is uploaded late or ends a cycle or is lost with a*)
(* pod.                                                                    *)
THEOREM FilesReadOnce == ObjectsSpec => []GoodFilesReadOnce
BY ObjectsInvariantHolds, PTL DEF ObjectsInvariant

(* Whichever files a sync or a gunzip brings, the position of a stream     *)
(* passes a readable file only when it was read, overtaken on its way, left*)
(* out while a newer one was there, or its day ended before a sync.        *)
THEOREM PositionSkipsNothing == ObjectsSpec => []NothingSkippedUnseen
BY ObjectsInvariantHolds, PTL DEF ObjectsInvariant

=============================================================================
