------------------------------ MODULE Objects ------------------------------
(***************************************************************************)
(* collect_cloudtrail_logs and collect_falco_logs: log files that arrive   *)
(* as objects in S3, are synced into a local directory, and are read in    *)
(* the order of their names, from the last name read on.                   *)
(*                                                                         *)
(* A name is a number, in the order the code compares names; PerDay names  *)
(* make a day.  CloudTrail is one stream of which only today's prefix is   *)
(* synced; every Falco host is a stream of its own.                        *)
(*                                                                         *)
(* Nobody looks at the outcome of a sync or of a gunzip: the loop over the *)
(* files goes on with whatever they left on the disk.                      *)
(***************************************************************************)
EXTENDS Integers, FiniteSets, FiniteSetsExt

CONSTANTS
    CloudTrail,   \* the CloudTrail stream
    Hosts,        \* the Falco streams
    PerDay,       \* names in a day
    MaxDay,       \* bound: days
    MaxObjects,   \* bound: objects in the bucket
    MaxUnreadable,\* bound: objects in the bucket that cannot be read
    MaxRestarts   \* bound: restarts of the engine's pod

Streams == {CloudTrail} \union Hosts
Names   == 1 .. PerDay * MaxDay

(* What a file holds: "good" can be read; at "bad" json.load raises the    *)
(* JSONDecodeError the loops catch; "poison" raises something they do not, *)
(* as bytes that are not UTF-8 do, or a CloudTrail file without an object  *)
(* at its top.                                                             *)
Contents == {"good", "bad", "poison"}
Object   == [stream : Streams, name : Names, content : Contents]

ASSUME StreamAssumption == CloudTrail \notin Hosts
ASSUME ObjectsBoundAssumption ==
    /\ PerDay \in Nat \ {0}
    /\ MaxDay \in Nat \ {0}
    /\ MaxObjects \in Nat
    /\ MaxUnreadable \in Nat
    /\ MaxRestarts \in Nat

VARIABLES
    today,      \* the UTC day
    bucket,     \* the objects in S3
    packed,     \* CloudTrail objects under /tmp of the pod that are still .gz only
    local,      \* the objects under /tmp whose .json or .jsonl the loops see
    last,       \* state.json: stream -> last name read, 0 before the first
    pc,         \* what the engine does next
    read,       \* history: objects the collectors have opened and read
    reread,     \* history: objects they have read more than once
    overtaken,  \* history: objects uploaded after one with a greater name
    missed,     \* history: objects a sync left out while it left a newer one in
    outOfReach, \* history: unread objects that no sync will fetch any more
    restarts    \* restarts of the pod so far

objectsVars == <<today, bucket, packed, local, last, pc, read, reread, overtaken, missed,
                 outOfReach, restarts>>

Steps == {"sync", "cloudtrail", "falco"}

ObjectsInit ==
    /\ today = 1
    /\ bucket = {}
    /\ packed = {}
    /\ local = {}
    /\ last = [s \in Streams |-> 0]
    /\ pc = "sync"
    /\ read = {}
    /\ reread = {}
    /\ overtaken = {}
    /\ missed = {}
    /\ outOfReach = {}
    /\ restarts = 0

DayOf(name) == (name - 1) \div PerDay + 1

Of(s, objects) == {o \in objects : o.stream = s}

-----------------------------------------------------------------------------
(* The engine.                                                             *)

(* What the sync of today's CloudTrail prefix can bring.                   *)
Today == {o \in Of(CloudTrail, bucket) \ local : DayOf(o.name) = today}

(* The readable ones of objects that are left out while the loop sees a    *)
(* newer one.                                                              *)
LeftOut(objects, files) ==
    {o \in objects \ (files \union read) :
        /\ o.content = "good"
        /\ \E n \in Of(o.stream, files) : n.content = "good" /\ n.name > o.name}

(* aws s3 sync and then gunzip, of whatever is still packed: files of an   *)
(* earlier cycle or day stay in the directory.                             *)
Fetch(fetched, unpacked) ==
    /\ pc = "sync"
    /\ packed' = (packed \union fetched) \ unpacked
    /\ local' = local \union unpacked
    /\ missed' = missed \union LeftOut(Today \union packed, local')
    /\ pc' = "cloudtrail"
    /\ UNCHANGED <<today, bucket, last, read, reread, overtaken, outOfReach, restarts>>

SyncCloudTrail == Fetch(Today, Today \union packed)

(* The sync or the gunzip of some files fails.                             *)
SyncCloudTrailPartly ==
    \E fetched \in SUBSET Today :
        \E unpacked \in SUBSET (packed \union fetched) : Fetch(fetched, unpacked)

(* Bug: the name of the last file itself counts as new.                    *)
NewAgain(s, files) == {o \in Of(s, files) : o.name >= last[s]}

(* Bug: one position for every host.                                       *)
NewGlobally(s, files) ==
    {o \in Of(s, files) : \A t \in Hosts \union {s} : o.name > last[t]}

(* Bug: the loop ends at the first file that cannot be parsed.             *)
NewUntilBad(s, files) ==
    {o \in Of(s, files) :
        /\ o.name > last[s]
        /\ \A b \in Of(s, files) : b.name < o.name =>
               b.content = "good" \/ b.name <= last[s]}

(* The files a collector opens: those with a name beyond the position.     *)
New(s, files) == {o \in Of(s, files) : o.name > last[s]}

(* The position after the loop: the newest file that could be parsed.      *)
Newest(s, files) ==
    Max({o.name : o \in {n \in New(s, files) : n.content = "good"}} \union {last[s]})

(* The loop over these streams meets a file it does not survive.           *)
Raises(streams, files) ==
    \E s \in streams : \E o \in New(s, files) : o.content = "poison"

Read(objects) ==
    /\ read' = read \union objects
    /\ reread' = reread \union (read \intersect objects)

(* json.load fails on an unreadable CloudTrail file as a whole.            *)
CollectCloudTrail ==
    /\ pc = "cloudtrail"
    /\ ~ Raises({CloudTrail}, local)
    /\ Read({o \in New(CloudTrail, local) : o.content = "good"})
    /\ last' = [last EXCEPT ![CloudTrail] = Newest(CloudTrail, local)]
    /\ pc' = "falco"
    /\ UNCHANGED <<today, bucket, packed, local, overtaken, missed, outOfReach, restarts>>

(* An exception other than JSONDecodeError ends the collector, and with it *)
(* the cycle: nothing is handed on, no position is saved, and the next     *)
(* cycle meets the same file.                                              *)
CollectCloudTrailRaises ==
    /\ pc = "cloudtrail"
    /\ Raises({CloudTrail}, local)
    /\ pc' = "sync"
    /\ UNCHANGED <<today, bucket, packed, local, last, read, reread, overtaken, missed,
                   outOfReach, restarts>>

SyncFalco(files) ==
    /\ pc = "falco"
    /\ local' = files
    /\ missed' = missed \union LeftOut({o \in bucket : o.stream \in Hosts}, files)
    /\ pc' = "sync"
    /\ UNCHANGED <<today, bucket, packed, overtaken, outOfReach, restarts>>

(* Of an unreadable Falco file the lines before the bad one are handed on. *)
ReadFalco(files) ==
    /\ SyncFalco(files)
    /\ ~ Raises(Hosts, files)
    /\ Read(UNION {New(h, files) : h \in Hosts})
    /\ last' = [s \in Streams |-> IF s \in Hosts THEN Newest(s, files) ELSE last[s]]

(* The same exceptions end the cycle here, after the position of CloudTrail*)
(* was saved: what it handed on in this cycle is lost with the cycle.      *)
ReadFalcoRaises(files) ==
    /\ SyncFalco(files)
    /\ Raises(Hosts, files)
    /\ UNCHANGED <<last, read, reread>>

Falco == {o \in bucket : o.stream \in Hosts} \ local

(* aws s3 sync of the whole falco/ prefix, then the loop over the files.   *)
CollectFalco == ReadFalco(local \union Falco)

(* The same with a sync that brings only some of them, or none.            *)
CollectFalcoPartly == \E fetched \in SUBSET Falco : ReadFalco(local \union fetched)

CollectFalcoRaises ==
    \E fetched \in SUBSET Falco : ReadFalcoRaises(local \union fetched)

(* The pod restarts: /tmp is empty again, state.json is on its volume.     *)
Restart ==
    /\ restarts < MaxRestarts
    /\ restarts' = restarts + 1
    /\ packed' = {}
    /\ local' = {}
    /\ outOfReach' = outOfReach \union
          {o \in Of(CloudTrail, local \union packed) \ read : DayOf(o.name) < today}
    /\ pc' = "sync"
    /\ UNCHANGED <<today, bucket, last, read, reread, overtaken, missed>>

-----------------------------------------------------------------------------
(* The world.                                                              *)

(* An object arrives.  The files of one Falco host arrive in the order of  *)
(* their names, its clock; the names of CloudTrail files hold the minute   *)
(* and a random suffix, and a file may come late.                          *)
Upload ==
    \E o \in Object :
        /\ Cardinality(bucket) < MaxObjects
        /\ o.content = "good" \/ Cardinality({b \in bucket : b.content # "good"}) < MaxUnreadable
        /\ IF o.stream = CloudTrail
           THEN /\ DayOf(o.name) <= today
                /\ \A other \in Of(CloudTrail, bucket) : other.name # o.name
           ELSE /\ DayOf(o.name) = today
                /\ \A other \in Of(o.stream, bucket) : other.name < o.name
        /\ bucket' = bucket \union {o}
        /\ overtaken' = overtaken \union
              {n \in {o} : \E other \in Of(o.stream, bucket) : other.name > o.name}
        /\ outOfReach' = outOfReach \union
              {n \in {o} : o.stream = CloudTrail /\ DayOf(o.name) < today}
        /\ UNCHANGED <<today, packed, local, last, pc, read, reread, missed, restarts>>

(* Midnight, UTC: the prefix of yesterday is not synced again.             *)
Midnight ==
    /\ today < MaxDay
    /\ today' = today + 1
    /\ outOfReach' = outOfReach \union
          (Of(CloudTrail, bucket) \ (local \union packed \union read))
    /\ UNCHANGED <<bucket, packed, local, last, pc, read, reread, overtaken, missed,
                   restarts>>

EngineSteps ==
    \/ SyncCloudTrail
    \/ SyncCloudTrailPartly
    \/ CollectCloudTrail
    \/ CollectCloudTrailRaises
    \/ CollectFalco
    \/ CollectFalcoPartly
    \/ CollectFalcoRaises

ObjectsNext == EngineSteps \/ Restart \/ Upload \/ Midnight

(* run_loop.sh starts cycle after cycle, and a sync works again and again, *)
(* for all the files it can reach.                                         *)
ObjectsFairness ==
    /\ WF_objectsVars(EngineSteps)
    /\ SF_objectsVars(SyncCloudTrail)
    /\ SF_objectsVars(CollectFalco)

ObjectsSpec == ObjectsInit /\ [][ObjectsNext]_objectsVars /\ ObjectsFairness

-----------------------------------------------------------------------------

ObjectsTypeOK ==
    /\ today \in 1 .. MaxDay
    /\ bucket \in SUBSET Object
    /\ packed \in SUBSET bucket
    /\ local \in SUBSET bucket
    /\ last \in [Streams -> 0 .. PerDay * MaxDay]
    /\ pc \in Steps
    /\ read \in SUBSET bucket
    /\ reread \in SUBSET read
    /\ overtaken \in SUBSET bucket
    /\ missed \in SUBSET bucket
    /\ outOfReach \in SUBSET bucket
    /\ restarts \in 0 .. MaxRestarts

(* A file that can be parsed is handed to the rules once: not again in the *)
(* next cycle, not after a restart that syncs it again, not because a file *)
(* that cannot be read holds the position back.                            *)
GoodFilesReadOnce == \A o \in Object : o.content = "good" => o \notin reread

(* The position passes a readable file only when it was read, or for one   *)
(* of three reasons outside the loops: a file with a greater name overtook *)
(* it on its way into the bucket, a sync or a gunzip left it out while a   *)
(* newer one was there, or its day ended before a sync brought it.         *)
(* Unreadable files neither stop the readable ones nor hide them, and one  *)
(* stream does not move the position of another.                           *)
NothingSkippedUnseen ==
    \A o \in bucket :
        o.content = "good" /\ o.name <= last[o.stream] =>
            o \in read \/ o \in overtaken \/ o \in missed \/ o \in outOfReach

Waiting ==
    {o \in bucket : o.content = "good"}
        \ (read \union overtaken \union missed \union outOfReach)

(* A file that no loop survives is still ahead of its stream's position.   *)
Poisoned ==
    \E o \in bucket \ outOfReach : o.content = "poison" /\ o.name > last[o.stream]

(* Again and again no readable file of any stream waits, but for the same  *)
(* exceptions, however many of its neighbours cannot be parsed; only a     *)
(* file that raises what the loops do not catch can keep the collectors    *)
(* from it, and only while it is ahead of the position.  (The bucket is    *)
(* bounded, so the streams do not stay behind for ever.)                   *)
EventuallyRead == []<>(Waiting = {} \/ Poisoned)

=============================================================================
