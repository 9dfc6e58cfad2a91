----------------------------- MODULE LogReader -----------------------------
(***************************************************************************)
(* The rotation-aware log reader of logs/log_collector.py: read_new_lines, *)
(* shared by the auth.log, auditd and Cowrie collectors, together with the *)
(* world it reads: a writer that appends to the log, and a logrotate that  *)
(* renames, recreates, compresses and truncates it at any moment.          *)
(*                                                                         *)
(* The text written to the log is numbered in units of half a line: unit   *)
(* 2n-1 is the first part of the n-th line and unit 2n its last part with  *)
(* the newline.  A file is the sequence of the units it holds; an offset   *)
(* is a number of units.                                                   *)
(***************************************************************************)
EXTENDS Naturals, SequencesExt

CONSTANTS
    Inodes,         \* inode numbers of the log directory; freed ones are reused
    NoFile,         \* no inode
    MaxUnits,       \* bound: units the writer writes
    Rations         \* bounds: how many renames of the log, discards of rotated
                    \* files, truncations in place and kills of the reader one
                    \* behaviour may have; a behaviour starts with one of them

ASSUME InodeAssumption == Inodes # {} /\ NoFile \notin Inodes
ASSUME BoundAssumption ==
    /\ MaxUnits \in Nat
    /\ Rations \subseteq [rotations : Nat, discards : Nat, truncations : Nat,
                           crashes : Nat]

VARIABLES
    current,    \* inode that the log's path names, NoFile between rename and create
    rotated,    \* inodes of the uncompressed rotated files, log.1, log.2, ...
    content,    \* inode -> units in the file
    writer,     \* inode of the file the writer has open
    written,    \* number of units written so far
    left,       \* how often the world may still do each of its rationed actions
    saved,      \* state.json: [inode, offset] of the log
    pc,         \* where read_new_lines is
    stat,       \* its locals: the inode os.stat returned,
    offset,     \*   the offset to read the log's path from,
    lines,      \*   the units read so far,
    reached,    \*   and the offset behind the last of them
    delivered,  \* the units read_new_lines has returned, over all runs
    mishaps     \* history: what happened that the reader cannot make good

worldVars  == <<current, rotated, content, writer, written, left>>
localVars  == <<stat, offset, lines, reached>>
vars == <<current, rotated, content, writer, written, left, saved, pc,
          stat, offset, lines, reached, delivered, mishaps>>

Mishaps == {"unread",   \* rotated before the reader's first run
            "twice",    \* rotated again before the rotated file was drained
            "raced",    \* rotated between os.stat and open
            "late",     \* the drained file is still open for writing
            "gone",     \* the file to drain was compressed or deleted
            "regrown",  \* truncated, and longer than the offset at the next read
            "cut"}      \* truncated before all of it was read

TypeOK ==
    /\ current \in Inodes \union {NoFile}
    /\ rotated \in SUBSET Inodes
    /\ content \in [Inodes -> Seq(Nat)]
    /\ writer \in Inodes
    /\ written \in Nat
    /\ left \in [rotations : Nat, discards : Nat, truncations : Nat,
                 crashes : Nat]
    /\ saved \in [inode : Inodes \union {NoFile}, offset : Nat]
    /\ pc \in {"idle", "drain", "read", "save"}
    /\ stat \in Inodes \union {NoFile}
    /\ offset \in Nat
    /\ lines \in Seq(Nat)
    /\ reached \in Nat
    /\ delivered \in Seq(Nat)
    /\ mishaps \in SUBSET Mishaps

(* The log exists; which inode number it has makes no difference.          *)
Init ==
    /\ current = CHOOSE i \in Inodes : TRUE
    /\ rotated = {}
    /\ content = [i \in Inodes |-> <<>>]
    /\ writer = current
    /\ written = 0
    /\ left \in Rations
    /\ saved = [inode |-> NoFile, offset |-> 0]
    /\ pc = "idle"
    /\ stat = NoFile
    /\ offset = 0
    /\ lines = <<>>
    /\ reached = 0
    /\ delivered = <<>>
    /\ mishaps = {}

-----------------------------------------------------------------------------
(* read_from_offset.                                                       *)

(* What f.read() returns after f.seek(from): nothing beyond the end.       *)
Data(i, from) == SubSeq(content[i], from + 1, Len(content[i]))

IsLineEnd(u) == u % 2 = 0

(* data up to and with its last newline.                                   *)
CompleteLines(data) ==
    LET ends == {n \in DOMAIN data : IsLineEnd(data[n])}
    IN  IF ends = {} THEN <<>> ELSE SubSeq(data, 1, Max(ends))

-----------------------------------------------------------------------------
(* read_new_lines.                                                         *)

Finish ==
    /\ pc' = "idle"
    /\ stat' = NoFile
    /\ offset' = 0
    /\ lines' = <<>>
    /\ reached' = 0

(* Bug: a missing offset is not taken for 0 on the first run.              *)
StartWithoutDefault ==
    /\ pc = "idle"
    /\ current # NoFile
    /\ stat' = current
    /\ pc' = "read"
    /\ offset' = IF saved.inode = NoFile THEN NoFile ELSE saved.offset
    /\ UNCHANGED <<worldVars, saved, lines, reached, delivered, mishaps>>

(* Bug: the size of the file is not compared with the saved offset.        *)
StartUnchecked ==
    /\ pc = "idle"
    /\ current # NoFile
    /\ stat' = current
    /\ IF saved.inode \notin {NoFile, current}
       THEN pc' = "drain" /\ offset' = 0
       ELSE pc' = "read" /\ offset' = saved.offset
    /\ UNCHANGED <<worldVars, saved, lines, reached, delivered, mishaps>>

(* load_state, the check that the path exists, os.stat and the choice      *)
(* between the first run, a rotation, a truncation and a plain             *)
(* continuation.  A missing path ends the call with nothing changed.       *)
Start ==
    /\ pc = "idle"
    /\ current # NoFile
    /\ stat' = current
    /\ IF saved.inode \notin {NoFile, current}
       THEN pc' = "drain" /\ offset' = 0
       ELSE /\ pc' = "read"
            /\ offset' = IF \/ saved.inode = NoFile
                            \/ saved.offset > Len(content[current])
                         THEN 0 ELSE saved.offset
    /\ UNCHANGED <<worldVars, saved, lines, reached, delivered, mishaps>>

Findable == rotated \union ({current} \ {NoFile})

(* Bug: the old file is read again from its beginning.                     *)
DrainFromStart ==
    /\ pc = "drain"
    /\ lines' = IF saved.inode \in Findable
                THEN Data(saved.inode, 0) ELSE <<>>
    /\ pc' = "read"
    /\ mishaps' = mishaps \union
          (IF saved.inode = writer THEN {"late"} ELSE {})
    /\ UNCHANGED <<worldVars, saved, stat, offset, reached, delivered>>

(* Bug: the tail of the rotated file is forgotten.                         *)
DrainSkipped ==
    /\ pc = "drain"
    /\ lines' = <<>>
    /\ pc' = "read"
    /\ mishaps' = mishaps \union
          (IF saved.inode = writer THEN {"late"} ELSE {})
    /\ UNCHANGED <<worldVars, saved, stat, offset, reached, delivered>>

(* find_file_by_inode, and the rest of the old file with its partial tail. *)
Drain ==
    /\ pc = "drain"
    /\ lines' = IF saved.inode \in Findable
                THEN Data(saved.inode, saved.offset) ELSE <<>>
    /\ pc' = "read"
    /\ mishaps' = mishaps \union
          (IF saved.inode = writer THEN {"late"} ELSE {})
    /\ UNCHANGED <<worldVars, saved, stat, offset, reached, delivered>>

(* Bug: a half-written last line is consumed.                              *)
ReadPartialLine ==
    /\ pc = "read"
    /\ current # NoFile
    /\ LET new == Data(current, offset)
       IN  /\ lines' = lines \o new
           /\ reached' = offset + Len(new)
    /\ pc' = "save"
    /\ UNCHANGED <<worldVars, saved, stat, offset, delivered, mishaps>>

(* The complete lines of whatever file the path names now.                 *)
Read ==
    /\ pc = "read"
    /\ current # NoFile
    /\ LET new == CompleteLines(Data(current, offset))
       IN  /\ lines' = lines \o new
           /\ reached' = offset + Len(new)
    /\ pc' = "save"
    /\ UNCHANGED <<worldVars, saved, stat, offset, delivered, mishaps>>

(* The path is missing between a rename and a create: open raises.         *)
ReadFails ==
    /\ pc = "read"
    /\ current = NoFile
    /\ Finish
    /\ UNCHANGED <<worldVars, saved, delivered, mishaps>>

(* save_state with the inode that os.stat saw, and the return.             *)
Save ==
    /\ pc = "save"
    /\ saved' = [inode |-> stat, offset |-> reached]
    /\ delivered' = delivered \o lines
    /\ Finish
    /\ UNCHANGED <<worldVars, mishaps>>

(* The process is killed before save_state.                                *)
Crash ==
    /\ pc # "idle"
    /\ left.crashes > 0
    /\ left' = [left EXCEPT !.crashes = @ - 1]
    /\ Finish
    /\ UNCHANGED <<current, rotated, content, writer, written, saved,
                   delivered, mishaps>>

-----------------------------------------------------------------------------
(* The world: the logging daemon and logrotate.                            *)

(* The writer appends half a line to the file it has open.  A truncated    *)
(* file that grows back to the saved offset looks like one that was only   *)
(* appended to.                                                            *)
Write ==
    /\ written < MaxUnits
    /\ written' = written + 1
    /\ content' = [content EXCEPT ![writer] = Append(@, written + 1)]
    /\ mishaps' = mishaps \union
          (IF saved.inode = writer /\ saved.offset = Len(content[writer]) + 1
           THEN {"regrown"} ELSE {})
    /\ UNCHANGED <<current, rotated, writer, left, saved, pc, localVars,
                   delivered>>

(* logrotate renames the log.                                              *)
Rename ==
    /\ left.rotations > 0
    /\ current # NoFile
    /\ rotated' = rotated \union {current}
    /\ current' = NoFile
    /\ left' = [left EXCEPT !.rotations = @ - 1]
    /\ mishaps' = mishaps
          \union (IF saved.inode = NoFile THEN {"unread"} ELSE {})
          \union (IF saved.inode \notin {NoFile, current}
                  THEN {"twice"} ELSE {})
          \union (IF pc \in {"drain", "read"} THEN {"raced"} ELSE {})
          \union (IF saved.offset > Len(content[current])
                  THEN {"regrown"} ELSE {})
    /\ UNCHANGED <<content, writer, written, saved, pc, localVars, delivered>>

(* logrotate creates the new log, perhaps with the inode of a file that    *)
(* was deleted.                                                            *)
Create ==
    /\ current = NoFile
    /\ current' \in Inodes \ (rotated \union {writer})
    /\ content' = [content EXCEPT ![current'] = <<>>]
    /\ UNCHANGED <<rotated, writer, written, left, saved, pc, localVars,
                   delivered, mishaps>>

(* The writer is told to reopen its log; it does so between two lines.     *)
Reopen ==
    /\ current \notin {NoFile, writer}
    /\ IsLineEnd(written)
    /\ writer' = current
    /\ UNCHANGED <<current, rotated, content, written, left, saved, pc,
                   localVars, delivered, mishaps>>

(* A rotated file is compressed or deleted.                                *)
Discard ==
    /\ left.discards > 0
    /\ \E i \in rotated \ {writer} :
          /\ rotated' = rotated \ {i}
          /\ mishaps' = mishaps \union
                (IF saved.inode = i THEN {"gone"} ELSE {})
    /\ left' = [left EXCEPT !.discards = @ - 1]
    /\ UNCHANGED <<current, content, writer, written, saved, pc, localVars,
                   delivered>>

(* copytruncate: the log is copied away and emptied in place.              *)
Truncate ==
    /\ left.truncations > 0
    /\ current = writer
    /\ content[current] # <<>>
    /\ content' = [content EXCEPT ![current] = <<>>]
    /\ left' = [left EXCEPT !.truncations = @ - 1]
    /\ mishaps' = mishaps \union
          (IF saved # [inode |-> current, offset |-> Len(content[current])]
           THEN {"cut"} ELSE {})
    /\ UNCHANGED <<current, rotated, writer, written, saved, pc, localVars,
                   delivered>>

-----------------------------------------------------------------------------
ReaderStep == Start \/ Drain \/ Read \/ ReadFails \/ Save

WorldStep == Write \/ Rename \/ Create \/ Reopen \/ Discard \/ Truncate

Next == ReaderStep \/ Crash \/ WorldStep

Spec == Init /\ [][Next]_vars

(* run_loop.sh starts a cycle every five minutes for ever, and a rotation  *)
(* that has renamed the log creates the new one.                           *)
Fairness ==
    /\ WF_vars(ReaderStep)
    /\ WF_vars(Create)

FairSpec == Spec /\ Fairness

-----------------------------------------------------------------------------
(* Properties.                                                             *)

(* The first n units of the log, all of them and in order.                 *)
Upto(n) == [u \in 1 .. n |-> u]

(* Unless one of the mishaps occurred, what read_new_lines has returned    *)
(* over all its runs, through rotations, truncations and crashes           *)
(* of its own, is exactly a beginning of what was written: no line is      *)
(* skipped, repeated or reordered.                                         *)
ExactPrefix == mishaps = {} => delivered = Upto(Len(delivered))

(* A line is never returned in two parts, also not the last one of a       *)
(* rotated file, which is taken without its newline.                       *)
WholeLines ==
    mishaps = {} /\ delivered # <<>> => IsLineEnd(Last(delivered))

(* Whatever else goes wrong, lost files and ill-timed truncations          *)
(* included, no line is returned twice: only a rotation between os.stat    *)
(* and open can make that happen.                                          *)
NeverRepeated ==
    "raced" \notin mishaps =>
        \A m, n \in DOMAIN delivered : m < n => delivered[m] < delivered[n]

(* Every line that is written is returned in the end, unless one of the    *)
(* mishaps occurs: neither a truncation nor a rotation nor a crash leaves  *)
(* the reader stuck behind an offset.                                      *)
EventuallyDelivered ==
    \A n \in 1 .. MaxUnits \div 2 :
        written >= 2 * n ~> Len(delivered) >= 2 * n \/ mishaps # {}

(* "surviving log rotation": as long as every rotated file is still there  *)
(* uncompressed, the writer has moved on to the new file and no rotation   *)
(* falls into a read, no line is skipped, however often the log rotates.   *)
SurvivesRotation ==
    mishaps \subseteq {"twice"} => delivered = Upto(Len(delivered))

=============================================================================
