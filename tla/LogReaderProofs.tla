-------------------------- MODULE LogReaderProofs --------------------------
(***************************************************************************)
(* The log reader for any inodes, any number of lines and any numbers of   *)
(* rotations, discards, truncations and crashes: what it returns is a      *)
(* beginning of the log in whole lines, and nothing is returned twice.     *)
(*                                                                         *)
(* A position is an inode with an offset, and what it stands for changes   *)
(* when the log is renamed, recreated, reopened or truncated under the     *)
(* reader.  The invariants say what it stands for in each of these states. *)
(***************************************************************************)
EXTENDS LogReader, WellFoundedInduction, TLAPS

USE InodeAssumption, BoundAssumption

(* Max of a bounded set of positions is what its name says.                *)
LEMMA MaxOfPositions ==
    ASSUME NEW N \in Nat, NEW S, S \subseteq 1 .. N, S # {}
    PROVE  Max(S) \in S
<1> DEFINE less == {ss \in Nat \X Nat : ss[1] < ss[2]}
           T == {N - x : x \in S}
<1>1. IsWellFoundedOn(less, Nat)
  BY NatLessThanWellFounded DEF OpToRel
<1>2. \A x \in S : x \in Nat /\ N - x \in Nat
  OBVIOUS
<1>3. T \subseteq Nat /\ T # {}
  BY <1>2
<1>4. PICK t \in T : \A y \in T : <<y, t>> \notin less
  BY <1>1, <1>3, WFMin
<1>5. PICK m \in S : t = N - m
  OBVIOUS
<1>6. ASSUME NEW x \in S
      PROVE  m >= x
  <2>1. N - x \in T /\ m \in Nat /\ x \in Nat /\ N - m \in Nat /\ N - x \in Nat
    BY <1>2
  <2>2. ~ (N - x < N - m)
    BY <1>4, <1>5, <2>1
  <2> HIDE DEF T
  <2> QED
    BY <2>1, <2>2
<1> QED
  BY <1>6 DEF Max

(* What is read from an offset are the units behind it, nothing when the   *)
(* offset is beyond the end.                                               *)
LEMMA DataFacts ==
    ASSUME TypeOK, NEW i \in Inodes, NEW from \in Nat
    PROVE  /\ Data(i, from) \in Seq(Nat)
           /\ Len(Data(i, from)) =
                 IF from <= Len(content[i]) THEN Len(content[i]) - from ELSE 0
           /\ \A n \in 1 .. Len(Data(i, from)) :
                 Data(i, from)[n] = content[i][from + n]
<1>1. content[i] \in Seq(Nat) /\ Len(content[i]) \in Nat
  BY DEF TypeOK
<1>2. \A n \in 1 .. Len(content[i]) : content[i][n] \in Nat
  BY <1>1
<1> QED
  BY <1>1, <1>2 DEF Data

(* The complete lines are a beginning of the data that ends with a line.   *)
LEMMA CompleteLinesFacts ==
    ASSUME NEW data \in Seq(Nat), NEW new, new = CompleteLines(data)
    PROVE  /\ new \in Seq(Nat)
           /\ Len(new) <= Len(data)
           /\ \A n \in 1 .. Len(new) : new[n] = data[n]
           /\ Len(new) > 0 => IsLineEnd(new[Len(new)])
<1> DEFINE ends == {n \in DOMAIN data : IsLineEnd(data[n])}
<1>1. CASE ends = {}
  BY <1>1 DEF CompleteLines
<1>2. CASE ends # {}
  <2>1. Len(data) \in Nat /\ DOMAIN data = 1 .. Len(data)
    OBVIOUS
  <2>2. Max(ends) \in ends
    BY <1>2, <2>1, MaxOfPositions
  <2>3. PICK m \in 1 .. Len(data) : m = Max(ends) /\ IsLineEnd(data[m])
    BY <2>1, <2>2
  <2>4. new = SubSeq(data, 1, m)
    BY <1>2, <2>3 DEF CompleteLines
  <2> HIDE DEF ends
  <2>5. Len(new) = m /\ new \in Seq(Nat) /\ \A n \in 1 .. m : new[n] = data[n]
    BY <2>1, <2>4
  <2> QED
    BY <2>3, <2>5
<1> QED
  BY <1>1, <1>2

-----------------------------------------------------------------------------
(* The types.                                                              *)

LEMMA InitiallyTyped == Init => TypeOK
<1> SUFFICES ASSUME Init PROVE TypeOK
  OBVIOUS
<1>1. current \in Inodes /\ writer \in Inodes
  BY DEF Init
<1> QED
  BY <1>1 DEF Init, TypeOK

LEMMA ReadTyped ==
    ASSUME TypeOK, NEW i \in Inodes, NEW from \in Nat, NEW new,
           new = CompleteLines(Data(i, from))
    PROVE  new \in Seq(Nat) /\ Len(new) \in Nat
BY DataFacts, CompleteLinesFacts

LEMMA TypesKept == TypeOK /\ [Next]_vars => TypeOK'
<1> SUFFICES ASSUME TypeOK, [Next]_vars PROVE TypeOK'
  OBVIOUS
<1> USE DEF TypeOK
<1>1. CASE UNCHANGED vars
  BY <1>1 DEF vars
<1>2. CASE Start
  BY <1>2 DEF Start, worldVars
<1>3. CASE Drain
  <2>1. saved.inode \in Findable => saved.inode \in Inodes
    BY DEF Findable
  <2>2. lines' \in Seq(Nat)
    BY <1>3, <2>1, DataFacts DEF Drain
  <2> QED
    BY <1>3, <2>2 DEF Drain, worldVars, Mishaps
<1>4. CASE Read
  <2>1. current \in Inodes
    BY <1>4 DEF Read
  <2>2. PICK new : /\ new = CompleteLines(Data(current, offset))
                   /\ lines' = lines \o new
                   /\ reached' = offset + Len(new)
    BY <1>4 DEF Read
  <2>3. new \in Seq(Nat) /\ Len(new) \in Nat
    BY <2>1, <2>2, ReadTyped
  <2>4. lines' \in Seq(Nat) /\ reached' \in Nat
    BY <2>2, <2>3
  <2> QED
    BY <1>4, <2>4 DEF Read, worldVars
<1>5. CASE ReadFails
  BY <1>5 DEF ReadFails, Finish, worldVars
<1>6. CASE Save
  BY <1>6 DEF Save, Finish, worldVars
<1>7. CASE Crash
  <2>1. left' \in [rotations : Nat, discards : Nat, truncations : Nat,
                   crashes : Nat]
    <3>1. left.crashes > 0 /\ left.crashes \in Nat
      BY <1>7 DEF Crash
    <3>2. left.crashes - 1 \in Nat
      BY <3>1
    <3> QED
      BY <1>7, <3>2 DEF Crash
  <2>2. /\ Finish
        /\ UNCHANGED <<current, rotated, content, writer, written, saved,
                       delivered, mishaps>>
    BY <1>7 DEF Crash
  <2> QED
    BY <2>1, <2>2, SMTT(30) DEF Finish
<1>8. CASE Write
  <2>1. content' \in [Inodes -> Seq(Nat)]
    BY <1>8 DEF Write
  <2>2. mishaps' \in SUBSET Mishaps
    BY <1>8 DEF Write, Mishaps
  <2> QED
    BY <1>8, <2>1, <2>2 DEF Write, localVars
<1>9. CASE Rename
  <2>1. left' \in [rotations : Nat, discards : Nat, truncations : Nat,
                   crashes : Nat]
    <3>1. left.rotations > 0 /\ left.rotations \in Nat
      BY <1>9 DEF Rename
    <3>2. left.rotations - 1 \in Nat
      BY <3>1
    <3> QED
      BY <1>9, <3>2 DEF Rename
  <2>2. mishaps' \in SUBSET Mishaps
    BY <1>9 DEF Rename, Mishaps
  <2>3. current' = NoFile /\ rotated' \in SUBSET Inodes
    BY <1>9 DEF Rename
  <2>4. UNCHANGED <<content, writer, written, saved, pc, localVars, delivered>>
    BY <1>9 DEF Rename
  <2> QED
    BY <2>1, <2>2, <2>3, <2>4 DEF localVars
<1>10. CASE Create
  <2>1. current' \in Inodes /\ content' \in [Inodes -> Seq(Nat)]
    BY <1>10 DEF Create
  <2> QED
    BY <1>10, <2>1 DEF Create, localVars
<1>11. CASE Reopen
  BY <1>11 DEF Reopen, localVars
<1>12. CASE Discard
  <2>1. left' \in [rotations : Nat, discards : Nat, truncations : Nat,
                   crashes : Nat]
    <3>1. left.discards > 0 /\ left.discards \in Nat
      BY <1>12 DEF Discard
    <3>2. left.discards - 1 \in Nat
      BY <3>1
    <3> QED
      BY <1>12, <3>2 DEF Discard
  <2>2. rotated' \in SUBSET Inodes /\ mishaps' \in SUBSET Mishaps
    BY <1>12 DEF Discard, Mishaps
  <2>3. UNCHANGED <<current, content, writer, written, saved, pc, localVars,
                    delivered>>
    BY <1>12 DEF Discard
  <2> QED
    BY <2>1, <2>2, <2>3 DEF localVars
<1>13. CASE Truncate
  <2>1. left' \in [rotations : Nat, discards : Nat, truncations : Nat,
                   crashes : Nat]
    <3>1. left.truncations > 0 /\ left.truncations \in Nat
      BY <1>13 DEF Truncate
    <3>2. left.truncations - 1 \in Nat
      BY <3>1
    <3> QED
      BY <1>13, <3>2 DEF Truncate
  <2>2. content' \in [Inodes -> Seq(Nat)] /\ mishaps' \in SUBSET Mishaps
    BY <1>13, SMTT(30) DEF Truncate, Mishaps
  <2>3. UNCHANGED <<current, rotated, writer, written, saved, pc, localVars,
                    delivered>>
    BY <1>13 DEF Truncate
  <2> QED
    BY <2>1, <2>2, <2>3 DEF localVars
<1> QED
  BY <1>1, <1>2, <1>3, <1>4, <1>5, <1>6, <1>7, <1>8, <1>9, <1>10, <1>11,
     <1>12, <1>13 DEF Next, ReaderStep, WorldStep

(* Every reachable state is well typed.                                    *)
THEOREM LogReaderTypeCorrect == Spec => []TypeOK
BY InitiallyTyped, TypesKept, PTL DEF Spec

-----------------------------------------------------------------------------
(* The log itself, whatever the reader does.                               *)

(* The units of a file follow one another.                                 *)
InOneBlock(q) == \A m, n \in 1 .. Len(q) : q[n] + m = q[m] + n

(* The file that is open for writing ends with the newest unit.            *)
EndsWith(q, u) ==
    /\ Len(q) <= u
    /\ \A n \in 1 .. Len(q) : q[n] + Len(q) = u + n

(* Every unit of q is older than every unit of r.                          *)
OlderThan(q, r) ==
    \A m \in 1 .. Len(q) : \A n \in 1 .. Len(r) : q[m] < r[n]

UpTo(q, u) == \A n \in 1 .. Len(q) : q[n] <= u

LogInOrder ==
    /\ \A i \in Inodes : InOneBlock(content[i]) /\ UpTo(content[i], written)
    /\ EndsWith(content[writer], written)
    /\ \A i \in Inodes \ {writer} : OlderThan(content[i], content[writer])

(* A log that was created is empty until the writer opens it.              *)
Places ==
    /\ current \notin rotated
    /\ writer \in rotated \union {current}
    /\ current \notin {NoFile, writer} => content[current] = <<>>

LogInvariant == LogInOrder /\ Places

LEMMA SeqFacts ==
    ASSUME NEW q \in Seq(Nat)
    PROVE  Len(q) \in Nat /\ \A n \in 1 .. Len(q) : q[n] \in Nat
OBVIOUS

LEMMA ContentFacts ==
    ASSUME TypeOK, NEW i \in Inodes
    PROVE  /\ content[i] \in Seq(Nat)
           /\ Len(content[i]) \in Nat
           /\ \A n \in 1 .. Len(content[i]) : content[i][n] \in Nat
<1>1. content[i] \in Seq(Nat)
  BY DEF TypeOK
<1> QED
  BY <1>1, SeqFacts

(* What Write does to the file that is open.                               *)
LEMMA WriteFacts ==
    ASSUME TypeOK, Write
    PROVE  /\ Len(content'[writer]) = Len(content[writer]) + 1
           /\ \A n \in 1 .. Len(content[writer]) :
                 content'[writer][n] = content[writer][n]
           /\ content'[writer][Len(content[writer]) + 1] = written + 1
           /\ \A i \in Inodes \ {writer} : content'[i] = content[i]
<1> DEFINE q == content[writer]
<1>1. q \in Seq(Nat) /\ written + 1 \in Nat /\ writer \in Inodes
  BY DEF TypeOK
<1>2. content'[writer] = Append(q, written + 1)
  BY <1>1 DEF Write, TypeOK
<1>3. \A i \in Inodes \ {writer} : content'[i] = content[i]
  BY <1>1 DEF Write, TypeOK
<1> HIDE DEF q
<1>4. /\ Len(Append(q, written + 1)) = Len(q) + 1
      /\ \A n \in 1 .. Len(q) : Append(q, written + 1)[n] = q[n]
      /\ Append(q, written + 1)[Len(q) + 1] = written + 1
  BY <1>1
<1> QED
  BY <1>2, <1>3, <1>4 DEF q

LEMMA WriteInOrder ==
    ASSUME TypeOK, LogInvariant, Write
    PROVE  LogInOrder'
<1> DEFINE N == Len(content[writer])
<1>1. writer' = writer /\ written' = written + 1 /\ written \in Nat
      /\ writer \in Inodes
  BY DEF Write, TypeOK
<1>2. N \in Nat /\ N <= written /\ \A n \in 1 .. N : content[writer][n] \in Nat
  BY <1>1, ContentFacts DEF LogInvariant, LogInOrder, EndsWith
<1>3. /\ Len(content'[writer]) = N + 1
      /\ \A n \in 1 .. N : content'[writer][n] = content[writer][n]
      /\ content'[writer][N + 1] = written + 1
      /\ \A n \in 1 .. N : content[writer][n] + N = written + n
  BY WriteFacts DEF LogInvariant, LogInOrder, EndsWith
<1> HIDE DEF N
<1>4. ASSUME NEW n \in 1 .. N + 1
      PROVE  /\ content'[writer][n] \in Nat
             /\ content'[writer][n] + N = written + n
  <2>1. CASE n = N + 1
    <3>1. content'[writer][n] = written + 1
      BY <1>3, <2>1
    <3>2. written \in Nat /\ N \in Nat
      BY <1>1, <1>2
    <3> QED
      BY <2>1, <3>1, <3>2
  <2>2. CASE n \in 1 .. N
    <3>1. content'[writer][n] = content[writer][n]
          /\ content[writer][n] \in Nat /\ content[writer][n] + N = written + n
      BY <1>2, <1>3, <2>2
    <3> QED
      BY <3>1
  <2> QED
    BY <1>2, <2>1, <2>2
<1> DEFINE q == content'[writer]
<1>q. /\ Len(q) = N + 1
      /\ \A n \in 1 .. N + 1 : q[n] \in Nat /\ q[n] + N = written + n
  BY <1>3, <1>4
<1> HIDE DEF q
<1>5. EndsWith(q, written + 1)
  <2>1. ASSUME NEW n \in 1 .. N + 1
        PROVE  q[n] + (N + 1) = (written + 1) + n
    <3>1. q[n] \in Nat /\ q[n] + N = written + n
      BY <1>q
    <3>2. written \in Nat /\ N \in Nat /\ n \in Nat
      BY <1>1, <1>2
    <3> QED
      BY <3>1, <3>2
  <2> QED
    BY <1>1, <1>2, <1>q, <2>1 DEF EndsWith
<1>6. InOneBlock(q) /\ UpTo(q, written + 1)
  <2>1. ASSUME NEW m \in 1 .. N + 1, NEW n \in 1 .. N + 1
        PROVE  q[n] + m = q[m] + n /\ q[n] <= written + 1
    <3>1. /\ q[n] \in Nat /\ q[n] + N = written + n
          /\ q[m] \in Nat /\ q[m] + N = written + m
      BY <1>q
    <3>2. written \in Nat /\ N \in Nat /\ n \in Nat /\ m \in Nat /\ n <= N + 1
      BY <1>1, <1>2
    <3> QED
      BY <3>1, <3>2
  <2> QED
    BY <1>q, <2>1 DEF InOneBlock, UpTo
<1> USE DEF q
<1>7. ASSUME NEW i \in Inodes \ {writer}
      PROVE  /\ InOneBlock(content'[i]) /\ UpTo(content'[i], written + 1)
             /\ OlderThan(content'[i], content'[writer])
  <2>1. content'[i] = content[i]
    BY WriteFacts
  <2>2. UpTo(content[i], written) /\ InOneBlock(content[i])
        /\ OlderThan(content[i], content[writer])
    BY DEF LogInvariant, LogInOrder
  <2>3. Len(content[i]) \in Nat /\ \A m \in 1 .. Len(content[i]) : content[i][m] \in Nat
    BY ContentFacts
  <2>4. UpTo(content[i], written + 1)
    BY <1>1, <2>2, <2>3 DEF UpTo
  <2>5. ASSUME NEW m \in 1 .. Len(content[i]), NEW n \in 1 .. N + 1
        PROVE  content[i][m] < content'[writer][n]
    <3>1. CASE n = N + 1
      BY <1>1, <2>2, <2>3, <3>1, WriteFacts DEF UpTo, N
    <3>2. CASE n \in 1 .. N
      BY <2>2, <3>2, WriteFacts DEF OlderThan, N
    <3> QED
      BY <1>2, <3>1, <3>2
  <2> QED
    BY <1>3, <2>1, <2>2, <2>4, <2>5 DEF OlderThan
<1>8. \A i \in Inodes : InOneBlock(content'[i]) /\ UpTo(content'[i], written + 1)
  BY <1>6, <1>7
<1> QED
  BY <1>1, <1>5, <1>7, <1>8 DEF LogInOrder

(* A file that is emptied, and a change of the writer to an empty file.    *)
LEMMA EmptiedInOrder ==
    ASSUME TypeOK, LogInOrder, NEW i \in Inodes, UNCHANGED <<writer, written>>,
           content' = [content EXCEPT ![i] = <<>>]
    PROVE  LogInOrder'
<1>1. Len(<<>>) = 0 /\ written \in Nat /\ writer \in Inodes
  BY DEF TypeOK
<1>2. \A j \in Inodes : content'[j] = IF j = i THEN <<>> ELSE content[j]
  BY DEF TypeOK
<1>3. ASSUME NEW q
      PROVE  /\ InOneBlock(<<>>) /\ UpTo(<<>>, written)
             /\ EndsWith(<<>>, written)
             /\ OlderThan(<<>>, q) /\ OlderThan(q, <<>>)
  BY <1>1 DEF InOneBlock, UpTo, EndsWith, OlderThan
<1>4. \A j \in Inodes : InOneBlock(content'[j]) /\ UpTo(content'[j], written)
  BY <1>2, <1>3 DEF LogInOrder
<1>5. EndsWith(content'[writer], written)
  BY <1>1, <1>2, <1>3 DEF LogInOrder
<1>6. \A j \in Inodes \ {writer} : OlderThan(content'[j], content'[writer])
  BY <1>1, <1>2, <1>3 DEF LogInOrder
<1> QED
  BY <1>4, <1>5, <1>6 DEF LogInOrder

LEMMA ReopenInOrder ==
    ASSUME TypeOK, LogInvariant, Reopen
    PROVE  LogInOrder'
<1>1. content[current] = <<>> /\ writer' = current
      /\ UNCHANGED <<content, written>>
  BY DEF Reopen, LogInvariant, Places
<1>2. Len(<<>>) = 0 /\ written \in Nat
  BY DEF TypeOK
<1>3. EndsWith(content'[writer'], written')
  BY <1>1, <1>2 DEF EndsWith
<1>4. \A i \in Inodes : OlderThan(content[i], content'[writer'])
  BY <1>1, <1>2 DEF OlderThan
<1> QED
  BY <1>1, <1>3, <1>4 DEF LogInvariant, LogInOrder

LEMMA LogInvariantKept ==
    TypeOK /\ LogInvariant /\ [Next]_vars => LogInvariant'
<1> SUFFICES ASSUME TypeOK, LogInvariant, [Next]_vars PROVE LogInvariant'
  OBVIOUS
<1> USE DEF LogInvariant
<1>1. CASE UNCHANGED <<current, rotated, content, writer, written>>
  BY <1>1 DEF LogInOrder, Places
<1>2. CASE Write
  <2>1. Places'
    BY <1>2, WriteFacts DEF Write, Places, TypeOK
  <2> QED
    BY <1>2, <2>1, WriteInOrder
<1>3. CASE Rename
  BY <1>3 DEF Rename, LogInOrder, Places, TypeOK
<1>4. CASE Create
  <2>1. current' \in Inodes /\ writer # current' /\ content'[current'] = <<>>
    BY <1>4 DEF Create, TypeOK
  <2>2. LogInOrder'
    BY <1>4, <2>1, EmptiedInOrder DEF Create
  <2>3. Places'
    BY <1>4, <2>1 DEF Create, Places, TypeOK
  <2> QED
    BY <2>2, <2>3
<1>5. CASE Reopen
  <2>1. Places'
    BY <1>5 DEF Reopen, Places
  <2> QED
    BY <1>5, <2>1, ReopenInOrder
<1>6. CASE Discard
  <2>1. UNCHANGED <<current, content, writer, written>>
    BY <1>6 DEF Discard
  <2>2. PICK i \in rotated \ {writer} : rotated' = rotated \ {i}
    BY <1>6 DEF Discard
  <2> QED
    BY <2>1, <2>2 DEF LogInOrder, Places
<1>7. CASE Truncate
  <2>1. current \in Inodes /\ current = writer
        /\ UNCHANGED <<current, rotated, writer, written>>
        /\ content' = [content EXCEPT ![current] = <<>>]
    BY <1>7 DEF Truncate, TypeOK
  <2>2. LogInOrder'
    BY <2>1, EmptiedInOrder
  <2>3. Places'
    BY <2>1 DEF Places
  <2> QED
    BY <2>2, <2>3
<1> QED
  BY <1>1, <1>2, <1>3, <1>4, <1>5, <1>6, <1>7
  DEF Next, ReaderStep, WorldStep, Start, Drain, Read, ReadFails, Save, Crash,
      worldVars, vars

LEMMA LogInvariantInitially == Init => LogInvariant
<1> SUFFICES ASSUME Init PROVE LogInvariant
  OBVIOUS
<1>1. TypeOK /\ writer \in Inodes /\ current = writer /\ rotated = {}
  BY InitiallyTyped DEF Init, TypeOK
<1>2. \A i \in Inodes : content[i] = <<>>
  BY DEF Init
<1>3. Len(<<>>) = 0 /\ written = 0
  BY DEF Init
<1>4. LogInOrder
  BY <1>1, <1>2, <1>3 DEF LogInOrder, InOneBlock, UpTo, EndsWith, OlderThan
<1> QED
  BY <1>1, <1>4 DEF LogInvariant, Places

-----------------------------------------------------------------------------
(* Nothing is returned twice.                                              *)

Log == [content |-> content, current |-> current, rotated |-> rotated,
        writer  |-> writer,  written |-> written]

(* The offset that the reader goes on from.                                *)
Position == IF pc = "read" THEN offset ELSE reached

(* The units of q are older than those of the file r behind the offset,    *)
(* and than all of them when r has been truncated below it.                *)
Behind(q, off, r) ==
    \A m \in 1 .. Len(q) : \A n \in 1 .. Len(r) :
        n > off \/ off > Len(r) => q[m] < r[n]

(* Whatever can still be read from the position is newer than q.           *)
Ahead(log, q, i, off) ==
    /\ Behind(q, off, log.content[i])
    /\ log.current \notin {NoFile, i} => OlderThan(q, log.content[log.current])
    /\ UpTo(q, log.written)

Increasing(q) == \A m, n \in 1 .. Len(q) : m < n => q[m] < q[n]

ReadOnce ==
    /\ Increasing(delivered)
    /\ Increasing(lines)
    /\ OlderThan(delivered, lines)
    /\ IF saved.inode = NoFile
       THEN delivered = <<>>
       ELSE Ahead(Log, delivered, saved.inode, saved.offset)
    /\ pc \in {"read", "save"} =>
          /\ stat # NoFile
          /\ Ahead(Log, delivered, stat, Position)
          /\ Ahead(Log, lines, stat, Position)
    /\ pc \in {"idle", "drain"} => lines = <<>>
    /\ pc \in {"drain", "read"} => stat = current /\ stat # NoFile
    /\ pc = "drain" => offset = 0 /\ saved.inode \notin {NoFile, stat}

OnceInvariant == "raced" \notin mishaps => ReadOnce

LEMMA NothingIsOld ==
    ASSUME NEW log, NEW q, NEW i, NEW off
    PROVE  /\ Ahead(log, <<>>, i, off)
           /\ Increasing(<<>>)
           /\ OlderThan(<<>>, q) /\ OlderThan(q, <<>>)
<1>1. Len(<<>>) = 0
  OBVIOUS
<1> QED
  BY <1>1 DEF Ahead, Behind, OlderThan, UpTo, Increasing

LEMMA WriteAhead ==
    ASSUME TypeOK, Write, NEW q \in Seq(Nat), NEW i \in Inodes, NEW off \in Nat,
           Ahead(Log, q, i, off)
    PROVE  Ahead(Log', q, i, off)
<1>1. UNCHANGED <<current, writer>> /\ written' = written + 1
      /\ written \in Nat /\ writer \in Inodes
  BY DEF Write, TypeOK
<1>2. /\ Behind(q, off, content[i])
      /\ current \notin {NoFile, i} => OlderThan(q, content[current])
      /\ UpTo(q, written)
  BY DEF Ahead, Log
<1>3. /\ Len(q) \in Nat
      /\ \A m \in 1 .. Len(q) : q[m] \in Nat /\ q[m] <= written
  BY <1>2 DEF UpTo
<1> DEFINE r == content[writer]
           s == content'[writer]
<1>4. Len(r) \in Nat /\ Len(s) = Len(r) + 1 /\ s[Len(r) + 1] = written + 1
      /\ \A n \in 1 .. Len(r) : s[n] = r[n]
  BY <1>1, ContentFacts, WriteFacts
<1> HIDE DEF r, s
<1>5. UpTo(q, written + 1)
  BY <1>1, <1>3 DEF UpTo
<1>6. ASSUME NEW m \in 1 .. Len(q), NEW n \in 1 .. Len(s)
      PROVE  (n \in 1 .. Len(r) /\ s[n] = r[n]) \/ q[m] < s[n]
  <2>1. CASE n = Len(r) + 1
    <3>1. s[n] = written + 1
      BY <1>4, <2>1
    <3> QED
      BY <1>1, <1>3, <3>1
  <2>2. CASE n \in 1 .. Len(r)
    BY <1>4, <2>2
  <2> QED
    BY <1>4, <2>1, <2>2
<1>7. ASSUME Behind(q, off, r)
      PROVE  Behind(q, off, s)
  <2>1. ASSUME NEW m \in 1 .. Len(q), NEW n \in 1 .. Len(s),
               n > off \/ off > Len(s), n \in 1 .. Len(r), s[n] = r[n]
        PROVE  q[m] < s[n]
    <3>1. n > off \/ off > Len(r)
      BY <1>4, <2>1
    <3> QED
      BY <1>7, <2>1, <3>1 DEF Behind
  <2> QED
    BY <1>6, <2>1 DEF Behind
<1>8. ASSUME OlderThan(q, r)
      PROVE  OlderThan(q, s)
  BY <1>6, <1>8 DEF OlderThan
<1>9. \A j \in Inodes \ {writer} : content'[j] = content[j]
  BY WriteFacts
<1>10. Behind(q, off, content'[i])
  BY <1>2, <1>7, <1>9 DEF r, s
<1>11. current \notin {NoFile, i} => OlderThan(q, content'[current])
  BY <1>2, <1>8, <1>9 DEF r, s, TypeOK
<1> QED
  BY <1>1, <1>5, <1>10, <1>11 DEF Ahead, Log

LEMMA EmptiedAhead ==
    ASSUME TypeOK, NEW q \in Seq(Nat), NEW i \in Inodes, NEW off \in Nat,
           NEW j \in Inodes, Ahead(Log, q, i, off), UNCHANGED written,
           current' = j, current \in {NoFile, j},
           content' = [content EXCEPT ![j] = <<>>]
    PROVE  Ahead(Log', q, i, off)
<1>1. \A k \in Inodes : content'[k] = IF k = j THEN <<>> ELSE content[k]
  BY DEF TypeOK
<1>2. Len(<<>>) = 0
  OBVIOUS
<1>3. Behind(q, off, <<>>) /\ OlderThan(q, <<>>)
  BY <1>2 DEF Behind, OlderThan
<1>4. Behind(q, off, content[i]) /\ UpTo(q, written)
  BY DEF Ahead, Log
<1>5. Behind(q, off, content'[i])
  BY <1>1, <1>3, <1>4
<1>6. OlderThan(q, content'[current'])
  BY <1>1, <1>3
<1> QED
  BY <1>4, <1>5, <1>6 DEF Ahead, Log

(* No step of the world brings old units in front of a position.           *)
LEMMA WorldAhead ==
    ASSUME TypeOK, WorldStep, NEW q \in Seq(Nat), NEW i \in Inodes,
           NEW off \in Nat, Ahead(Log, q, i, off)
    PROVE  Ahead(Log', q, i, off)
<1>1. CASE Write
  BY <1>1, WriteAhead
<1>2. CASE Rename
  BY <1>2 DEF Rename, Ahead, Log
<1>3. CASE Create
  <2>1. current' \in Inodes /\ current = NoFile /\ UNCHANGED written
        /\ content' = [content EXCEPT ![current'] = <<>>]
    BY <1>3 DEF Create
  <2> QED
    BY <2>1, EmptiedAhead
<1>4. CASE Reopen
  BY <1>4 DEF Reopen, Ahead, Log
<1>5. CASE Discard
  BY <1>5 DEF Discard, Ahead, Log
<1>6. CASE Truncate
  <2>1. current \in Inodes /\ UNCHANGED <<current, written>>
        /\ content' = [content EXCEPT ![current] = <<>>]
    BY <1>6 DEF Truncate, TypeOK
  <2> QED
    BY <2>1, EmptiedAhead
<1> QED
  BY <1>1, <1>2, <1>3, <1>4, <1>5, <1>6 DEF WorldStep

LEMMA WorldReadOnce ==
    ASSUME TypeOK, ReadOnce, WorldStep, "raced" \notin mishaps'
    PROVE  ReadOnce'
<1>1. UNCHANGED <<saved, pc, stat, offset, lines, reached, delivered>>
  BY DEF WorldStep, Write, Rename, Create, Reopen, Discard, Truncate, localVars
<1>2. /\ delivered \in Seq(Nat) /\ lines \in Seq(Nat)
      /\ saved.inode \in Inodes \union {NoFile} /\ saved.offset \in Nat
      /\ stat \in Inodes \union {NoFile} /\ Position \in Nat
      /\ Position' = Position
  BY <1>1 DEF TypeOK, Position
<1>3. saved.inode # NoFile => Ahead(Log', delivered, saved.inode, saved.offset)
  BY <1>2, WorldAhead DEF ReadOnce
<1>4. pc \in {"read", "save"} =>
         /\ Ahead(Log', delivered, stat, Position)
         /\ Ahead(Log', lines, stat, Position)
  BY <1>2, WorldAhead DEF ReadOnce
<1>5. pc \in {"drain", "read"} => current' = current
  <2>1. SUFFICES ASSUME pc \in {"drain", "read"} PROVE current' = current
    OBVIOUS
  <2>2. current # NoFile
    BY <2>1 DEF ReadOnce
  <2>3. ~ Rename
    BY <2>1 DEF Rename
  <2> QED
    BY <2>2, <2>3 DEF WorldStep, Write, Create, Reopen, Discard, Truncate
<1> QED
  BY <1>1, <1>2, <1>3, <1>4, <1>5 DEF ReadOnce

LEMMA StartReadOnce ==
    ASSUME TypeOK, ReadOnce, Start
    PROVE  ReadOnce'
<1>1. /\ UNCHANGED <<saved, lines, delivered>>
      /\ Log' = Log /\ current' = current
      /\ lines = <<>> /\ lines' = <<>> /\ stat' = current /\ stat' # NoFile
      /\ pc' \in {"drain", "read"}
  BY DEF Start, ReadOnce, worldVars, Log
<1>2. CASE pc' = "drain"
  <2>1. offset' = 0 /\ saved.inode \notin {NoFile, current}
    BY <1>2 DEF Start
  <2> QED
    BY <1>1, <1>2, <2>1 DEF ReadOnce
<1>3. CASE pc' = "read"
  <2>1. saved.inode \in {NoFile, current} /\ Position' = offset'
        /\ offset' = IF saved.inode = NoFile \/ saved.offset > Len(content[current])
                     THEN 0 ELSE saved.offset
    BY <1>3 DEF Start, Position
  <2>2. Ahead(Log, delivered, stat', offset')
    <3>1. CASE saved.inode = NoFile
      BY <3>1, NothingIsOld DEF ReadOnce
    <3>2. CASE saved.inode = current /\ saved.inode # NoFile
      <4>1. Ahead(Log, delivered, current, saved.offset)
        BY <3>2 DEF ReadOnce
      <4>2. CASE saved.offset > Len(content[current])
        BY <1>1, <2>1, <4>1, <4>2 DEF Ahead, Behind, Log
      <4>3. CASE ~ (saved.offset > Len(content[current]))
        BY <1>1, <2>1, <3>2, <4>1, <4>3
      <4> QED
        BY <4>2, <4>3
    <3> QED
      BY <2>1, <3>1, <3>2
  <2>3. Ahead(Log', delivered', stat', Position')
        /\ Ahead(Log', lines', stat', Position')
    BY <1>1, <2>1, <2>2, NothingIsOld
  <2> QED
    BY <1>1, <1>3, <2>3 DEF ReadOnce
<1> QED
  BY <1>1, <1>2, <1>3

(* What is drained is newer than what was returned and older than the log. *)
LEMMA DrainReadOnce ==
    ASSUME TypeOK, LogInvariant, ReadOnce, Drain
    PROVE  ReadOnce'
<1>1. /\ UNCHANGED <<saved, delivered>> /\ Log' = Log
      /\ stat' = stat /\ stat = current /\ current' = current
      /\ offset' = 0 /\ pc' = "read" /\ Position' = 0
      /\ stat \in Inodes /\ saved.inode \in Inodes /\ saved.inode # stat
      /\ saved.offset \in Nat
  BY DEF Drain, ReadOnce, worldVars, Log, Position, TypeOK
<1> DEFINE old == content[saved.inode]
           new == content[current]
           off == saved.offset
<1>2. /\ old \in Seq(Nat) /\ Len(old) \in Nat
      /\ \A n \in 1 .. Len(old) : old[n] \in Nat
      /\ new \in Seq(Nat) /\ Len(new) \in Nat
  BY <1>1, ContentFacts
<1>3. /\ Behind(delivered, off, old) /\ OlderThan(delivered, new)
      /\ UpTo(delivered, written)
  BY <1>1 DEF ReadOnce, Ahead, Log
<1>4. InOneBlock(old) /\ UpTo(old, written)
  BY <1>1 DEF LogInvariant, LogInOrder
<1>5. OlderThan(old, new)
  <2>1. CASE current = writer
    BY <1>1, <2>1 DEF LogInvariant, LogInOrder
  <2>2. CASE current # writer
    <3>1. new = <<>>
      BY <1>1, <2>2 DEF LogInvariant, Places, TypeOK
    <3> QED
      BY <3>1, NothingIsOld
  <2> QED
    BY <2>1, <2>2
<1>6. /\ lines' \in Seq(Nat)
      /\ \A n \in 1 .. Len(lines') : /\ off + n \in 1 .. Len(old)
                                     /\ lines'[n] = old[off + n]
  <2>1. CASE saved.inode \in Findable
    <3>1. lines' = Data(saved.inode, off)
      BY <2>1 DEF Drain
    <3>2. /\ lines' \in Seq(Nat)
          /\ Len(lines') = IF off <= Len(old) THEN Len(old) - off ELSE 0
          /\ \A n \in 1 .. Len(lines') : lines'[n] = old[off + n]
      BY <1>1, <3>1, DataFacts
    <3> HIDE DEF old, off
    <3>3. off \in Nat
      BY <1>1 DEF off
    <3> QED
      BY <1>2, <3>2, <3>3
  <2>2. CASE saved.inode \notin Findable
    <3>1. lines' = <<>> /\ Len(<<>>) = 0
      BY <2>2 DEF Drain
    <3> QED
      BY <3>1
  <2> QED
    BY <2>1, <2>2
<1>7. Len(lines') \in Nat /\ off \in Nat
  BY <1>1, <1>6
<1> HIDE DEF old, new, off
<1>8. Increasing(lines')
  <2>1. ASSUME NEW m \in 1 .. Len(lines'), NEW n \in 1 .. Len(lines'), m < n
        PROVE  lines'[m] < lines'[n]
    <3>1. /\ lines'[m] = old[off + m] /\ old[off + m] \in Nat
          /\ lines'[n] = old[off + n] /\ old[off + n] \in Nat
          /\ old[off + n] + (off + m) = old[off + m] + (off + n)
      BY <1>2, <1>4, <1>6 DEF InOneBlock
    <3>2. m \in Nat /\ n \in Nat
      BY <1>7
    <3> QED
      BY <1>7, <2>1, <3>1, <3>2
  <2> QED
    BY <2>1 DEF Increasing
<1>9. OlderThan(delivered, lines')
  <2>1. ASSUME NEW m \in 1 .. Len(delivered), NEW n \in 1 .. Len(lines')
        PROVE  delivered[m] < lines'[n]
    <3>1. off + n > off
      BY <1>7
    <3> QED
      BY <1>3, <1>6, <3>1 DEF Behind
  <2> QED
    BY <2>1 DEF OlderThan
<1>10. OlderThan(lines', new) /\ UpTo(lines', written)
  BY <1>4, <1>5, <1>6 DEF OlderThan, UpTo
<1>11. Ahead(Log, delivered, stat, 0) /\ Ahead(Log, lines', stat, 0)
  BY <1>1, <1>3, <1>10 DEF Ahead, Behind, OlderThan, Log, new
<1> QED
  BY <1>1, <1>8, <1>9, <1>11 DEF ReadOnce

(* A sequence that is continued with newer units.                          *)
LEMMA ContinuedInOrder ==
    ASSUME NEW q \in Seq(Nat), NEW r \in Seq(Nat), OlderThan(q, r),
           Increasing(q), Increasing(r)
    PROVE  /\ q \o r \in Seq(Nat)
           /\ Increasing(q \o r)
           /\ Len(q \o r) = Len(q) + Len(r)
           /\ \A n \in 1 .. Len(q) : (q \o r)[n] = q[n]
           /\ \A n \in 1 .. Len(r) : (q \o r)[Len(q) + n] = r[n]
<1>1. /\ q \o r \in Seq(Nat)
      /\ Len(q) \in Nat /\ Len(r) \in Nat
      /\ Len(q \o r) = Len(q) + Len(r)
      /\ \A n \in 1 .. Len(q) : (q \o r)[n] = q[n]
      /\ \A n \in 1 .. Len(r) : (q \o r)[Len(q) + n] = r[n]
  OBVIOUS
<1> DEFINE t == q \o r
<1>2. /\ Len(t) = Len(q) + Len(r)
      /\ \A n \in 1 .. Len(q) : t[n] = q[n]
      /\ \A n \in 1 .. Len(r) : t[Len(q) + n] = r[n]
  BY <1>1
<1> HIDE DEF t
<1>3. ASSUME NEW m \in 1 .. Len(t), NEW n \in 1 .. Len(t), m < n
      PROVE  t[m] < t[n]
  <2>1. m \in Nat /\ n \in Nat /\ m \in 1 .. Len(q) + Len(r)
        /\ n \in 1 .. Len(q) + Len(r)
    BY <1>1, <1>2
  <2>2. CASE n \in 1 .. Len(q)
    <3>1. m \in 1 .. Len(q)
      BY <1>1, <1>3, <2>1, <2>2
    <3> QED
      BY <1>2, <1>3, <2>2, <3>1 DEF Increasing
  <2>3. CASE n \notin 1 .. Len(q)
    <3>1. PICK k \in 1 .. Len(r) : n = Len(q) + k
      <4>1. n - Len(q) \in 1 .. Len(r) /\ n = Len(q) + (n - Len(q))
        BY <1>1, <2>1, <2>3
      <4> QED
        BY <4>1
    <3>2. CASE m \in 1 .. Len(q)
      BY <1>2, <3>1, <3>2 DEF OlderThan
    <3>3. CASE m \notin 1 .. Len(q)
      <4>1. PICK j \in 1 .. Len(r) : m = Len(q) + j
        <5>1. m - Len(q) \in 1 .. Len(r) /\ m = Len(q) + (m - Len(q))
          BY <1>1, <2>1, <3>3
        <5> QED
          BY <5>1
      <4>2. j < k
        BY <1>1, <1>3, <3>1, <4>1
      <4> QED
        BY <1>2, <3>1, <4>1, <4>2 DEF Increasing
    <3> QED
      BY <3>2, <3>3
  <2> QED
    BY <2>2, <2>3
<1>4. Increasing(t)
  BY <1>3 DEF Increasing
<1> QED
  BY <1>1, <1>4 DEF t

MadeOf(t, q, r) ==
    \A n \in 1 .. Len(t) : \/ \E m \in 1 .. Len(q) : t[n] = q[m]
                           \/ \E m \in 1 .. Len(r) : t[n] = r[m]

LEMMA ContinuedElements ==
    ASSUME NEW q \in Seq(Nat), NEW r \in Seq(Nat)
    PROVE  MadeOf(q \o r, q, r)
<1> SUFFICES ASSUME NEW n \in 1 .. Len(q \o r)
             PROVE  \/ \E m \in 1 .. Len(q) : (q \o r)[n] = q[m]
                    \/ \E m \in 1 .. Len(r) : (q \o r)[n] = r[m]
  BY DEF MadeOf
<1>1. /\ Len(q) \in Nat /\ Len(r) \in Nat
      /\ Len(q \o r) = Len(q) + Len(r)
      /\ \A k \in 1 .. Len(q) : (q \o r)[k] = q[k]
      /\ \A k \in 1 .. Len(r) : (q \o r)[Len(q) + k] = r[k]
  OBVIOUS
<1>2. CASE n \in 1 .. Len(q)
  BY <1>1, <1>2
<1>3. CASE n \notin 1 .. Len(q)
  <2>1. n - Len(q) \in 1 .. Len(r) /\ n = Len(q) + (n - Len(q))
    BY <1>1, <1>3
  <2> QED
    BY <1>1, <2>1
<1> QED
  BY <1>2, <1>3

(* The lines that Read adds: the units of the log from the offset on, as   *)
(* far as there are any.                                                   *)
LEMMA NewLinesFacts ==
    ASSUME TypeOK, Read, NEW new, new = CompleteLines(Data(current, offset))
    PROVE  /\ new \in Seq(Nat) /\ Len(new) \in Nat
           /\ lines' = lines \o new /\ reached' = offset + Len(new)
           /\ Len(new) > 0 => IsLineEnd(new[Len(new)])
           /\ \/ offset + Len(new) <= Len(content[current])
              \/ offset > Len(content[current]) /\ Len(new) = 0
           /\ \A n \in 1 .. Len(new) :
                 /\ offset + n \in 1 .. Len(content[current])
                 /\ new[n] = content[current][offset + n]
<1>1. current \in Inodes /\ offset \in Nat /\ Len(content[current]) \in Nat
  BY ContentFacts DEF Read, TypeOK
<1>2. PICK data : data = Data(current, offset)
  OBVIOUS
<1>3. /\ data \in Seq(Nat)
      /\ Len(data) = IF offset <= Len(content[current])
                     THEN Len(content[current]) - offset ELSE 0
      /\ \A n \in 1 .. Len(data) : data[n] = content[current][offset + n]
  BY <1>1, <1>2, DataFacts
<1>4. /\ new \in Seq(Nat) /\ Len(new) \in Nat /\ Len(new) <= Len(data)
      /\ \A n \in 1 .. Len(new) : new[n] = data[n]
      /\ Len(new) > 0 => IsLineEnd(new[Len(new)])
  BY <1>2, <1>3, CompleteLinesFacts, SMTT(30)
<1>5. ASSUME NEW n \in 1 .. Len(new)
      PROVE  /\ offset + n \in 1 .. Len(content[current])
             /\ new[n] = content[current][offset + n]
  <2>1. n \in 1 .. Len(data)
    BY <1>3, <1>4
  <2>2. n \in Nat /\ 1 <= n /\ n <= Len(content[current]) - offset
        /\ offset <= Len(content[current])
    BY <1>1, <1>3, <2>1
  <2> QED
    BY <1>1, <1>3, <1>4, <2>1, <2>2, SMTT(30)
<1>6. \/ offset + Len(new) <= Len(content[current])
      \/ offset > Len(content[current]) /\ Len(new) = 0
  BY <1>1, <1>3, <1>4
<1>7. lines' = lines \o new /\ reached' = offset + Len(new)
  BY DEF Read
<1> QED
  BY <1>4, <1>5, <1>6, <1>7

LEMMA ReadReadOnce ==
    ASSUME TypeOK, LogInvariant, ReadOnce, Read
    PROVE  ReadOnce'
<1>1. /\ UNCHANGED <<saved, delivered, stat, offset>> /\ Log' = Log
      /\ stat = current /\ stat \in Inodes /\ offset \in Nat
      /\ pc' = "save" /\ Position' = reached' /\ Position = offset
      /\ delivered \in Seq(Nat) /\ lines \in Seq(Nat)
  BY DEF Read, ReadOnce, worldVars, Log, Position, TypeOK
<1>2. PICK new : new = CompleteLines(Data(current, offset))
  OBVIOUS
<1> DEFINE file == content[current]
<1>3. /\ new \in Seq(Nat) /\ Len(new) \in Nat
      /\ lines' = lines \o new /\ reached' = offset + Len(new)
      /\ \/ offset + Len(new) <= Len(file)
         \/ offset > Len(file) /\ Len(new) = 0
      /\ \A n \in 1 .. Len(new) : offset + n \in 1 .. Len(file)
                                /\ new[n] = file[offset + n]
  BY <1>2, NewLinesFacts
<1>4. /\ Len(file) \in Nat /\ \A n \in 1 .. Len(file) : file[n] \in Nat
      /\ InOneBlock(file) /\ UpTo(file, written)
  BY <1>1, ContentFacts DEF LogInvariant, LogInOrder
<1>5. /\ Behind(delivered, offset, file) /\ UpTo(delivered, written)
      /\ Behind(lines, offset, file) /\ UpTo(lines, written)
      /\ Increasing(delivered) /\ Increasing(lines)
      /\ OlderThan(delivered, lines)
  BY <1>1 DEF Read, ReadOnce, Ahead, Log
<1>6. \A n \in 1 .. Len(file) :
         n > reached' \/ reached' > Len(file) => n > offset \/ offset > Len(file)
  BY <1>1, <1>3, <1>4
<1> HIDE DEF file
<1>7. \A m, n \in 1 .. Len(file) : m < n => file[m] < file[n]
  <2>1. ASSUME NEW m \in 1 .. Len(file), NEW n \in 1 .. Len(file), m < n
        PROVE  file[m] < file[n]
    <3>1. file[m] \in Nat /\ file[n] \in Nat /\ file[n] + m = file[m] + n
      BY <1>4 DEF InOneBlock
    <3> QED
      BY <1>4, <2>1, <3>1
  <2> QED
    BY <2>1
<1>8. Increasing(new)
  <2>1. ASSUME NEW m \in 1 .. Len(new), NEW n \in 1 .. Len(new), m < n
        PROVE  new[m] < new[n]
    <3>1. offset + m < offset + n
      BY <1>1, <1>3, <2>1
    <3> QED
      BY <1>3, <1>7, <3>1
  <2> QED
    BY <2>1 DEF Increasing
<1>9. ASSUME NEW q, Behind(q, offset, file)
      PROVE  OlderThan(q, new)
  <2>1. ASSUME NEW m \in 1 .. Len(q), NEW n \in 1 .. Len(new)
        PROVE  q[m] < new[n]
    <3>1. offset + n > offset
      BY <1>1, <1>3
    <3> QED
      BY <1>3, <1>9, <3>1 DEF Behind
  <2> QED
    BY <2>1 DEF OlderThan
<1>10. OlderThan(delivered, new) /\ OlderThan(lines, new)
  BY <1>5, <1>9
<1>11. Increasing(lines')
  BY <1>1, <1>3, <1>5, <1>8, <1>10, ContinuedInOrder
<1>12. MadeOf(lines', lines, new)
  BY <1>1, <1>3, ContinuedElements
<1>13. OlderThan(delivered, lines')
  BY <1>5, <1>10, <1>12 DEF OlderThan, MadeOf
<1>14. Behind(delivered, reached', file) /\ Behind(lines, reached', file)
  BY <1>5, <1>6 DEF Behind
<1>15. Behind(new, reached', file)
  <2>1. ASSUME NEW m \in 1 .. Len(new), NEW n \in 1 .. Len(file),
               n > reached' \/ reached' > Len(file)
        PROVE  new[m] < file[n]
    <3>1. offset + m < n
      BY <1>1, <1>3, <1>4, <2>1
    <3> QED
      BY <1>3, <1>7, <3>1
  <2> QED
    BY <2>1 DEF Behind
<1>16. Behind(lines', reached', file)
  BY <1>12, <1>14, <1>15 DEF Behind, MadeOf
<1>17. UpTo(lines', written)
  <2>1. UpTo(new, written)
    BY <1>3, <1>4 DEF UpTo
  <2> QED
    BY <1>5, <1>12, <2>1, Zenon DEF UpTo, MadeOf
<1>18. Ahead(Log, delivered, stat, reached') /\ Ahead(Log, lines', stat, reached')
  BY <1>1, <1>5, <1>14, <1>16, <1>17 DEF Ahead, Log, file
<1>19. stat # NoFile
  BY <1>1
<1> QED
  BY <1>1, <1>5, <1>11, <1>13, <1>18, <1>19 DEF ReadOnce

LEMMA SaveReadOnce ==
    ASSUME TypeOK, ReadOnce, Save
    PROVE  ReadOnce'
<1>1. /\ saved' = [inode |-> stat, offset |-> reached]
      /\ delivered' = delivered \o lines /\ lines' = <<>>
      /\ pc' = "idle" /\ Log' = Log
      /\ delivered \in Seq(Nat) /\ lines \in Seq(Nat)
      /\ stat # NoFile /\ Position = reached
  BY DEF Save, Finish, worldVars, Log, Position, ReadOnce, TypeOK
<1>2. /\ Increasing(delivered) /\ Increasing(lines)
      /\ OlderThan(delivered, lines)
      /\ Ahead(Log, delivered, stat, reached) /\ Ahead(Log, lines, stat, reached)
  BY <1>1 DEF ReadOnce, Save
<1>3. Increasing(delivered')
  BY <1>1, <1>2, ContinuedInOrder
<1>4. MadeOf(delivered', delivered, lines)
  BY <1>1, ContinuedElements
<1>5. Ahead(Log, delivered', stat, reached)
  BY <1>2, <1>4 DEF Ahead, Behind, OlderThan, UpTo, MadeOf
<1>6. saved'.inode = stat /\ saved'.offset = reached
  BY <1>1
<1> QED
  BY <1>1, <1>3, <1>5, <1>6, NothingIsOld DEF ReadOnce

LEMMA FinishReadOnce ==
    ASSUME ReadOnce, Finish, UNCHANGED <<saved, delivered>>, Log' = Log
    PROVE  ReadOnce'
<1>1. pc' = "idle" /\ lines' = <<>>
  BY DEF Finish
<1> QED
  BY <1>1, NothingIsOld DEF ReadOnce

LEMMA OnceInvariantKept ==
    TypeOK /\ LogInvariant /\ OnceInvariant /\ [Next]_vars => OnceInvariant'
<1> SUFFICES ASSUME TypeOK, LogInvariant, OnceInvariant, [Next]_vars,
                    "raced" \notin mishaps'
             PROVE  ReadOnce'
  BY DEF OnceInvariant
<1>1. "raced" \notin mishaps
  BY DEF Next, ReaderStep, WorldStep, Start, Drain, Read, ReadFails, Save, Crash,
         Write, Rename, Create, Reopen, Discard, Truncate, vars
<1>2. ReadOnce
  BY <1>1 DEF OnceInvariant
<1>3. CASE UNCHANGED vars
  BY <1>2, <1>3 DEF ReadOnce, vars, Log, Position
<1>4. CASE WorldStep
  BY <1>2, <1>4, WorldReadOnce
<1>5. CASE Start
  BY <1>2, <1>5, StartReadOnce
<1>6. CASE Drain
  BY <1>2, <1>6, DrainReadOnce
<1>7. CASE Read
  BY <1>2, <1>7, ReadReadOnce
<1>8. CASE ReadFails
  BY <1>2, <1>8, FinishReadOnce DEF ReadFails, worldVars, Log
<1>9. CASE Save
  BY <1>2, <1>9, SaveReadOnce
<1>10. CASE Crash
  BY <1>2, <1>10, FinishReadOnce DEF Crash, Log
<1> QED
  BY <1>3, <1>4, <1>5, <1>6, <1>7, <1>8, <1>9, <1>10 DEF Next, ReaderStep

LEMMA OnceInvariantInitially == Init => OnceInvariant
BY NothingIsOld DEF Init, OnceInvariant, ReadOnce

(* No line is returned twice, whatever is lost or truncated, unless the    *)
(* log was rotated between os.stat and open.                               *)
THEOREM LinesNeverRepeated == Spec => []NeverRepeated
<1>1. TypeOK /\ OnceInvariant => NeverRepeated
  <2>1. ASSUME TypeOK, ReadOnce
        PROVE  \A m, n \in DOMAIN delivered : m < n => delivered[m] < delivered[n]
    <3>1. DOMAIN delivered = 1 .. Len(delivered)
      BY <2>1 DEF TypeOK
    <3> QED
      BY <2>1, <3>1 DEF ReadOnce, Increasing
  <2> QED
    BY <2>1 DEF OnceInvariant, NeverRepeated
<1>2. Init => TypeOK /\ LogInvariant /\ OnceInvariant
  BY InitiallyTyped, LogInvariantInitially, OnceInvariantInitially
<1>3. TypeOK /\ LogInvariant /\ OnceInvariant /\ [Next]_vars
         => TypeOK' /\ LogInvariant' /\ OnceInvariant'
  BY TypesKept, LogInvariantKept, OnceInvariantKept
<1> QED
  BY <1>1, <1>2, <1>3, PTL DEF Spec

-----------------------------------------------------------------------------
(* What is returned is a beginning of the log.                             *)

(* The four things that a position with `count` units before it can be:    *)
(* the position before the first run,                                      *)
AtBeginning(log, i, count) ==
    /\ i = NoFile
    /\ count = 0
    /\ log.current = log.writer
    /\ Len(log.content[log.writer]) = log.written

(* one in the file that is written, under whatever name,                   *)
AtOpenFile(log, i, off, count) ==
    /\ i = log.writer
    /\ off <= Len(log.content[i])
    /\ count + Len(log.content[i]) = log.written + off

(* one behind the end of the log, which was emptied when all was read,     *)
AtTruncated(log, i, off, count) ==
    /\ i = log.writer
    /\ i = log.current
    /\ off > Len(log.content[i])
    /\ count + Len(log.content[i]) = log.written

(* and one in a finished file, which the log continues.                    *)
AtRotated(log, i, off, count) ==
    /\ i \in log.rotated \ {log.writer}
    /\ log.current = log.writer
    /\ off <= Len(log.content[i])
    /\ \A n \in 1 .. Len(log.content[i]) : log.content[i][n] + off = count + n
    /\ count + Len(log.content[i]) + Len(log.content[log.writer])
          = log.written + off
    /\ IsLineEnd(count + Len(log.content[i]) - off)

At(log, i, off, count) ==
    /\ IsLineEnd(count)
    /\ \/ AtBeginning(log, i, count)
       \/ AtOpenFile(log, i, off, count)
       \/ AtTruncated(log, i, off, count)
       \/ AtRotated(log, i, off, count)

(* q holds the units behind the first `count`.                             *)
Continues(q, count) == \A n \in 1 .. Len(q) : q[n] = count + n

(* The reader is beyond the end of a file only when it was so before, and  *)
(* the file it read has been renamed only when it had been reading it.     *)
ReaderAt(log, last, i, off, count) ==
    /\ At(log, i, off, count)
    /\ off > Len(log.content[i]) => last = [inode |-> i, offset |-> off]
    /\ i \in {log.current, last.inode}

ReadExactly ==
    /\ Continues(delivered, 0)
    /\ Continues(lines, Len(delivered))
    /\ At(Log, saved.inode, saved.offset, Len(delivered))
    /\ pc \in {"read", "save"} =>
          ReaderAt(Log, saved, stat, Position, Len(delivered) + Len(lines))

ExactInvariant == mishaps = {} => ReadExactly

LEMMA WriteAt ==
    ASSUME TypeOK, Write, NEW i \in Inodes \union {NoFile}, NEW off \in Nat,
           NEW count \in Nat, At(Log, i, off, count),
           ~ (i = writer /\ off = Len(content[writer]) + 1)
    PROVE  At(Log', i, off, count)
<1>1. UNCHANGED <<current, writer, rotated>> /\ written' = written + 1
      /\ written \in Nat /\ writer \in Inodes
  BY DEF Write, TypeOK
<1>2. Len(content[writer]) \in Nat
      /\ Len(content'[writer]) = Len(content[writer]) + 1
  BY <1>1, ContentFacts, WriteFacts
<1>3. CASE AtBeginning(Log, i, count)
  <2>1. AtBeginning(Log', i, count)
    BY <1>1, <1>2, <1>3 DEF AtBeginning, Log
  <2> QED
    BY <2>1 DEF At
<1>4. CASE AtOpenFile(Log, i, off, count)
  <2>1. AtOpenFile(Log', i, off, count)
    BY <1>1, <1>2, <1>4 DEF AtOpenFile, Log
  <2> QED
    BY <2>1 DEF At
<1>5. CASE AtTruncated(Log, i, off, count)
  <2>1. AtTruncated(Log', i, off, count)
    BY <1>1, <1>2, <1>5 DEF AtTruncated, Log
  <2> QED
    BY <2>1 DEF At
<1>6. CASE AtRotated(Log, i, off, count)
  <2>1. i \in Inodes \ {writer} /\ content'[i] = content[i] /\ Len(content[i]) \in Nat
    BY <1>1, <1>6, WriteFacts, ContentFacts DEF AtRotated, Log, TypeOK
  <2>2. /\ i \in rotated \ {writer} /\ current = writer /\ off <= Len(content[i])
        /\ \A n \in 1 .. Len(content[i]) : content[i][n] + off = count + n
        /\ count + Len(content[i]) + Len(content[writer]) = written + off
        /\ IsLineEnd(count + Len(content[i]) - off)
    BY <1>6 DEF AtRotated, Log
  <2>3. count + Len(content[i]) + Len(content'[writer]) = (written + 1) + off
    <3>1. PICK l \in Nat : l = Len(content[i])
      BY <2>1
    <3>2. PICK w \in Nat : w = Len(content[writer])
      BY <1>2
    <3>3. count + l + w = written + off /\ Len(content'[writer]) = w + 1
      BY <1>2, <2>2, <3>1, <3>2
    <3>4. count + l + (w + 1) = (written + 1) + off
      BY <1>1, <3>3
    <3> QED
      BY <3>1, <3>3, <3>4
  <2>4. AtRotated(Log', i, off, count)
    BY <1>1, <2>1, <2>2, <2>3 DEF AtRotated, Log
  <2> QED
    BY <2>4 DEF At
<1> QED
  BY <1>3, <1>4, <1>5, <1>6 DEF At

LEMMA RenameAt ==
    ASSUME TypeOK, LogInvariant, Rename, NEW off \in Nat, NEW count \in Nat,
           At(Log, current, off, count), off <= Len(content[current])
    PROVE  At(Log', current, off, count)
<1>1. UNCHANGED <<content, writer, written>> /\ current # NoFile
      /\ current \notin rotated /\ Len(content[current]) \in Nat
  BY ContentFacts DEF Rename, LogInvariant, Places, TypeOK
<1>2. /\ ~ AtBeginning(Log, current, count)
      /\ ~ AtTruncated(Log, current, off, count)
      /\ ~ AtRotated(Log, current, off, count)
  <2>1. ~ AtBeginning(Log, current, count)
    BY <1>1 DEF AtBeginning
  <2>2. ~ AtTruncated(Log, current, off, count)
    <3>1. ~ (off > Len(content[current]))
      BY <1>1
    <3> QED
      BY <3>1 DEF AtTruncated, Log
  <2>3. ~ AtRotated(Log, current, off, count)
    BY <1>1 DEF AtRotated, Log
  <2> QED
    BY <2>1, <2>2, <2>3
<1>3. AtOpenFile(Log, current, off, count)
  BY <1>2 DEF At
<1>4. AtOpenFile(Log', current, off, count)
  BY <1>1, <1>3 DEF AtOpenFile, Log
<1> QED
  BY <1>4 DEF At

LEMMA CreateAt ==
    ASSUME TypeOK, Create, NEW i \in Inodes \union {NoFile}, NEW off \in Nat,
           NEW count \in Nat, At(Log, i, off, count)
    PROVE  At(Log', i, off, count)
<1>1. UNCHANGED <<writer, written>> /\ current = NoFile /\ writer \in Inodes
      /\ current' \in Inodes /\ current' # writer
      /\ content'[writer] = content[writer]
  BY DEF Create, TypeOK
<1>2. AtOpenFile(Log, i, off, count)
  BY <1>1 DEF At, AtBeginning, AtTruncated, AtRotated, Log
<1>3. AtOpenFile(Log', i, off, count)
  BY <1>1, <1>2 DEF AtOpenFile, Log
<1> QED
  BY <1>3 DEF At

LEMMA ReopenAt ==
    ASSUME TypeOK, LogInvariant, Reopen, NEW i \in Inodes \union {NoFile},
           NEW off \in Nat, NEW count \in Nat, At(Log, i, off, count)
    PROVE  At(Log', i, off, count)
<1>1. UNCHANGED <<current, rotated, content, written>> /\ written \in Nat
      /\ current # writer /\ writer' = current /\ IsLineEnd(written)
      /\ content[current] = <<>> /\ Len(content[current]) = 0
      /\ writer \in rotated
  BY DEF Reopen, LogInvariant, Places, TypeOK
<1>2. AtOpenFile(Log, i, off, count)
  BY <1>1 DEF At, AtBeginning, AtTruncated, AtRotated, Log
<1> DEFINE file == content[i]
<1>3. /\ i = writer /\ off <= Len(file) /\ count + Len(file) = written + off
      /\ Len(file) \in Nat
      /\ \A n \in 1 .. Len(file) : file[n] \in Nat
  BY <1>2, ContentFacts DEF AtOpenFile, Log, TypeOK
<1>4. \A n \in 1 .. Len(file) : file[n] + Len(file) = written + n
  BY <1>3 DEF LogInvariant, LogInOrder, EndsWith
<1> HIDE DEF file
<1>5. \A n \in 1 .. Len(file) : file[n] + off = count + n
  <2>1. ASSUME NEW n \in 1 .. Len(file)
        PROVE  file[n] + off = count + n
    <3>1. file[n] \in Nat /\ n \in Nat /\ file[n] + Len(file) = written + n
      BY <1>3, <1>4
    <3>2. PICK l \in Nat : l = Len(file)
      BY <1>3
    <3>3. file[n] + l = written + n /\ count + l = written + off
      BY <1>3, <3>1, <3>2
    <3>4. written \in Nat
      BY <1>1
    <3> QED
      BY <3>1, <3>3, <3>4
  <2> QED
    BY <2>1
<1>6. count + Len(file) - off = written /\ count + Len(file) + 0 = written + off
  BY <1>1, <1>3
<1>7. AtRotated(Log', i, off, count)
  BY <1>1, <1>3, <1>5, <1>6 DEF AtRotated, Log, file
<1> QED
  BY <1>7 DEF At

LEMMA DiscardAt ==
    ASSUME TypeOK, NEW gone \in rotated \ {writer}, rotated' = rotated \ {gone},
           UNCHANGED <<current, content, writer, written>>,
           NEW i \in (Inodes \union {NoFile}) \ {gone}, NEW off \in Nat,
           NEW count \in Nat, At(Log, i, off, count)
    PROVE  At(Log', i, off, count)
<1>1. AtRotated(Log, i, off, count) => AtRotated(Log', i, off, count)
  BY DEF AtRotated, Log
<1>2. AtBeginning(Log, i, count) => AtBeginning(Log', i, count)
  BY DEF AtBeginning, Log
<1>3. AtOpenFile(Log, i, off, count) => AtOpenFile(Log', i, off, count)
  BY DEF AtOpenFile, Log
<1>4. AtTruncated(Log, i, off, count) => AtTruncated(Log', i, off, count)
  BY DEF AtTruncated, Log
<1> QED
  BY <1>1, <1>2, <1>3, <1>4 DEF At

(* The log is emptied when the position is at its end.                     *)
LEMMA TruncateAt ==
    ASSUME TypeOK, LogInvariant, Truncate, NEW off \in Nat, NEW count \in Nat,
           At(Log, current, off, count), off = Len(content[current])
    PROVE  At(Log', current, off, count) /\ count = written
<1>1. current \in Inodes /\ content[current] \in Seq(Nat)
      /\ content'[current] = <<>> /\ content[current] # <<>> /\ Len(<<>>) = 0
      /\ UNCHANGED <<current, rotated, writer, written>> /\ written \in Nat
      /\ current = writer /\ current \notin rotated
  BY DEF Truncate, LogInvariant, Places, TypeOK
<1>2. off > 0
  BY <1>1
<1>3. AtOpenFile(Log, current, off, count)
  BY <1>1, <1>2 DEF At, AtBeginning, AtTruncated, AtRotated, Log
<1>4. count = written
  BY <1>1, <1>2, <1>3 DEF AtOpenFile, Log
<1>5. AtTruncated(Log', current, off, count)
  BY <1>1, <1>2, <1>4 DEF AtTruncated, Log
<1> QED
  BY <1>4, <1>5 DEF At

Count == Len(delivered) + Len(lines)

LEMMA ReaderFacts ==
    ASSUME TypeOK
    PROVE  /\ saved.inode \in Inodes \union {NoFile} /\ saved.offset \in Nat
           /\ saved = [inode |-> saved.inode, offset |-> saved.offset]
           /\ stat \in Inodes \union {NoFile} /\ Position \in Nat
           /\ Len(delivered) \in Nat /\ Len(lines) \in Nat /\ Count \in Nat
BY DEF TypeOK, Position, Count

(* What a step of the world has to preserve.                               *)
PositionsHold(log) ==
    /\ At(log, saved.inode, saved.offset, Len(delivered))
    /\ pc \in {"read", "save"} => ReaderAt(log, saved, stat, Position, Count)

LEMMA WriteHolds ==
    ASSUME TypeOK, ReadOnce, PositionsHold(Log), Write, mishaps' = {}
    PROVE  PositionsHold(Log')
<1>1. ~ (saved.inode = writer /\ saved.offset = Len(content[writer]) + 1)
  BY DEF Write
<1>2. At(Log', saved.inode, saved.offset, Len(delivered))
  BY <1>1, ReaderFacts, WriteAt DEF PositionsHold
<1>3. ASSUME pc \in {"read", "save"}
      PROVE  ReaderAt(Log', saved, stat, Position, Count)
  <2>1. stat \in Inodes /\ Position \in Nat /\ writer \in Inodes
        /\ Len(content[stat]) \in Nat /\ current' = current
    BY <1>3, ReaderFacts, ContentFacts DEF ReadOnce, Write, TypeOK
  <2>2. /\ At(Log, stat, Position, Count)
        /\ Position > Len(content[stat]) =>
              saved = [inode |-> stat, offset |-> Position]
        /\ stat \in {current, saved.inode}
    BY <1>3 DEF PositionsHold, ReaderAt, Log
  <2>3. ~ (stat = writer /\ Position = Len(content[writer]) + 1)
    <3>1. SUFFICES ASSUME stat = writer, Position = Len(content[writer]) + 1
                   PROVE  FALSE
      OBVIOUS
    <3>2. saved = [inode |-> stat, offset |-> Position]
      BY <2>1, <2>2, <3>1
    <3>3. saved.inode = stat /\ saved.offset = Position
      BY <3>2
    <3> QED
      BY <1>1, <3>1, <3>3
  <2>4. At(Log', stat, Position, Count)
    BY <2>1, <2>2, <2>3, ReaderFacts, WriteAt
  <2>5. Position > Len(content'[stat]) => Position > Len(content[stat])
    <3>1. CASE stat = writer
      BY <2>1, <3>1, WriteFacts
    <3>2. CASE stat # writer
      BY <2>1, <3>2, WriteFacts
    <3> QED
      BY <3>1, <3>2
  <2> QED
    BY <2>1, <2>2, <2>4, <2>5 DEF ReaderAt, Log
<1> QED
  BY <1>2, <1>3 DEF PositionsHold

LEMMA RenameHolds ==
    ASSUME TypeOK, LogInvariant, ReadOnce, PositionsHold(Log), Rename,
           mishaps' = {}
    PROVE  PositionsHold(Log')
<1>1. saved.inode = current /\ saved.offset <= Len(content[current])
      /\ pc \notin {"drain", "read"}
      /\ content' = content /\ Len(content[current]) \in Nat
  <2>1. /\ saved.inode # NoFile
        /\ saved.inode \in {NoFile, current}
        /\ pc \notin {"drain", "read"}
        /\ ~ (saved.offset > Len(content[current]))
    BY DEF Rename
  <2>2. current \in Inodes /\ content' = content
    BY DEF Rename, TypeOK
  <2>3. Len(content[current]) \in Nat
    BY <2>2, ContentFacts
  <2> QED
    BY <2>1, <2>2, <2>3, ReaderFacts
<1>2. At(Log', saved.inode, saved.offset, Len(delivered))
  BY <1>1, ReaderFacts, RenameAt DEF PositionsHold
<1>3. ASSUME pc \in {"read", "save"}
      PROVE  ReaderAt(Log', saved, stat, Position, Count)
  <2>1. /\ At(Log, stat, Position, Count)
        /\ Position > Len(content[stat]) =>
              saved = [inode |-> stat, offset |-> Position]
        /\ stat = current
    BY <1>1, <1>3 DEF PositionsHold, ReaderAt, Log
  <2>2. Position <= Len(content[current])
    <3>1. SUFFICES ASSUME Position > Len(content[current])
                   PROVE  FALSE
      BY <1>1, ReaderFacts
    <3>2. saved = [inode |-> stat, offset |-> Position]
      BY <2>1, <3>1
    <3>3. saved.offset = Position
      BY <3>2
    <3> QED
      BY <1>1, <3>1, <3>3, ReaderFacts
  <2>3. At(Log', stat, Position, Count)
    BY <2>1, <2>2, ReaderFacts, RenameAt
  <2>4. ~ (Position > Len(content'[stat]))
    BY <1>1, <2>1, <2>2, ReaderFacts
  <2> QED
    BY <1>1, <2>1, <2>3, <2>4 DEF ReaderAt, Log
<1> QED
  BY <1>2, <1>3 DEF PositionsHold

LEMMA CreateHolds ==
    ASSUME TypeOK, ReadOnce, PositionsHold(Log), Create
    PROVE  PositionsHold(Log')
<1>1. current = NoFile /\ current' # writer /\ writer \in Inodes
      /\ content'[writer] = content[writer]
  BY DEF Create, TypeOK
<1>2. At(Log', saved.inode, saved.offset, Len(delivered))
  BY ReaderFacts, CreateAt DEF PositionsHold
<1>3. ASSUME pc \in {"read", "save"}
      PROVE  ReaderAt(Log', saved, stat, Position, Count)
  <2>1. /\ At(Log, stat, Position, Count)
        /\ Position > Len(content[stat]) =>
              saved = [inode |-> stat, offset |-> Position]
        /\ stat = saved.inode /\ stat # NoFile
    BY <1>1, <1>3 DEF PositionsHold, ReaderAt, Log, ReadOnce
  <2>2. At(Log', stat, Position, Count)
    BY <2>1, ReaderFacts, CreateAt
  <2>3. stat = writer
    BY <1>1, <2>1 DEF At, AtBeginning, AtOpenFile, AtTruncated, AtRotated, Log
  <2> QED
    BY <1>1, <2>1, <2>2, <2>3 DEF ReaderAt, Log
<1> QED
  BY <1>2, <1>3 DEF PositionsHold

LEMMA ReopenHolds ==
    ASSUME TypeOK, LogInvariant, PositionsHold(Log), Reopen
    PROVE  PositionsHold(Log')
<1>1. UNCHANGED <<current, content>>
  BY DEF Reopen
<1>2. At(Log', saved.inode, saved.offset, Len(delivered))
  BY ReaderFacts, ReopenAt DEF PositionsHold
<1>3. At(Log, stat, Position, Count) => At(Log', stat, Position, Count)
  BY ReaderFacts, ReopenAt
<1> QED
  BY <1>1, <1>2, <1>3 DEF PositionsHold, ReaderAt, Log

LEMMA DiscardHolds ==
    ASSUME TypeOK, LogInvariant, PositionsHold(Log), Discard, mishaps' = {}
    PROVE  PositionsHold(Log')
<1>1. UNCHANGED <<current, content, writer, written>> /\ current \notin rotated
  BY DEF Discard, LogInvariant, Places
<1>2. PICK gone \in rotated \ {writer} :
         rotated' = rotated \ {gone} /\ saved.inode # gone
  BY DEF Discard
<1>3. At(Log', saved.inode, saved.offset, Len(delivered))
  BY <1>1, <1>2, ReaderFacts, DiscardAt DEF PositionsHold
<1>4. stat \in {current, saved.inode} => stat # gone
  BY <1>1, <1>2
<1>5. stat # gone /\ At(Log, stat, Position, Count)
         => At(Log', stat, Position, Count)
  BY <1>1, <1>2, ReaderFacts, DiscardAt
<1> QED
  BY <1>1, <1>3, <1>4, <1>5 DEF PositionsHold, ReaderAt, Log

LEMMA TruncateHolds ==
    ASSUME TypeOK, LogInvariant, ReadOnce, PositionsHold(Log), Truncate,
           mishaps' = {}
    PROVE  PositionsHold(Log')
<1>1. saved = [inode |-> current, offset |-> Len(content[current])]
      /\ current = writer /\ current' = current /\ current \in Inodes
      /\ written \in Nat
  BY DEF Truncate, TypeOK
<1>2. saved.inode = current /\ saved.offset = Len(content[current])
      /\ Len(content[current]) \in Nat
  BY <1>1, ContentFacts
<1>3. At(Log', saved.inode, saved.offset, Len(delivered))
      /\ Len(delivered) = written
  BY <1>2, ReaderFacts, TruncateAt DEF PositionsHold
<1>4. ASSUME pc \in {"read", "save"}
      PROVE  ReaderAt(Log', saved, stat, Position, Count)
  <2>1. /\ At(Log, stat, Position, Count)
        /\ Position > Len(content[stat]) =>
              saved = [inode |-> stat, offset |-> Position]
        /\ stat = current
    BY <1>2, <1>4 DEF PositionsHold, ReaderAt, Log
  <2>2. Position = Len(content[current])
    <3>1. CASE Position > Len(content[current])
      <4>1. saved = [inode |-> stat, offset |-> Position]
        BY <2>1, <3>1
      <4>2. saved.offset = Position
        BY <4>1
      <4> QED
        BY <1>2, <4>2
    <3>2. CASE ~ (Position > Len(content[current]))
      <4>1. /\ ~ AtBeginning(Log, current, Count)
            /\ ~ AtTruncated(Log, current, Position, Count)
            /\ ~ AtRotated(Log, current, Position, Count)
        <5>1. current # NoFile
          BY <1>1
        <5> QED
          BY <1>1, <3>2, <5>1 DEF AtBeginning, AtTruncated, AtRotated, Log
      <4>2. Count + Len(content[current]) = written + Position
        BY <2>1, <4>1 DEF At, AtOpenFile, Log
      <4>3. Count >= written
        BY <1>3, ReaderFacts DEF Count
      <4> QED
        BY <1>1, <1>2, <3>2, <4>2, <4>3, ReaderFacts
    <3> QED
      BY <3>1, <3>2
  <2>3. At(Log', stat, Position, Count)
    BY <1>2, <2>1, <2>2, ReaderFacts, TruncateAt
  <2>4. saved = [inode |-> stat, offset |-> Position]
    BY <1>1, <2>1, <2>2
  <2> QED
    BY <1>1, <2>1, <2>3, <2>4 DEF ReaderAt, Log
<1> QED
  BY <1>3, <1>4 DEF PositionsHold

LEMMA WorldReadExactly ==
    ASSUME TypeOK, LogInvariant, ReadOnce, ReadExactly, WorldStep, mishaps' = {}
    PROVE  ReadExactly'
<1>1. UNCHANGED <<saved, pc, stat, offset, lines, reached, delivered>>
  BY DEF WorldStep, Write, Rename, Create, Reopen, Discard, Truncate, localVars
<1>2. PositionsHold(Log)
  BY DEF ReadExactly, PositionsHold, Count
<1>3. PositionsHold(Log')
  BY <1>2, WriteHolds, RenameHolds, CreateHolds, ReopenHolds, DiscardHolds,
     TruncateHolds DEF WorldStep
<1>4. Position' = Position
  BY <1>1 DEF Position
<1> QED
  BY <1>1, <1>3, <1>4 DEF ReadExactly, PositionsHold, Count

LEMMA NothingContinues == \A count : Continues(<<>>, count)
<1>1. Len(<<>>) = 0
  OBVIOUS
<1> QED
  BY <1>1 DEF Continues

(* A file that a position is in while the log's path names it is the one   *)
(* that is written.                                                        *)
LEMMA AtCurrent ==
    ASSUME TypeOK, LogInvariant, NEW off \in Nat, NEW count \in Nat,
           current # NoFile, At(Log, current, off, count)
    PROVE  /\ IsLineEnd(count)
           /\ current = writer
           /\ off <= Len(content[current]) =>
                 count + Len(content[current]) = written + off
           /\ off > Len(content[current]) =>
                 count + Len(content[current]) = written
<1>1. /\ ~ AtBeginning(Log, current, count)
      /\ ~ AtRotated(Log, current, off, count)
  BY DEF AtBeginning, AtRotated, Log, LogInvariant, Places
<1>2. Len(content[current]) \in Nat
  BY ContentFacts DEF TypeOK
<1>3. CASE AtOpenFile(Log, current, off, count)
  <2>1. /\ current = writer /\ off <= Len(content[current])
        /\ count + Len(content[current]) = written + off
    BY <1>3 DEF AtOpenFile, Log
  <2> QED
    BY <1>2, <2>1 DEF At
<1>4. CASE AtTruncated(Log, current, off, count)
  <2>1. /\ current = writer /\ off > Len(content[current])
        /\ count + Len(content[current]) = written
    BY <1>4 DEF AtTruncated, Log
  <2> QED
    BY <1>2, <2>1 DEF At
<1> QED
  BY <1>1, <1>3, <1>4 DEF At

LEMMA StartReadExactly ==
    ASSUME TypeOK, LogInvariant, ReadOnce, ReadExactly, Start
    PROVE  ReadExactly'
<1>1. /\ UNCHANGED <<saved, lines, delivered>>
      /\ Log' = Log /\ stat' = current /\ pc' \in {"drain", "read"}
      /\ lines = <<>> /\ current \in Inodes /\ current # NoFile
      /\ UNCHANGED <<current, content>>
  BY DEF Start, ReadOnce, worldVars, Log, TypeOK
<1>2. Len(lines) = 0 /\ Len(delivered) + Len(lines) = Len(delivered)
  BY <1>1, ReaderFacts
<1>3. Len(content[current]) \in Nat /\ written \in Nat
  BY <1>1, ContentFacts DEF TypeOK
<1>4. CASE pc' = "drain"
  BY <1>1, <1>4 DEF ReadExactly
<1>5. CASE pc' = "read"
  <2>1. saved.inode \in {NoFile, current} /\ Position' = offset'
        /\ offset' = IF saved.inode = NoFile \/ saved.offset > Len(content[current])
                     THEN 0 ELSE saved.offset
    BY <1>5 DEF Start, Position
  <2>2. At(Log, saved.inode, saved.offset, Len(delivered))
    BY DEF ReadExactly
  <2>3. /\ IsLineEnd(Len(delivered)) /\ current = writer
        /\ Len(delivered) + Len(content[current]) = written + offset'
        /\ offset' <= Len(content[current])
    <3>1. CASE saved.inode = NoFile
      <4>1. NoFile \notin Inodes /\ writer \in Inodes
        BY DEF TypeOK
      <4>2. /\ ~ AtOpenFile(Log, NoFile, saved.offset, Len(delivered))
            /\ ~ AtTruncated(Log, NoFile, saved.offset, Len(delivered))
            /\ ~ AtRotated(Log, NoFile, saved.offset, Len(delivered))
        BY <4>1 DEF AtOpenFile, AtTruncated, AtRotated, Log, TypeOK
      <4>3. AtBeginning(Log, NoFile, Len(delivered)) /\ IsLineEnd(Len(delivered))
        BY <2>2, <3>1, <4>2 DEF At
      <4>4. Len(delivered) = 0 /\ current = writer
            /\ Len(content[writer]) = written
        BY <4>3 DEF AtBeginning, Log
      <4> QED
        BY <1>3, <2>1, <3>1, <4>3, <4>4
    <3>2. CASE saved.inode = current
      <4>1. /\ IsLineEnd(Len(delivered)) /\ current = writer
            /\ saved.offset <= Len(content[current]) =>
                 Len(delivered) + Len(content[current]) = written + saved.offset
            /\ saved.offset > Len(content[current]) =>
                 Len(delivered) + Len(content[current]) = written
        <5>1. At(Log, current, saved.offset, Len(delivered))
          BY <2>2, <3>2
        <5> QED
          BY <1>1, <5>1, ReaderFacts, AtCurrent
      <4> QED
        BY <1>1, <1>3, <2>1, <3>2, <4>1, ReaderFacts
    <3> QED
      BY <2>1, <3>1, <3>2
  <2>4. AtOpenFile(Log, current, offset', Len(delivered))
    BY <2>3 DEF AtOpenFile, Log
  <2>5. At(Log, current, offset', Len(delivered))
    BY <2>3, <2>4 DEF At
  <2>6. ~ (offset' > Len(content[current]))
    BY <1>3, <2>1, <2>3, ReaderFacts
  <2>7. ReaderAt(Log, saved, current, offset', Len(delivered))
    BY <2>5, <2>6 DEF ReaderAt, Log
  <2> QED
    BY <1>1, <1>2, <2>1, <2>7 DEF ReadExactly
<1> QED
  BY <1>1, <1>4, <1>5

(* What is drained is the rest of a finished file, which the log continues. *)
LEMMA DrainReadExactly ==
    ASSUME TypeOK, LogInvariant, ReadOnce, ReadExactly, Drain, mishaps' = {}
    PROVE  ReadExactly'
<1>1. /\ UNCHANGED <<saved, delivered, content, current>> /\ Log' = Log
      /\ stat' = stat /\ stat = current
      /\ offset' = 0 /\ pc' = "read" /\ Position' = 0
      /\ current \in Inodes /\ saved.inode \in Inodes
      /\ saved.inode # writer /\ written \in Nat
  BY DEF Drain, ReadOnce, worldVars, Log, Position, TypeOK
<1> DEFINE old == content[saved.inode]
           off == saved.offset
           count == Len(delivered)
<1>2. /\ ~ AtBeginning(Log, saved.inode, count)
      /\ ~ AtOpenFile(Log, saved.inode, off, count)
      /\ ~ AtTruncated(Log, saved.inode, off, count)
  BY <1>1 DEF AtBeginning, AtOpenFile, AtTruncated, Log
<1>3. AtRotated(Log, saved.inode, off, count)
  BY <1>2 DEF ReadExactly, At
<1>4. /\ saved.inode \in Findable /\ current = writer /\ off <= Len(old)
      /\ \A n \in 1 .. Len(old) : old[n] + off = count + n
      /\ count + Len(old) + Len(content[current]) = written + off
      /\ IsLineEnd(count + Len(old) - off)
  BY <1>3 DEF AtRotated, Log, Findable
<1>5. /\ Len(old) \in Nat /\ \A n \in 1 .. Len(old) : old[n] \in Nat
      /\ Len(content[current]) \in Nat /\ off \in Nat /\ count \in Nat
  BY <1>1, ContentFacts, ReaderFacts
<1>6. lines' = Data(saved.inode, off)
  BY <1>4 DEF Drain
<1>7. /\ Len(lines') = Len(old) - off
      /\ \A n \in 1 .. Len(lines') : lines'[n] = old[off + n]
  BY <1>1, <1>4, <1>5, <1>6, DataFacts
<1> HIDE DEF old, off, count
<1>8. ASSUME NEW n \in 1 .. Len(lines')
      PROVE  lines'[n] = count + n
  <2>1. n \in Nat /\ off + n \in 1 .. Len(old)
    BY <1>5, <1>7
  <2>2. lines'[n] = old[off + n] /\ old[off + n] \in Nat
        /\ old[off + n] + off = count + (off + n)
    BY <1>4, <1>5, <1>7, <2>1
  <2>3. PICK u \in Nat : u = old[off + n]
    BY <2>2
  <2>4. u + off = count + (off + n) /\ lines'[n] = u
    BY <2>2, <2>3
  <2>5. off \in Nat /\ count \in Nat /\ n \in Nat
    BY <1>5, <2>1
  <2>6. u = count + n
    BY <2>4, <2>5
  <2> QED
    BY <2>4, <2>6
<1>9. count + Len(lines') = count + Len(old) - off
  BY <1>5, <1>7
<1>10. count + Len(lines') + Len(content[current]) = written + 0
  <2>1. PICK l \in Nat, w \in Nat : l = Len(old) /\ w = Len(content[current])
    BY <1>5
  <2>2. count + l + w = written + off /\ Len(lines') = l - off
    BY <1>4, <1>7, <2>1
  <2>3. off \in Nat /\ count \in Nat /\ written \in Nat
    BY <1>1, <1>5
  <2>4. count + (l - off) + w = written + 0
    BY <2>2, <2>3
  <2> QED
    BY <2>1, <2>2, <2>4
<1>11. AtOpenFile(Log, current, 0, count + Len(lines'))
  <2>1. Log.writer = writer /\ Log.content = content /\ Log.written = written
    BY DEF Log
  <2>2. 0 <= Len(Log.content[current])
    BY <1>5, <2>1
  <2>3. count + Len(lines') + Len(Log.content[current]) = Log.written + 0
    BY <1>10, <2>1
  <2> QED
    BY <1>4, <2>1, <2>2, <2>3, Zenon DEF AtOpenFile
<1>12. At(Log, current, 0, count + Len(lines'))
  BY <1>4, <1>9, <1>11 DEF At
<1>13. ~ (0 > Len(content[current]))
  BY <1>5
<1>14. ReaderAt(Log, saved, current, 0, count + Len(lines'))
  BY <1>12, <1>13 DEF ReaderAt, Log
<1>15. Continues(lines', count)
  BY <1>8 DEF Continues
<1> QED
  BY <1>1, <1>14, <1>15 DEF ReadExactly, count

LEMMA ContinuesTogether ==
    ASSUME NEW q \in Seq(Nat), NEW r \in Seq(Nat), NEW count \in Nat,
           Continues(q, count), Continues(r, count + Len(q))
    PROVE  Continues(q \o r, count) /\ Len(q \o r) = Len(q) + Len(r)
<1>1. /\ Len(q) \in Nat /\ Len(r) \in Nat
      /\ Len(q \o r) = Len(q) + Len(r)
      /\ \A n \in 1 .. Len(q) : (q \o r)[n] = q[n]
      /\ \A n \in 1 .. Len(r) : (q \o r)[Len(q) + n] = r[n]
  OBVIOUS
<1> DEFINE t == q \o r
<1>2. /\ Len(t) = Len(q) + Len(r)
      /\ \A n \in 1 .. Len(q) : t[n] = q[n]
      /\ \A n \in 1 .. Len(r) : t[Len(q) + n] = r[n]
  BY <1>1
<1> HIDE DEF t
<1>3. ASSUME NEW n \in 1 .. Len(t)
      PROVE  t[n] = count + n
  <2>1. CASE n \in 1 .. Len(q)
    BY <1>2, <2>1 DEF Continues
  <2>2. CASE n \notin 1 .. Len(q)
    <3>1. n \in Nat /\ n - Len(q) \in 1 .. Len(r) /\ n = Len(q) + (n - Len(q))
      BY <1>1, <1>2, <2>2
    <3>2. t[n] = (count + Len(q)) + (n - Len(q))
      BY <1>2, <3>1 DEF Continues
    <3> QED
      BY <1>1, <3>1, <3>2
  <2> QED
    BY <2>1, <2>2
<1> QED
  BY <1>2, <1>3 DEF Continues, t

LEMMA ReadReadExactly ==
    ASSUME TypeOK, LogInvariant, ReadOnce, ReadExactly, Read
    PROVE  ReadExactly'
<1>1. /\ UNCHANGED <<saved, delivered, content, current>> /\ Log' = Log
      /\ stat' = stat /\ stat = current /\ pc = "read"
      /\ pc' = "save" /\ Position' = reached' /\ Position = offset
      /\ current \in Inodes /\ current # NoFile /\ offset \in Nat
      /\ written \in Nat /\ lines \in Seq(Nat)
  BY DEF Read, ReadOnce, worldVars, Log, Position, TypeOK
<1>2. PICK new : new = CompleteLines(Data(current, offset))
  OBVIOUS
<1> DEFINE file == content[current]
<1>3. /\ new \in Seq(Nat) /\ Len(new) \in Nat
      /\ lines' = lines \o new /\ reached' = offset + Len(new)
      /\ Len(new) > 0 => IsLineEnd(new[Len(new)])
      /\ \/ offset + Len(new) <= Len(file)
         \/ offset > Len(file) /\ Len(new) = 0
      /\ \A n \in 1 .. Len(new) : offset + n \in 1 .. Len(file)
                                /\ new[n] = file[offset + n]
  BY <1>2, NewLinesFacts
<1>4. /\ At(Log, current, offset, Count)
      /\ offset > Len(file) => saved = [inode |-> current, offset |-> offset]
  BY <1>1 DEF ReadExactly, ReaderAt, Count, Log
<1>5. /\ IsLineEnd(Count) /\ current = writer
      /\ offset <= Len(file) => Count + Len(file) = written + offset
      /\ offset > Len(file) => Count + Len(file) = written
  BY <1>1, <1>4, ReaderFacts, AtCurrent
<1>6. /\ Len(file) \in Nat /\ Count \in Nat
      /\ Len(delivered) \in Nat /\ Len(lines) \in Nat
      /\ \A n \in 1 .. Len(file) : /\ file[n] \in Nat
                                 /\ file[n] + Len(file) = written + n
  BY <1>1, <1>5, ContentFacts, ReaderFacts
  DEF LogInvariant, LogInOrder, EndsWith
<1> HIDE DEF file
<1>7. ASSUME NEW n \in 1 .. Len(new)
      PROVE  new[n] = Count + n
  <2>1. PICK k \in 1 .. Len(file) : k = offset + n
    BY <1>3
  <2>2. PICK u \in Nat : u = file[k]
    BY <1>6
  <2>3. PICK l \in Nat : l = Len(file)
    BY <1>6
  <2>4. u + l = written + k /\ new[n] = u
    BY <1>3, <1>6, <2>1, <2>2, <2>3
  <2>5. n \in Nat /\ k \in Nat /\ offset <= l
    BY <1>1, <1>3, <2>1, <2>3
  <2>6. Count + l = written + offset
    BY <1>5, <2>3, <2>5
  <2>7. u = Count + n
    BY <1>1, <1>6, <2>1, <2>4, <2>5, <2>6
  <2> QED
    BY <2>4, <2>7
<1>8. Continues(new, Len(delivered) + Len(lines))
  BY <1>7 DEF Continues, Count
<1>9. Continues(lines', Len(delivered)) /\ Len(lines') = Len(lines) + Len(new)
  BY <1>1, <1>3, <1>6, <1>8, ContinuesTogether DEF ReadExactly
<1>10. Len(delivered) + Len(lines') = Count + Len(new)
  BY <1>3, <1>6, <1>9 DEF Count
<1>11. IsLineEnd(Count + Len(new))
  <2>1. CASE Len(new) = 0
    <3>1. Count + Len(new) = Count
      BY <1>6, <2>1
    <3> QED
      BY <1>5, <3>1
  <2>2. CASE Len(new) > 0
    <3>1. new[Len(new)] = Count + Len(new)
      BY <1>3, <1>7, <2>2
    <3> QED
      BY <1>3, <2>2, <3>1
  <2> QED
    BY <1>3, <2>1, <2>2
<1>12. CASE offset <= Len(file)
  <2>1. reached' <= Len(file)
    BY <1>1, <1>3, <1>6, <1>12
  <2>2. Count + Len(new) + Len(file) = written + reached'
    <3>1. PICK l \in Nat, k \in Nat, c \in Nat :
             l = Len(file) /\ k = Len(new) /\ c = Count
      BY <1>3, <1>6
    <3>2. c + l = written + offset /\ reached' = offset + k
      BY <1>3, <1>5, <1>12, <3>1
    <3>3. written \in Nat /\ offset \in Nat
      BY <1>1
    <3>4. c + k + l = written + reached'
      BY <3>2, <3>3
    <3> QED
      BY <3>1, <3>4
  <2>3. AtOpenFile(Log, current, reached', Count + Len(new))
    BY <1>5, <2>1, <2>2 DEF AtOpenFile, Log, file
  <2>4. At(Log, current, reached', Count + Len(new))
    BY <1>11, <2>3 DEF At
  <2>5. ~ (reached' > Len(file))
    BY <1>1, <1>3, <1>6, <2>1
  <2> QED
    BY <1>1, <1>9, <1>10, <2>4, <2>5 DEF ReadExactly, ReaderAt, Log, file
<1>13. CASE offset > Len(file)
  <2>1. reached' = offset /\ Count + Len(new) = Count
    <3>1. Len(new) = 0
      <4>1. ~ (offset + Len(new) <= Len(file))
        BY <1>1, <1>3, <1>6, <1>13
      <4> QED
        BY <1>3, <4>1
    <3>2. reached' = offset + 0
      BY <1>3, <3>1
    <3> QED
      BY <1>1, <1>6, <3>1, <3>2
  <2>2. ReaderAt(Log, saved, current, offset, Count)
    BY <1>4 DEF ReaderAt, Log, file
  <2> QED
    BY <1>1, <1>9, <1>10, <2>1, <2>2 DEF ReadExactly
<1> QED
  BY <1>1, <1>6, <1>12, <1>13

LEMMA SaveReadExactly ==
    ASSUME TypeOK, ReadExactly, Save
    PROVE  ReadExactly'
<1>1. /\ saved' = [inode |-> stat, offset |-> reached]
      /\ delivered' = delivered \o lines /\ lines' = <<>>
      /\ pc = "save" /\ pc' = "idle" /\ Log' = Log
      /\ delivered \in Seq(Nat) /\ lines \in Seq(Nat) /\ Position = reached
  BY DEF Save, Finish, worldVars, Log, Position, TypeOK
<1>2. /\ Continues(delivered, 0) /\ Continues(lines, Len(delivered))
      /\ At(Log, stat, reached, Len(delivered) + Len(lines))
  BY <1>1 DEF ReadExactly, ReaderAt
<1>3. 0 + Len(delivered) = Len(delivered)
  BY ReaderFacts
<1>4. /\ Continues(delivered', 0)
      /\ Len(delivered') = Len(delivered) + Len(lines)
  BY <1>1, <1>2, <1>3, ContinuesTogether
<1>5. saved'.inode = stat /\ saved'.offset = reached
  BY <1>1
<1>6. At(Log', saved'.inode, saved'.offset, Len(delivered'))
  BY <1>1, <1>2, <1>4, <1>5
<1> QED
  BY <1>1, <1>4, <1>6, NothingContinues DEF ReadExactly

LEMMA FinishReadExactly ==
    ASSUME ReadExactly, Finish, UNCHANGED <<saved, delivered>>, Log' = Log
    PROVE  ReadExactly'
<1>1. pc' = "idle" /\ lines' = <<>>
  BY DEF Finish
<1> QED
  BY <1>1, NothingContinues DEF ReadExactly

LEMMA ExactInvariantKept ==
    /\ TypeOK /\ LogInvariant /\ OnceInvariant /\ ExactInvariant
    /\ [Next]_vars
    => ExactInvariant'
<1> SUFFICES ASSUME TypeOK, LogInvariant, OnceInvariant, ExactInvariant,
                    [Next]_vars, mishaps' = {}
             PROVE  ReadExactly'
  BY DEF ExactInvariant
<1>1. mishaps = {}
  BY DEF Next, ReaderStep, WorldStep, Start, Drain, Read, ReadFails, Save, Crash,
         Write, Rename, Create, Reopen, Discard, Truncate, vars
<1>2. ReadOnce /\ ReadExactly
  BY <1>1 DEF OnceInvariant, ExactInvariant
<1>3. CASE UNCHANGED vars
  BY <1>2, <1>3 DEF ReadExactly, vars, Log, Position
<1>4. CASE WorldStep
  BY <1>2, <1>4, WorldReadExactly
<1>5. CASE Start
  BY <1>2, <1>5, StartReadExactly
<1>6. CASE Drain
  BY <1>2, <1>6, DrainReadExactly
<1>7. CASE Read
  BY <1>2, <1>7, ReadReadExactly
<1>8. CASE ReadFails
  BY <1>2, <1>8, FinishReadExactly DEF ReadFails, worldVars, Log
<1>9. CASE Save
  BY <1>2, <1>9, SaveReadExactly
<1>10. CASE Crash
  BY <1>2, <1>10, FinishReadExactly DEF Crash, Log
<1> QED
  BY <1>3, <1>4, <1>5, <1>6, <1>7, <1>8, <1>9, <1>10 DEF Next, ReaderStep

LEMMA ExactInvariantInitially == Init => ExactInvariant
<1> SUFFICES ASSUME Init PROVE ReadExactly
  BY DEF ExactInvariant
<1>1. /\ delivered = <<>> /\ lines = <<>> /\ Len(<<>>) = 0 /\ pc = "idle"
      /\ saved.inode = NoFile /\ current = writer /\ written = 0
      /\ content[writer] = <<>>
  BY InitiallyTyped DEF Init, TypeOK
<1>2. IsLineEnd(0)
  BY DEF IsLineEnd
<1>3. AtBeginning(Log, NoFile, 0)
  BY <1>1 DEF AtBeginning, Log
<1>4. At(Log, saved.inode, saved.offset, Len(delivered))
  BY <1>1, <1>2, <1>3 DEF At
<1> QED
  BY <1>1, <1>4, NothingContinues DEF ReadExactly

LEMMA ReaderInvariantHolds ==
    Spec => [](TypeOK /\ LogInvariant /\ OnceInvariant /\ ExactInvariant)
<1>1. Init => TypeOK /\ LogInvariant /\ OnceInvariant /\ ExactInvariant
  BY InitiallyTyped, LogInvariantInitially, OnceInvariantInitially,
     ExactInvariantInitially
<1>2. TypeOK /\ LogInvariant /\ OnceInvariant /\ ExactInvariant /\ [Next]_vars
         => TypeOK' /\ LogInvariant' /\ OnceInvariant' /\ ExactInvariant'
  BY TypesKept, LogInvariantKept, OnceInvariantKept, ExactInvariantKept
<1> QED
  BY <1>1, <1>2, PTL DEF Spec

(* Without a mishap the lines returned are exactly the beginning of the    *)
(* log: none is skipped, repeated or reordered by any number of rotations, *)
(* truncations and crashes.                                                *)
THEOREM LinesAreAPrefix == Spec => []ExactPrefix
<1>1. TypeOK /\ ExactInvariant => ExactPrefix
  <2>1. ASSUME TypeOK, ReadExactly
        PROVE  delivered = Upto(Len(delivered))
    <3>1. delivered \in Seq(Nat) /\ Len(delivered) \in Nat
          /\ DOMAIN delivered = 1 .. Len(delivered)
      BY <2>1 DEF TypeOK
    <3>2. \A n \in 1 .. Len(delivered) : delivered[n] = n
      BY <2>1 DEF ReadExactly, Continues
    <3>3. delivered = [n \in 1 .. Len(delivered) |-> delivered[n]]
      BY <3>1
    <3> QED
      BY <3>2, <3>3 DEF Upto
  <2> QED
    BY <2>1 DEF ExactInvariant, ExactPrefix
<1> QED
  BY <1>1, ReaderInvariantHolds, PTL

(* Without a mishap what was returned ends with a whole line, also when    *)
(* its last part comes from the tail of a rotated file.                    *)
THEOREM LinesAreWhole == Spec => []WholeLines
<1>1. TypeOK /\ ExactInvariant => WholeLines
  <2>1. ASSUME TypeOK, ReadExactly, delivered # <<>>
        PROVE  IsLineEnd(Last(delivered))
    <3>1. delivered \in Seq(Nat) /\ Len(delivered) \in Nat /\ Len(delivered) > 0
      BY <2>1 DEF TypeOK
    <3>2. delivered[Len(delivered)] = Len(delivered)
      BY <2>1, <3>1 DEF ReadExactly, Continues
    <3>3. IsLineEnd(Len(delivered))
      BY <2>1 DEF ReadExactly, At
    <3> QED
      BY <3>2, <3>3 DEF Last
  <2> QED
    BY <2>1 DEF ExactInvariant, WholeLines
<1> QED
  BY <1>1, ReaderInvariantHolds, PTL

=============================================================================
