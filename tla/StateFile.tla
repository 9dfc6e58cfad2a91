----------------------------- MODULE StateFile -----------------------------
(***************************************************************************)
(* load_state and save_state, one system call at a time.  save_state opens *)
(* state.json.tmp, which every process shares, for writing, writes it and  *)
(* renames it over state.json; load_state opens state.json and reads to    *)
(* its end.  A process that has a file open keeps that file, whatever      *)
(* becomes of the name.                                                    *)
(*                                                                         *)
(* A file is the sequence of its pieces; a version, that is what one call  *)
(* of save_state writes, is the number of the call and of its pieces.      *)
(***************************************************************************)
EXTENDS Naturals, Sequences

CONSTANTS
    Processes,  \* the engines, one after the other or side by side
    Inodes,     \* the files the file system has room for
    NoFile,
    MaxPieces,  \* bound: pieces of a version
    MaxSaves,   \* bound: calls of save_state
    MaxStops    \* bound: calls that a process does not finish

ASSUME NoFileAssumption == NoFile \notin Inodes
ASSUME FileBoundAssumption == {MaxPieces, MaxSaves, MaxStops} \subseteq Nat

VARIABLES
    names,       \* "state", "temp" -> the file with that name
    data,        \* file -> its pieces
    at,          \* process -> "idle", "load", "save"
    file,        \* process -> the file it has open
    moved,       \* process -> the pieces it has read or written so far
    version,     \* process -> the version it writes; history: the one that was
                 \*   current when it opened state.json to read
    saves,       \* calls of save_state so far
    stops,       \* calls that were not finished
    overlapped,  \* history: two processes were in save_state at once
    current      \* history: the version that was renamed last

fileVars == <<names, data, at, file, moved, version, saves, stops, overlapped, current>>

NoVersion == [save |-> 0, pieces |-> 0]

Content(v) == [i \in 1 .. v.pieces |-> <<v.save, i>>]

Gap == <<0, 0>>  \* the zeros before the place where a process writes on

FileInit ==
    /\ names = [n \in {"state", "temp"} |-> NoFile]
    /\ data = [f \in Inodes |-> <<>>]
    /\ at = [p \in Processes |-> "idle"]
    /\ file = [p \in Processes |-> NoFile]
    /\ moved = [p \in Processes |-> <<>>]
    /\ version = [p \in Processes |-> NoVersion]
    /\ saves = 0
    /\ stops = 0
    /\ overlapped = FALSE
    /\ current = NoVersion

Opens(p, call, f, v) ==
    /\ at' = [at EXCEPT ![p] = call]
    /\ file' = [file EXCEPT ![p] = f]
    /\ moved' = [moved EXCEPT ![p] = <<>>]
    /\ version' = [version EXCEPT ![p] = v]

Closes(p) == Opens(p, "idle", NoFile, NoVersion)

-----------------------------------------------------------------------------
(* load_state.  Without a state.json it returns {} at once.                *)

OpenState(p) ==
    /\ at[p] = "idle"
    /\ names["state"] # NoFile
    /\ Opens(p, "load", names["state"], current)
    /\ UNCHANGED <<names, data, saves, stops, overlapped, current>>

AtEnd(p) == Len(moved[p]) >= Len(data[file[p]])

Read(p) ==
    /\ at[p] = "load"
    /\ ~ AtEnd(p)
    /\ moved' = [moved EXCEPT ![p] = Append(@, data[file[p]][Len(@) + 1])]
    /\ UNCHANGED <<names, data, at, file, version, saves, stops, overlapped, current>>

(* json.load returns, or raises if what was read is not JSON.              *)
EndLoad(p) ==
    /\ at[p] = "load"
    /\ AtEnd(p)
    /\ Closes(p)
    /\ UNCHANGED <<names, data, saves, stops, overlapped, current>>

-----------------------------------------------------------------------------
(* save_state.                                                             *)

Unused(f) ==
    /\ \A n \in {"state", "temp"} : names[n] # f
    /\ \A p \in Processes : file[p] # f

(* open(temp_path, 'w') creates the file, or truncates the one it finds.   *)
OpenTemp(p) ==
    /\ at[p] = "idle"
    /\ saves < MaxSaves
    /\ saves' = saves + 1
    /\ \E f \in Inodes :
          /\ IF names["temp"] = NoFile THEN Unused(f) ELSE f = names["temp"]
          /\ names' = [names EXCEPT !["temp"] = f]
          /\ data' = [data EXCEPT ![f] = <<>>]
          /\ \E n \in 1 .. MaxPieces :
                Opens(p, "save", f, [save |-> saves', pieces |-> n])
    /\ overlapped' = (overlapped \/ \E q \in Processes : at[q] = "save")
    /\ UNCHANGED <<stops, current>>

(* The content of a file after a write of the i-th piece.                  *)
PutAt(content, i, piece) ==
    [j \in 1 .. (IF i > Len(content) THEN i ELSE Len(content)) |->
        IF j = i THEN piece ELSE IF j <= Len(content) THEN content[j] ELSE Gap]

Written(p) == Len(moved[p]) = version[p].pieces

Write(p) ==
    /\ at[p] = "save"
    /\ ~ Written(p)
    /\ LET i == Len(moved[p]) + 1
           piece == Content(version[p])[i]
       IN  /\ data' = [data EXCEPT ![file[p]] = PutAt(@, i, piece)]
           /\ moved' = [moved EXCEPT ![p] = Append(@, piece)]
    /\ UNCHANGED <<names, at, file, version, saves, stops, overlapped, current>>

(* Bug: the file is renamed inside the with block, before it is flushed.   *)
ReplaceUnflushed(p) ==
    /\ at[p] = "save"
    /\ names["temp"] # NoFile
    /\ names' = [state |-> names["temp"], temp |-> NoFile]
    /\ current' = version[p]
    /\ Closes(p)
    /\ UNCHANGED <<data, saves, stops, overlapped>>

(* os.replace, of the file that has the name by now.                       *)
Replace(p) ==
    /\ at[p] = "save"
    /\ Written(p)
    /\ names["temp"] # NoFile
    /\ names' = [state |-> names["temp"], temp |-> NoFile]
    /\ current' = version[p]
    /\ Closes(p)
    /\ UNCHANGED <<data, saves, stops, overlapped>>

(* Another process has renamed the file: FileNotFoundError.                *)
ReplaceFails(p) ==
    /\ at[p] = "save"
    /\ Written(p)
    /\ names["temp"] = NoFile
    /\ Closes(p)
    /\ UNCHANGED <<names, data, saves, stops, overlapped, current>>

(* The process is killed, or a write raises: state.json.tmp stays behind.  *)
Stop(p) ==
    /\ at[p] # "idle"
    /\ stops < MaxStops
    /\ stops' = stops + 1
    /\ Closes(p)
    /\ UNCHANGED <<names, data, saves, overlapped, current>>

FileNext ==
    \E p \in Processes :
        \/ OpenState(p)
        \/ Read(p)
        \/ EndLoad(p)
        \/ OpenTemp(p)
        \/ Write(p)
        \/ Replace(p)
        \/ ReplaceFails(p)
        \/ Stop(p)

FileSpec == FileInit /\ [][FileNext]_fileVars

-----------------------------------------------------------------------------

(* "Save state atomically": unless two processes were in save_state at     *)
(* once, state.json is all of the version that was renamed last, whichever *)
(* saves were cut short and left a temporary file behind; and a load, even *)
(* one during which state.json is replaced, reads all of the version that  *)
(* was current when it began.  Without this the single steps Load and Save *)
(* of EngineCycle would be wrong.                                          *)
StateFileAtomic ==
    ~ overlapped =>
        /\ names["state"] # NoFile => data[names["state"]] = Content(current)
        /\ \A p \in Processes :
              at[p] = "load" /\ AtEnd(p) => moved[p] = Content(version[p])

=============================================================================
