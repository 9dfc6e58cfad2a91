--------------------------- MODULE MCEngineCycle ---------------------------
(* Finite instance for TLC: a behaviour follows the engine cycles or the    *)
(* system calls on state.json.  The collectors that save after every read   *)
(* come first, as those of auth.log and audit.log do.                       *)
EXTENDS EngineCycle, StateFile

VARIABLE part

allVars == <<part, vars, fileVars>>

AllInit == part \in {"cycle", "file"} /\ Init /\ FileInit

AllNext ==
    \/ part = "cycle" /\ Next /\ UNCHANGED <<part, fileVars>>
    \/ part = "file" /\ FileNext /\ UNCHANGED <<part, vars>>

AllSpec ==
    /\ AllInit
    /\ [][AllNext]_allVars
    /\ WF_allVars(part = "cycle" /\ Repair /\ UNCHANGED <<part, fileVars>>)
    /\ \A e \in Engines :
          WF_allVars(part = "cycle" /\ EngineStep(e) /\ UNCHANGED <<part, fileVars>>)

FirstSaves == {1}
TwoThenOne == <<2, 1>>

=============================================================================
