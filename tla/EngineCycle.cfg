\* The deployed engine and one started by hand, one collector of each kind;
\* the same two at the system calls of load_state and save_state.
SPECIFICATION AllSpec
CONSTANTS
    Engines = {e1, e2}
    Stages = 2
    AlwaysSaving <- FirstSaves
    MaxEvents <- TwoThenOne
    MaxKills = 1
    MaxDamages = 1
    Processes = {e1, e2}
    Inodes = {f1, f2, f3}
    NoFile = NoFile
    MaxPieces = 2
    MaxSaves = 3
    MaxStops = 1
INVARIANTS
    Accounted
    ReadOnce
    StateFileAtomic
PROPERTY
    EventuallyStored
