SPECIFICATION Spec
CONSTANTS
    Inodes = {i1, i2, i3}
    NoFile = NoFile
    MaxUnits = 4
    Rations <- RotatedTwice
INVARIANT
    SurvivesRotation
