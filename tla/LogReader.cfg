\* Three inodes, so that a rotated log can always be created anew.
SPECIFICATION FairSpec
CONSTANTS
    Inodes = {i1, i2, i3}
    NoFile = NoFile
    MaxUnits = 6
    Rations <- RotatedTwiceOrOnce
INVARIANTS
    TypeOK
    ExactPrefix
    WholeLines
    NeverRepeated
PROPERTY
    EventuallyDelivered
