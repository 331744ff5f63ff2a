CONSTANTS
    BLOCK = 4
    MAX_SHOT_SIZE = 7
    MaxPlain = 9
    Slots = {s1, s2, s3}
    Handles = {h1, h2, h3, h4}
SPECIFICATION Spec
SYMMETRY MCSymmetry
INVARIANTS DecryptedIsPlaintext UpdateFits HeldIsLive LeftBehindOnlyBy
CHECK_DEADLOCK FALSE
