SPECIFICATION Spec
CONSTANTS
    c1 = c1
    c2 = c2
    Chat <- MCChat
    MaxChanges = 2
    MaxCrashes = 0
SYMMETRY MCSymmetry
INVARIANTS ErasedForGood
CHECK_DEADLOCK FALSE
