SPECIFICATION Spec
CONSTANTS
    Variables = {x, y}
    Entries = {e}
    Atoms <- MCAtoms
    Keys <- MCKeys
    MaxBlocks = 5
    MaxDepth = 2
    MaxFailed = 1
INVARIANTS TypeOK OneOwner
PROPERTIES OnlyEmptied
SYMMETRY MCSymmetry
