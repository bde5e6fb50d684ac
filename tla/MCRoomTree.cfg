CONSTANTS
    Ids = {i1, i2, i3, i4, i5}
    Names = {nA, nB}
    NoParent = NoParent
SPECIFICATION Spec
SYMMETRY Symmetry
INVARIANTS PathsAreAncestry TombstonesReachDown RoomsAreClosed
    PatternMatchesSubtree
PROPERTY ImplementsFolderTree
