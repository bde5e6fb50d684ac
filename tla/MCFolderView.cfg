CONSTANTS
    Ids = {1, 2, 3}
    MaxKey = 2
    Limit = 1
    Muts = {m1, m2}
    MaxWrites = 2
    None = None
SPECIFICATION Spec
SYMMETRY Symmetry
CHECK_DEADLOCK FALSE
INVARIANTS UntouchedRowsOnce QuietViewIsListing
