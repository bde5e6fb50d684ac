CONSTANTS
    Ids = {r, a, b, c, d}
    Root = r
    Reqs = {t1, t2, t3}
    Last = t3
    Ops = {"move"}
    Nobody = Nobody
SPECIFICATION Spec
SYMMETRY Symmetry
CONSTRAINT AfterStalePath
CHECK_DEADLOCK FALSE
INVARIANTS OneTree
