CONSTANTS
    Ids = {r, a, b, c}
    Root = r
    Reqs = {t1, t2}
    Ops = {"create", "remove"}
    Nobody = Nobody
SPECIFICATION Spec
SYMMETRY Symmetry
CHECK_DEADLOCK FALSE
INVARIANTS TombstonesReachDown
