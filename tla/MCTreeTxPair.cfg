CONSTANTS
    Ids = {r, a, b, c}
    Root = r
    Reqs = {t1, t2}
    Ops = {"move", "remove", "create"}
    Nobody = Nobody
SPECIFICATION Spec
CHECK_DEADLOCK FALSE
INVARIANTS OneTree PathsStayInRoom
PROPERTIES TombstonesStay EveryRequestAnswered SerialCommitsAreHandlers
