CONSTANTS
    Users = {u1}
    Link = link
    ShareIsFile = TRUE
    Queries = {q1}
    None = None
SPECIFICATION Spec
CHECK_DEADLOCK FALSE
INVARIANTS TypeOK TokenIsTheRoute GuestAnswersEvicted SignedInHasBearer
PROPERTIES CallsSettle
