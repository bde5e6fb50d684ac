CONSTANTS
    Users = {u1}
    Link = link
    ShareIsFile = FALSE
    Queries = {q1}
    None = None
SPECIFICATION Spec
CHECK_DEADLOCK FALSE
PROPERTIES ReturnsToThePage
