CONSTANTS
    Names = {a, b}
    Passwords = {p1, p2}
    Googles = {g1, g2}
    Ids = {i1, i2, i3}
    Reqs = {q1, q2, q3}
    MaxRequests = 4
    None = None
SPECIFICATION Spec
SYMMETRY Symmetry
CHECK_DEADLOCK FALSE
INVARIANTS OneAccountPerAddress SessionsProven InvitesReach
PROPERTIES LinksStay
