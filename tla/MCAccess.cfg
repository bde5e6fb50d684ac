CONSTANTS
    Ids = {r, a, b, c}
    Root = r
    Emails = {e}
    Tokens = {k}
    MaxShares = 2
    NoParent = NoParent
    Names = {r, a, b, c}
SPECIFICATION AccessSpec
SYMMETRY Symmetry
INVARIANTS AccessTypeOK ResolverMatchesGrants AnnouncedSharesOpen ReadsAreTheSubtree
PROPERTIES OnlySharedRowsAreRead
