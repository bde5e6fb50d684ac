CONSTANTS
    Vers = {v1, v2, v3}
    Contents = {pdf1, pdf2, bad}
    Good = {pdf1, pdf2}
    Reqs = {t1, t2}
    MaxPuts = 3
    MaxCrashes = 1
    None = None
SPECIFICATION Spec
SYMMETRY Symmetry
INVARIANTS TypeOK ActiveFilesAreWhole RestoredCopiesMatch
PROPERTIES HistoryKept
