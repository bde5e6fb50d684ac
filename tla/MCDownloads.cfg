CONSTANTS
    Vers = {v1, v2}
    Contents = {pdf, bad}
    Good = {pdf}
    Reqs = {t1, t2}
    MaxPuts = 2
    MaxCrashes = 1
    Readers = {g1}
    None = None
SPECIFICATION DownloadsSpec
INVARIANTS ServedBytesWereVerified
PROPERTIES PendingFilesEnd
