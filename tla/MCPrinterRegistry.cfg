SPECIFICATION FairSpec
CONSTANTS
    Urls = {u, v}
    Blank = Blank
    PostUrls = {u, v}
    None = None
    OfflineThreshold = 2
    MaxOps = 4
    MaxFaults = 1
INVARIANTS
    TypeOK
    EntriesNameTheirRow
    EveryPrinterIsPolled
PROPERTIES
    OfflineIsEarned
    RowsHeal
