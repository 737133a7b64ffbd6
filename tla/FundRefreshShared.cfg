\* The API and the scheduler refresh from FIPIRAN.
SPECIFICATION FairSpec
CONSTANTS
    Jobs = {api, worker}
    Processes = {api, worker}
    ProcessOf <- OwnProcess
    NoJob = NoJob
    Funds = {1, 2}
    Dates = {1, 2, 3}
    Catalogues <- FipiranCatalogues
    Histories <- FipiranHistories
    HasHistory = TRUE
    HistoryLimit = 1
    NoLimit = NoLimit
    Autoflush = FALSE
    MaxRetries = 1
    Failures = {"step", "crash"}
    MaxRuns = 2
    MaxFailures = 1
INVARIANTS LockReturned OneWriter
PROPERTIES MetricsFresh Publishes RefreshEnds
